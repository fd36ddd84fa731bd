---------------------------- MODULE ServerSocket ----------------------------
(***************************************************************************)
(* One connection of the TellStore server (src/server/ServerSocket.cpp)   *)
(* and the client processor that drives it (src/client/ClientManager.hpp). *)
(*                                                                         *)
(* The server handles the requests of the connection one at a time, in     *)
(* the order the transport delivers them (onRequest).  Its state is the    *)
(* per-connection snapshot cache mSnapshots (version -> descriptor) and    *)
(* the scan registry mScans (scan id -> the running scan and the id of the *)
(* message that started it).  A scan runs on the storage's scan threads;   *)
(* when the write carrying its last batch completes, onWrite(DONE) is      *)
(* called on the processor thread, interleaved with later requests, and    *)
(* answers the SCAN request.                                               *)
(*                                                                         *)
(* Data is abstracted to identity: a snapshot descriptor is the            *)
(* transaction it belongs to (versions are unique per transaction), table  *)
(* names and table ids are one set, and payloads, schemas, queries and     *)
(* the scan's data writes are left out.  The storage operations behind a  *)
(* handler (get, update, ..., scan admission) are not modelled, except    *)
(* that mStorage.scan may refuse a scan (server overload).                 *)
(***************************************************************************)
EXTENDS Naturals, Sequences, FiniteSets

CONSTANTS
    Txs,            \* client transactions; tx t reads at snapshot version t
    ScanIds,        \* the uint16_t scan ids a client may use
    TableIds,       \* table names/ids a client may name
    InitTables,     \* the tables that exist at the start
    DataKinds,      \* request types handled by handleGet .. handleRevert
    SnapshotModes,  \* the <<cached, hasDescriptor>> flags a client may send
    KnownTablesOnly,\* TRUE: the client scans only tables that exist
    MaxRequests,    \* bound on the number of requests of the connection
    NoMsg           \* "no entry" in mScans

ASSUME InitTables \subseteq TableIds
ASSUME DataKinds \subseteq {"GET", "UPDATE", "INSERT", "REMOVE", "REVERT"}
ASSUME SnapshotModes \subseteq BOOLEAN \X BOOLEAN
ASSUME KnownTablesOnly \in BOOLEAN /\ MaxRequests \in Nat

VARIABLES
    tables,     \* the storage's tables
    mSnapshots, \* versions whose descriptor is in the connection's cache
    mScans,     \* mScans[s]: message id of the scan registered under s, or NoMsg
    running,    \* scans the storage is executing, whose DONE write is pending
    inbox,      \* requests delivered to the connection, not yet handled
    out,        \* history: responses written, in order, as [mid, type]
    sent,       \* history: every request the client sent
    tx,         \* tx[t]: "new", "active" or "committed"
    crashed     \* the processor thread dereferenced a null table

vars == <<tables, mSnapshots, mScans, running, inbox, out, sent, tx, crashed>>

MsgIds == 1 .. MaxRequests
RespTypes == {"CREATE_TABLE", "GET_TABLE", "GET", "MODIFICATION", "SCAN",
              "invalid_table", "invalid_snapshot", "invalid_scan", "server_overlad"}
NoTx == "none"
NoScan == "none"

Request == [mid : MsgIds, type : {"CREATE_TABLE", "GET_TABLE", "SCAN"} \cup DataKinds,
            tx : Txs \cup {NoTx}, table : TableIds, scan : ScanIds \cup {NoScan},
            cached : BOOLEAN, hasDescriptor : BOOLEAN]

NextMid == Cardinality(sent) + 1

Answered(mid) == \E i \in DOMAIN out : out[i].mid = mid

\* writeResponse / writeErrorResponse
Respond(mid, type) == out' = Append(out, [mid |-> mid, type |-> type])

Init ==
    /\ tables = InitTables
    /\ mSnapshots = {}
    /\ mScans = [s \in ScanIds |-> NoMsg]
    /\ running = {}
    /\ inbox = <<>>
    /\ out = <<>>
    /\ sent = {}
    /\ tx = [t \in Txs |-> "new"]
    /\ crashed = FALSE

-----------------------------------------------------------------------------
(* The client processor                                                    *)

\* start(): mCommitManager.startTx() hands the transaction its snapshot.
StartTx(t) ==
    /\ tx[t] = "new"
    /\ tx' = [tx EXCEPT ![t] = "active"]
    /\ UNCHANGED <<tables, mSnapshots, mScans, running, inbox, out, sent, crashed>>

\* commit(snapshot): mCommitManager.commitTx(snapshot).  The transaction's
\* fiber has waited for the responses of its requests.  Nothing is sent to
\* the server.
CommitTx(t) ==
    /\ tx[t] = "active"
    /\ \A r \in sent : r.tx = t => Answered(r.mid)
    /\ tx' = [tx EXCEPT ![t] = "committed"]
    /\ UNCHANGED <<tables, mSnapshots, mScans, running, inbox, out, sent, crashed>>

\* mTellStoreSocket.<request>(...): the request is sent on the connection.
Send(r) ==
    /\ NextMid <= MaxRequests
    /\ r.mid = NextMid
    /\ sent' = sent \cup {r}
    /\ inbox' = Append(inbox, r)
    /\ UNCHANGED <<tables, mSnapshots, mScans, running, out, tx, crashed>>

Req(type, t, tbl, s, mode) ==
    [mid |-> NextMid, type |-> type, tx |-> t, table |-> tbl, scan |-> s,
     cached |-> mode[1], hasDescriptor |-> mode[2]]

SendTableRequest ==
    \E type \in {"CREATE_TABLE", "GET_TABLE"}, tbl \in TableIds :
        Send(Req(type, NoTx, tbl, NoScan, <<FALSE, FALSE>>))

SendDataRequest ==
    \E type \in DataKinds, t \in Txs, tbl \in tables, mode \in SnapshotModes :
        /\ tx[t] = "active"
        /\ Send(Req(type, t, tbl, NoScan, mode))

SendScan ==
    \E t \in Txs, s \in ScanIds, mode \in SnapshotModes,
       tbl \in (IF KnownTablesOnly THEN tables ELSE TableIds) :
        /\ tx[t] = "active"
        /\ Send(Req("SCAN", t, tbl, s, mode))

Client ==
    \/ \E t \in Txs : StartTx(t) \/ CommitTx(t)
    \/ SendTableRequest \/ SendDataRequest \/ SendScan

-----------------------------------------------------------------------------
(* The server socket: handlers called from onRequest                       *)

\* handleSnapshot: is a descriptor available for the request?  Without a
\* descriptor it must be in the cache; a descriptor to be cached must not
\* be there yet; an uncached request must carry its descriptor.
SnapshotFound(m) ==
    IF m.cached THEN IF m.hasDescriptor THEN m.tx \notin mSnapshots
                                        ELSE m.tx \in mSnapshots
                ELSE m.hasDescriptor

\* mSnapshots.emplace(snapshot->version(), ...) for cached descriptors.
CacheAfter(m) ==
    IF m.cached /\ m.hasDescriptor THEN mSnapshots \cup {m.tx} ELSE mSnapshots

\* handleCreateTable: mStorage.createTable fails if the table exists.
HandleCreateTable(m) ==
    /\ m.type = "CREATE_TABLE"
    /\ IF m.table \in tables
         THEN /\ Respond(m.mid, "invalid_table") /\ UNCHANGED tables
         ELSE /\ Respond(m.mid, "CREATE_TABLE") /\ tables' = tables \cup {m.table}
    /\ UNCHANGED <<mSnapshots, mScans, running, crashed>>

\* handleGetTable: invalid_table if mStorage.getTable returns null.
HandleGetTable(m) ==
    /\ m.type = "GET_TABLE"
    /\ Respond(m.mid, IF m.table \in tables THEN "GET_TABLE" ELSE "invalid_table")
    /\ UNCHANGED <<tables, mSnapshots, mScans, running, crashed>>

\* The callback of handleGet/Update/Insert/Remove/Revert: the storage
\* operation, then the GET or MODIFICATION response.
DataOp(m) ==
    /\ Respond(m.mid, IF m.type = "GET" THEN "GET" ELSE "MODIFICATION")
    /\ UNCHANGED <<mScans, running, crashed>>

\* Variant of ScanOp without the return after the invalid_scan error: the
\* duplicate goes on to mStorage.scan.
ScanOpNoReturn(m) ==
    LET s == m.scan IN
    IF m.table \notin tables
    THEN /\ crashed' = TRUE /\ UNCHANGED <<out, mScans, running>>
    ELSE \E ok \in BOOLEAN :
         LET dup == mScans[s] # NoMsg IN
         /\ out' = out \o (IF dup THEN <<[mid |-> m.mid, type |-> "invalid_scan"]>> ELSE <<>>)
                      \o (IF ok THEN <<>> ELSE <<[mid |-> m.mid, type |-> "server_overlad"]>>)
         /\ running' = IF ok THEN running \cup {s} ELSE running
         /\ mScans' = IF dup THEN mScans
                      ELSE [mScans EXCEPT ![s] = IF ok THEN m.mid ELSE NoMsg]
         /\ UNCHANGED crashed

\* Variant of ScanOp that does not erase the entry when the storage
\* refuses the scan.
ScanOpNoErase(m) ==
    LET s == m.scan IN
    IF m.table \notin tables
    THEN /\ crashed' = TRUE /\ UNCHANGED <<out, mScans, running>>
    ELSE IF mScans[s] # NoMsg
    THEN /\ Respond(m.mid, "invalid_scan") /\ UNCHANGED <<mScans, running, crashed>>
    ELSE \E ok \in BOOLEAN :
         /\ mScans' = [mScans EXCEPT ![s] = m.mid]
         /\ IF ok THEN running' = running \cup {s} /\ UNCHANGED out
                  ELSE Respond(m.mid, "server_overlad") /\ UNCHANGED running
         /\ UNCHANGED crashed

\* The callback of handleScan.  table->record() is called on the result of
\* mStorage.getTable(tableId) without a null check: for an unknown table
\* the processor thread crashes.  Otherwise the scan is registered under
\* its id (invalid_scan if the id is taken) and handed to the storage,
\* which may refuse it (server_overlad, and the entry is erased again).
ScanOp(m) ==
    LET s == m.scan IN
    IF m.table \notin tables
    THEN /\ crashed' = TRUE /\ UNCHANGED <<out, mScans, running>>
    ELSE IF mScans[s] # NoMsg
    THEN /\ Respond(m.mid, "invalid_scan") /\ UNCHANGED <<mScans, running, crashed>>
    ELSE \E ok \in BOOLEAN :
         /\ IF ok THEN /\ mScans' = [mScans EXCEPT ![s] = m.mid]
                       /\ running' = running \cup {s}
                       /\ UNCHANGED out
                  ELSE /\ Respond(m.mid, "server_overlad")
                       /\ UNCHANGED <<mScans, running>>
         /\ UNCHANGED crashed

\* The lambda f a handler passes to handleSnapshot.
Callback(m) == IF m.type = "SCAN" THEN ScanOp(m) ELSE DataOp(m)

\* Variant of HandleSnapshot that returns on a cache miss without writing
\* the invalid_snapshot error.
HandleSnapshotNoError(m) ==
    /\ mSnapshots' = CacheAfter(m)
    /\ IF SnapshotFound(m) THEN Callback(m)
       ELSE IF m.cached /\ ~m.hasDescriptor
            THEN UNCHANGED <<out, mScans, running, crashed>>
            ELSE /\ Respond(m.mid, "invalid_snapshot")
                 /\ UNCHANGED <<mScans, running, crashed>>

\* handleSnapshot(messageId, request, f): call the handler's callback f
\* with the descriptor, or answer invalid_snapshot.
HandleSnapshot(m) ==
    /\ mSnapshots' = CacheAfter(m)
    /\ IF SnapshotFound(m) THEN Callback(m)
       ELSE /\ Respond(m.mid, "invalid_snapshot")
            /\ UNCHANGED <<mScans, running, crashed>>

HandleData(m) ==
    /\ m.type \in DataKinds
    /\ HandleSnapshot(m)
    /\ UNCHANGED tables

HandleScan(m) ==
    /\ m.type = "SCAN"
    /\ HandleSnapshot(m)
    /\ UNCHANGED tables

\* onRequest: take the next delivered request and dispatch on its type.
OnRequest ==
    /\ ~crashed
    /\ inbox # <<>>
    /\ inbox' = Tail(inbox)
    /\ LET m == Head(inbox) IN
         \/ HandleCreateTable(m) \/ HandleGetTable(m)
         \/ HandleData(m) \/ HandleScan(m)
    /\ UNCHANGED <<sent, tx>>

\* Variant of OnWriteDone that answers with the scan id in place of the
\* message id of the request.
OnWriteDoneWrongId(s) ==
    /\ ~crashed
    /\ s \in running
    /\ running' = running \ {s}
    /\ IF mScans[s] = NoMsg
         THEN UNCHANGED <<out, mScans>>
         ELSE /\ out' = Append(out, [mid |-> s, type |-> "SCAN"])
              /\ mScans' = [mScans EXCEPT ![s] = NoMsg]
    /\ UNCHANGED <<tables, mSnapshots, inbox, sent, tx, crashed>>

\* onWrite(userId, bufferId, ec) with status DONE: the last write of scan s
\* completed.  Find the registered scan (LOG_ERROR if there is none),
\* answer its request with SCAN and erase the entry.
OnWriteDone(s) ==
    /\ ~crashed
    /\ s \in running
    /\ running' = running \ {s}
    /\ IF mScans[s] = NoMsg
         THEN UNCHANGED <<out, mScans>>
         ELSE /\ Respond(mScans[s], "SCAN")
              /\ mScans' = [mScans EXCEPT ![s] = NoMsg]
    /\ UNCHANGED <<tables, mSnapshots, inbox, sent, tx, crashed>>

Server == OnRequest \/ \E s \in ScanIds : OnWriteDone(s)

\* Nothing left to do: every request sent and handled, no scan running.
Quiescent ==
    /\ NextMid > MaxRequests /\ inbox = <<>> /\ running = {}
    /\ \A t \in Txs : tx[t] # "active"

Next ==
    \/ Client
    \/ Server
    \/ Quiescent /\ UNCHANGED vars

\* The processor thread handles its event queue: a request that has been
\* delivered is eventually handled, and a scan over a finite table
\* eventually completes its last write.  The client need not progress.
Spec == Init /\ [][Next]_vars /\ WF_vars(OnRequest)
                               /\ \A s \in ScanIds : WF_vars(OnWriteDone(s))

-----------------------------------------------------------------------------
(* Properties                                                              *)

TypeOK ==
    /\ tables \subseteq TableIds
    /\ mSnapshots \subseteq Txs
    /\ mScans \in [ScanIds -> MsgIds \cup {NoMsg}]
    /\ running \subseteq ScanIds
    /\ inbox \in Seq(Request)
    /\ out \in Seq([mid : MsgIds, type : RespTypes])
    /\ sent \subseteq Request
    /\ tx \in [Txs -> {"new", "active", "committed"}]
    /\ crashed \in BOOLEAN

\* Every request is answered at most once: no handler path, error path or
\* scan completion writes a second response to a message id.
OneResponsePerRequest ==
    \A i, j \in DOMAIN out : i # j => out[i].mid # out[j].mid

\* The scan registry mirrors the storage: a scan id is registered exactly
\* while the storage runs a scan under it, and the entry names a SCAN
\* request with that id that is still unanswered; so onWrite(DONE) always
\* finds the entry and answers the right message.
ScanRegistryTracksScans ==
    \A s \in ScanIds :
        /\ (mScans[s] # NoMsg) <=> (s \in running)
        /\ mScans[s] # NoMsg =>
              /\ \E r \in sent : r.mid = mScans[s] /\ r.type = "SCAN" /\ r.scan = s
              /\ ~Answered(mScans[s])

\* Every request the client sends is eventually answered, by its response
\* or an error response, including scans the storage runs to completion.
EveryRequestAnswered ==
    \A mid \in MsgIds : (mid < NextMid) ~> Answered(mid)

\* A scan naming a table that does not exist is answered with an error
\* (invalid_table is an API misuse error) instead of crashing the server.
NoNullTableDereference == ~crashed

====
