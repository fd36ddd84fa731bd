--------------------------- MODULE VersionedStore ---------------------------
(***************************************************************************)
(* What the delta-main store promises its readers, stated without pages,   *)
(* deltas or compaction: for every key and every snapshot version s at or *)
(* above the lowest active version, get(key, s) returns the newest         *)
(* version <= s of the key, or not-found if there is none or it is a       *)
(* delete.  The only way the answer changes is a commit of a new, higher   *)
(* version of the key.                                                     *)
(***************************************************************************)
EXTENDS Naturals

CONSTANTS
    Keys,       \* the keys of the table
    Versions,   \* the versions a transaction may commit
    Snapshots,  \* the snapshot versions a reader may hold (>= lowest active)
    NotFound,   \* the result of a get that finds nothing
    InitStore,  \* the answers before the first step
    InitLatest  \* the newest committed version of every key at the start

VARIABLES
    store,      \* store[k][s]: result of get(k) under snapshot s
    latest      \* latest[k]: the newest committed version of k

\* A data version v is returned as <<version, version of the payload>>.
Result(v, del) == IF del THEN NotFound ELSE <<v, v>>

Init ==
    /\ store = InitStore
    /\ latest = InitLatest

\* A transaction with version v commits an update (del = FALSE) or a
\* delete of k: every snapshot that includes v now sees it.
Commit(k, v, del) ==
    /\ v > latest[k]
    /\ latest' = [latest EXCEPT ![k] = v]
    /\ store' = [store EXCEPT ![k] =
                    [s \in Snapshots |-> IF s >= v THEN Result(v, del) ELSE @[s]]]

Next == \E k \in Keys, v \in Versions, del \in BOOLEAN : Commit(k, v, del)

Spec == Init /\ [][Next]_<<store, latest>>

=============================================================================
