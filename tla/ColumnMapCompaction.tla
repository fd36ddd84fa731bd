------------------------- MODULE ColumnMapCompaction -------------------------
(***************************************************************************)
(* Garbage collection of one column-map main page                          *)
(* (ColumnMapPageModifier in src/deltamain/colstore/ColumnMapPage.cpp)     *)
(* racing with writers that append update-log entries to the records of   *)
(* that page.                                                              *)
(*                                                                         *)
(* The source page is a sequence of rows (key, version, delete?) sorted by *)
(* key, newest version first.  The first row of every key carries the      *)
(* record's atomic `newest` word: nullptr, a pointer to the newest entry   *)
(* of the update log (tag DELTA), the tag MAIN (the record was rewritten   *)
(* into a new page; `dst` says where) or INVALID (the record is gone).     *)
(*                                                                         *)
(* The compactor walks the page key by key.  Reading `newest` and the      *)
(* immutable rows and log entries behind it, it computes the rows that     *)
(* survive under mMinVersion: update entries go to the update page and    *)
(* the fill page's entries, surviving main rows are remembered as a       *)
(* pending copy span.  A record with no surviving row is invalidated by a *)
(* CAS; otherwise a pointer action is queued.  Flushing the fill page      *)
(* copies the payload columns span by span (the clean actions) and then   *)
(* runs the pointer actions: a CAS loop that swings the old `newest` to    *)
(* MAIN and carries any delta appended meanwhile over to the new record.  *)
(*                                                                         *)
(* Only the shared `newest` words are read or written by both sides; the  *)
(* log entries and the source rows are immutable once published, and the *)
(* fill page, update page and index modifier are private to the           *)
(* compactor until the pointer CAS publishes them.  So one step of the     *)
(* compactor is: one record from its load of `newest` to its decision, one *)
(* invalidation CAS, one fill-page build, or one pointer CAS.             *)
(*                                                                         *)
(* Data is abstracted to identity: the payload of a row is the version and *)
(* kind of the entry it was copied from, and each entry costs one unit of *)
(* the page's MAX_DATA_SIZE (MaxFill).                                     *)
(***************************************************************************)
EXTENDS Naturals, Sequences, SequencesExt, FiniteSets

CONSTANTS
    Keys,         \* keys of the table (naturals: rows are sorted by key)
    PageRows,     \* the source page: sequence of [key, version, del]
    InsertRows,   \* the insert log: sequence of [key, version] (other keys)
    MinVersion,   \* mMinVersion, the lowest active version
    MaxFill,      \* rows that fit a fill page (MAX_DATA_SIZE in entries)
    Writers,      \* writer threads (model values)
    FirstVersion, \* the first version the commit manager hands out
    MaxVersion,   \* bound: the last version handed out
    MaxPages,     \* bound: pages the compactor may emit
    DelChoices,   \* {FALSE} or BOOLEAN: whether writers may remove
    NotFound      \* result of a get that finds nothing

ASSUME MaxFill \in Nat \ {0}
ASSUME MinVersion <= MaxVersion
ASSUME \A j \in DOMAIN InsertRows : \A r \in DOMAIN PageRows : InsertRows[j].key # PageRows[r].key

VARIABLES
    newest,      \* newest[k]: the atomic `newest` of k's source record
    dst,         \* dst[k]: [page, row] of k's record in the emitted pages
    dstNewest,   \* dstNewest[k]: the `newest` of k's new record
    log,         \* the update log: sequence of [key, version, del, prev]
    hist,        \* history: every committed [key, version, del]
    nextVersion, \* the commit manager's version counter
    wpc, wkey, wver, wdel, whead, wloc,  \* writer threads
    cpc,         \* compactor program counter
    i,           \* clean(): the row being processed (0-based, baseIdx);
                 \* Count + j - 1 while the j-th insert record is appended
    resume,      \* where the compactor continues after a flush/CAS
    expected,    \* the `newest` loaded at START (for the INVALID CAS)
    mainStart, mainEnd,  \* pending copy span of the source page
    updStart, updEnd,    \* mUpdateStartIdx, mUpdateEndIdx (= mUpdateIdx)
    upd,         \* update page rows 0 .. updEnd-1: payloads
    fill,        \* fill page entries 0 .. fillEnd-1: [key, version]
    cleanActs,   \* mCleanActions: sequence of [src, start, end]
    ptrActs,     \* mPointerActions: sequence of [key, expected, row]
    pages,       \* emitted pages: sequences of [key, version, pver, pdel]
    pageList,    \* mPageList: "src" or the number of an emitted page
    index        \* the hash-table modifier: "src", "new" or "removed"

writerVars == <<wpc, wkey, wver, wdel, whead, wloc>>
compVars == <<cpc, i, resume, expected, mainStart, mainEnd, updStart, updEnd,
              upd, fill, cleanActs, ptrActs, pages, pageList, index>>
vars == <<newest, dst, dstNewest, log, hist, nextVersion, writerVars, compVars>>

-----------------------------------------------------------------------------
(* Words, rows and the update chain                                        *)

Delta(p) == [tag |-> "DELTA", ptr |-> p]   \* untagged pointer; Delta(0) = nullptr
Main == [tag |-> "MAIN", ptr |-> 0]
Invalid == [tag |-> "INVALID", ptr |-> 0]

Count == Len(PageRows)                     \* page->count
Row(r) == PageRows[r + 1]                  \* entries[r], sizes[r] (0-based)
Payload(e) == [version |-> e.version, del |-> e.del]
NoVersion == MaxVersion + 1                \* lowestVersion of an empty walk
NumInserts == Len(InsertRows)
InsertKeys == {InsertRows[j].key : j \in DOMAIN InsertRows}
InsertOf(k) == CHOOSE ins \in ToSet(InsertRows) : ins.key = k

\* The update chain from log entry p, newest first, following `previous`.
RECURSIVE Chain(_)
Chain(p) == IF p = 0 THEN <<>> ELSE <<log[p]>> \o Chain(log[p].prev)

\* UpdateRecordIterator(newest, baseVersion): the updates newer than the
\* record's newest main version.
UpdateIter(p, baseVersion) == SelectSeq(Chain(p), LAMBDA e : e.version > baseVersion)

\* First row after the run of key k that contains row j.
RECURSIVE RunEnd(_, _)
RunEnd(j, k) == IF j < Count /\ Row(j).key = k THEN RunEnd(j + 1, k) ELSE j

\* Rows of the record of k as a reader sees them, newest first.
SrcRecordRows(k) ==
    IF k \in InsertKeys
    THEN LET v == InsertOf(k).version
         IN  <<[key |-> k, version |-> v, pver |-> v, pdel |-> FALSE]>>
    ELSE
    LET first == CHOOSE r \in 0 .. Count - 1 : Row(r).key = k /\ (r = 0 \/ Row(r - 1).key # k)
    IN  [j \in 1 .. RunEnd(first, k) - first |->
            LET e == Row(first + j - 1) IN
            [key |-> k, version |-> e.version, pver |-> e.version, pdel |-> e.del]]

DstRecordRows(k) ==
    LET pg == pages[dst[k].page]
        RECURSIVE Run(_)
        Run(j) == IF j <= Len(pg) /\ pg[j].key = k THEN Run(j + 1) ELSE j
    IN  SubSeq(pg, dst[k].row + 1, Run(dst[k].row + 1) - 1)

\* The record a reader reaches from k's source entry: after MAIN, the new one.
RecordRows(k) == IF newest[k].tag = "MAIN" THEN DstRecordRows(k) ELSE SrcRecordRows(k)
RecordHead(k) == IF newest[k].tag = "MAIN" THEN dstNewest[k] ELSE newest[k]

\* The versions a reader walks for k, newest first: the updates newer than
\* the record's newest main row, then its main rows.
RecordVersions(k) ==
    LET rows == RecordRows(k)
        ups  == UpdateIter(RecordHead(k).ptr, rows[1].version)
        asRow(e) == [key |-> k, version |-> e.version, pver |-> e.version, pdel |-> e.del]
    IN  [j \in 1 .. Len(ups) |-> asRow(ups[j])] \o rows

\* The answer a reader with snapshot s finds in rows (newest first):
\* NotFound if no version <= s or the newest such is a delete, else
\* <<version of the entry, version of the payload bytes returned>>.
ReadRows(rows, s) ==
    LET vis == SelectSeq(rows, LAMBDA e : e.version <= s)
    IN  IF vis = <<>> \/ vis[1].pdel THEN NotFound
        ELSE <<vis[1].version, vis[1].pver>>

\* get(k) under snapshot s: NotFound for an invalid record.
View(k, s) == IF newest[k].tag = "INVALID" THEN NotFound ELSE ReadRows(RecordVersions(k), s)

\* The version of the newest entry of k's record (any kind).
LatestVersion(k) == RecordVersions(k)[1].version

\* The same question answered from the history of commits.
AbsRead(k, s) ==
    LET vis == {h \in hist : h.key = k /\ h.version <= s}
    IN  IF vis = {} THEN NotFound
        ELSE LET h == CHOOSE x \in vis : \A y \in vis : y.version <= x.version
             IN  IF h.del THEN NotFound ELSE <<h.version, h.version>>

-----------------------------------------------------------------------------
(* The record-local computations of clean(): pure functions of the loaded  *)
(* `newest`, the immutable rows and log, and the fill level.               *)

\* Variant of ProcessUpdates whose overflow check lets one entry too many in.
RECURSIVE ProcessUpdatesOffByOne(_, _, _, _, _)
ProcessUpdatesOffByOne(ups, j, out, wasDelete, room) ==
    IF j > Len(ups)
    THEN [ovf |-> FALSE, out |-> out, wasDelete |-> wasDelete,
          lowest |-> IF ups = <<>> THEN NoVersion ELSE ups[Len(ups)].version]
    ELSE LET e == ups[j]
             stop(o, wd) == [ovf |-> FALSE, out |-> o, wasDelete |-> wd, lowest |-> e.version]
         IN  IF wasDelete /\ e.version < MinVersion THEN stop(Front(out), FALSE)
             ELSE IF e.del /\ e.version <= MinVersion THEN stop(out, wasDelete)
             ELSE IF Len(out) > room
                 THEN [ovf |-> TRUE, out |-> out, wasDelete |-> e.del, lowest |-> e.version]
             ELSE IF e.version <= MinVersion THEN stop(Append(out, Payload(e)), e.del)
             ELSE ProcessUpdatesOffByOne(ups, j + 1, Append(out, Payload(e)), e.del, room)

\* processUpdates(): walk the updates newest first and return the entries
\* written into the update page (out), whether the last one is a delete,
\* the iterator's lowestVersion, and ovf = the fill page overflowed.
\* room: entries still free in the fill page.
RECURSIVE ProcessUpdates(_, _, _, _, _)
ProcessUpdates(ups, j, out, wasDelete, room) ==
    IF j > Len(ups)
    THEN [ovf |-> FALSE, out |-> out, wasDelete |-> wasDelete,
          lowest |-> IF ups = <<>> THEN NoVersion ELSE ups[Len(ups)].version]
    ELSE LET e == ups[j]
             stop(o, wd) == [ovf |-> FALSE, out |-> o, wasDelete |-> wd, lowest |-> e.version]
         IN  IF wasDelete /\ e.version < MinVersion
                 THEN stop(Front(out), FALSE)       \* drop the delete and this entry
             ELSE IF e.del /\ e.version <= MinVersion
                 THEN stop(out, wasDelete)          \* deletes nothing readable
             ELSE IF Len(out) + 1 > room
                 THEN [ovf |-> TRUE, out |-> out, wasDelete |-> e.del, lowest |-> e.version]
             ELSE IF e.version <= MinVersion
                 THEN stop(Append(out, Payload(e)), e.del)   \* oldest readable
             ELSE ProcessUpdates(ups, j + 1, Append(out, Payload(e)), e.del, room)

\* Variant of CopyMain whose floor check at line 203 is strict
\* (version < mMinVersion): a row exactly at the low-water does not stop
\* the copy.
RECURSIVE CopyMainFloorStrict(_, _, _, _, _, _)
CopyMainFloorStrict(k, c, n, out, wasDelete, room) ==
    IF c >= Count \/ Row(c).key # k
    THEN [ovf |-> FALSE, out |-> out, n |-> n, wasDelete |-> wasDelete]
    ELSE LET r == Row(c)
             stop(o, m, wd) == [ovf |-> FALSE, out |-> o, n |-> m, wasDelete |-> wd]
         IN  IF wasDelete /\ r.version < MinVersion
                 THEN IF n = 0 THEN stop(Front(out), 0, FALSE) ELSE stop(out, n - 1, FALSE)
             ELSE IF r.del /\ r.version <= MinVersion THEN stop(out, n, wasDelete)
             ELSE IF Len(out) + n + 1 > room
                 THEN [ovf |-> TRUE, out |-> out, n |-> n, wasDelete |-> wasDelete]
             ELSE IF r.version < MinVersion THEN stop(out, n + 1, r.del)
             ELSE CopyMainFloorStrict(k, c + 1, n + 1, out, r.del, room)

\* Variant of CopyMain whose delete cancellation drops the data row but
\* keeps the delete written before it.
RECURSIVE CopyMainKeepDelete(_, _, _, _, _, _)
CopyMainKeepDelete(k, c, n, out, wasDelete, room) ==
    IF c >= Count \/ Row(c).key # k
    THEN [ovf |-> FALSE, out |-> out, n |-> n, wasDelete |-> wasDelete]
    ELSE LET r == Row(c)
             stop(o, m, wd) == [ovf |-> FALSE, out |-> o, n |-> m, wasDelete |-> wd]
         IN  IF wasDelete /\ r.version < MinVersion THEN stop(out, n, FALSE)
             ELSE IF r.del /\ r.version <= MinVersion THEN stop(out, n, wasDelete)
             ELSE IF Len(out) + n + 1 > room
                 THEN [ovf |-> TRUE, out |-> out, n |-> n, wasDelete |-> wasDelete]
             ELSE IF r.version <= MinVersion THEN stop(out, n + 1, r.del)
             ELSE CopyMainKeepDelete(k, c + 1, n + 1, out, r.del, room)

\* The main-copy loop of clean(): copy rows c, c+1, ... of key k.  n rows
\* copied so far; out = the update entries written before them.
RECURSIVE CopyMain(_, _, _, _, _, _)
CopyMain(k, c, n, out, wasDelete, room) ==
    IF c >= Count \/ Row(c).key # k
    THEN [ovf |-> FALSE, out |-> out, n |-> n, wasDelete |-> wasDelete]
    ELSE LET r == Row(c)
             stop(o, m, wd) == [ovf |-> FALSE, out |-> o, n |-> m, wasDelete |-> wd]
         IN  IF wasDelete /\ r.version < MinVersion
                 THEN IF n = 0 THEN stop(Front(out), 0, FALSE)   \* delete was an update
                               ELSE stop(out, n - 1, FALSE)      \* delete was a main row
             ELSE IF r.del /\ r.version <= MinVersion
                 THEN stop(out, n, wasDelete)
             ELSE IF Len(out) + n + 1 > room
                 THEN [ovf |-> TRUE, out |-> out, n |-> n, wasDelete |-> wasDelete]
             ELSE IF r.version <= MinVersion
                 THEN stop(out, n + 1, r.del)
             ELSE CopyMain(k, c + 1, n + 1, out, r.del, room)

\* Skip main rows of k shadowed by the updates (version >= lowestVersion).
RECURSIVE SkipShadowed(_, _, _)
SkipShadowed(k, c, lowest) ==
    IF c < Count /\ Row(c).key = k /\ Row(c).version >= lowest
    THEN SkipShadowed(k, c + 1, lowest) ELSE c

\* needsCleaning(page)
RECURSIVE NeedsCleaningFrom(_)
NeedsCleaningFrom(j) ==
    IF j >= Count THEN FALSE
    ELSE IF newest[Row(j).key] # Delta(0) THEN TRUE
    ELSE IF j + 1 = Count \/ Row(j).key # Row(j + 1).key THEN FALSE
    ELSE LET nxt == RunEnd(j + 1, Row(j).key)
         IN  IF \E r \in j + 1 .. nxt - 1 : Row(r).version < MinVersion THEN TRUE
             ELSE NeedsCleaningFrom(nxt)

needsCleaning == NeedsCleaningFrom(0)

-----------------------------------------------------------------------------
(* Initial state: the page as a previous compaction left it, no deltas.    *)

Init ==
    /\ newest = [k \in Keys |-> Delta(0)]
    /\ dst = [k \in Keys |-> [page |-> 0, row |-> 0]]
    /\ dstNewest = [k \in Keys |-> Delta(0)]
    /\ log = <<>>
    /\ hist = {[key |-> Row(r).key, version |-> Row(r).version, del |-> Row(r).del] :
                 r \in 0 .. Count - 1}
              \cup {[key |-> ins.key, version |-> ins.version, del |-> FALSE] :
                     ins \in ToSet(InsertRows)}
    /\ nextVersion = FirstVersion
    /\ wpc = [w \in Writers |-> "idle"]
    /\ wkey = [w \in Writers |-> CHOOSE k \in Keys : TRUE]
    /\ wver = [w \in Writers |-> 0]
    /\ wdel = [w \in Writers |-> FALSE]
    /\ whead = [w \in Writers |-> Delta(0)]
    /\ wloc = [w \in Writers |-> "src"]
    /\ cpc = "idle"
    /\ i = 0
    /\ resume = "record"
    /\ expected = Delta(0)
    /\ mainStart = 0 /\ mainEnd = 0
    /\ updStart = 0 /\ updEnd = 0
    /\ upd = <<>>
    /\ fill = <<>>
    /\ cleanActs = <<>>
    /\ ptrActs = <<>>
    /\ pages = <<>>
    /\ pageList = <<>>
    /\ index = [k \in Keys |-> "src"]

-----------------------------------------------------------------------------
(* Writers: a transaction with a fresh version updates or removes key k by *)
(* appending a log entry whose `previous` is the head it loaded and CASing *)
(* the record's `newest` from that head to the entry.  A record re-tagged  *)
(* MAIN is written through its new record; an INVALID one is gone.  On a   *)
(* failed CAS the writer reloads and retries, unless a newer version has   *)
(* been written meanwhile (write-write conflict) or the record vanished.   *)

WriteAllowed(k, v, del) ==
    /\ newest[k].tag # "INVALID"
    /\ LatestVersion(k) < v
    /\ del => View(k, MaxVersion) # NotFound     \* remove needs a tuple

LoadHead(w, k) ==
    /\ whead' = [whead EXCEPT ![w] = RecordHead(k)]
    /\ wloc' = [wloc EXCEPT ![w] = IF newest[k].tag = "MAIN" THEN "dst" ELSE "src"]

WriterStart(w, k, del) ==
    /\ wpc[w] = "idle"
    /\ nextVersion <= MaxVersion
    /\ cpc # "idle" => nextVersion >= MinVersion  \* no version below the low-water
    /\ WriteAllowed(k, nextVersion, del)
    /\ LoadHead(w, k)
    /\ wpc' = [wpc EXCEPT ![w] = "cas"]
    /\ wkey' = [wkey EXCEPT ![w] = k]
    /\ wver' = [wver EXCEPT ![w] = nextVersion]
    /\ wdel' = [wdel EXCEPT ![w] = del]
    /\ nextVersion' = nextVersion + 1
    /\ UNCHANGED <<newest, dst, dstNewest, log, hist, compVars>>

WriterCas(w) ==
    /\ wpc[w] = "cas"
    /\ LET k   == wkey[w]
           cur == IF wloc[w] = "src" THEN newest[k] ELSE dstNewest[k]
           e   == [key |-> k, version |-> wver[w], del |-> wdel[w], prev |-> whead[w].ptr]
       IN  IF cur = whead[w]
           THEN /\ log' = Append(log, e)
                /\ IF wloc[w] = "src"
                     THEN /\ newest' = [newest EXCEPT ![k] = Delta(Len(log) + 1)]
                          /\ UNCHANGED dstNewest
                     ELSE /\ dstNewest' = [dstNewest EXCEPT ![k] = Delta(Len(log) + 1)]
                          /\ UNCHANGED newest
                /\ hist' = hist \cup {[key |-> k, version |-> wver[w], del |-> wdel[w]]}
                /\ wpc' = [wpc EXCEPT ![w] = "idle"]
           ELSE /\ wpc' = [wpc EXCEPT ![w] = "reload"]
                /\ UNCHANGED <<log, newest, dstNewest, hist>>
    /\ UNCHANGED <<dst, nextVersion, wkey, wver, wdel, whead, wloc, compVars>>

WriterReload(w) ==
    /\ wpc[w] = "reload"
    /\ IF WriteAllowed(wkey[w], wver[w], wdel[w])
         THEN /\ LoadHead(w, wkey[w])
              /\ wpc' = [wpc EXCEPT ![w] = "cas"]
         ELSE /\ wpc' = [wpc EXCEPT ![w] = "idle"]     \* conflict: abort
              /\ UNCHANGED <<whead, wloc>>
    /\ UNCHANGED <<newest, dst, dstNewest, log, hist, nextVersion, wkey, wver, wdel, compVars>>

Writer(w) ==
    \/ \E k \in Keys, del \in DelChoices : WriterStart(w, k, del)
    \/ WriterCas(w)
    \/ WriterReload(w)

-----------------------------------------------------------------------------
(* The compactor                                                           *)

MainSpan(s, e) == [src |-> "main", start |-> s, end |-> e]
UpdSpan(s, e) == [src |-> "upd", start |-> s, end |-> e]

\* After the main page, the table's GC appends the records of the insert
\* log, then calls done().
AfterPage == IF NumInserts > 0 THEN "append_load" ELSE "done_call"

\* Table GC over the page: clean(page) if needsCleaning, else keep it.
\* The low-water mark is mMinVersion: every version below it is issued
\* and no transaction that could write below it is running.
StartGC ==
    /\ cpc = "idle"
    /\ nextVersion >= MinVersion
    /\ \A w \in Writers : wpc[w] # "idle" => wver[w] >= MinVersion
    /\ IF needsCleaning
         THEN /\ cpc' = "record"
              /\ UNCHANGED pageList
         ELSE /\ pageList' = <<"src">>
              /\ cpc' = AfterPage
    /\ i' = IF needsCleaning THEN i ELSE Count
    /\ UNCHANGED <<newest, dst, dstNewest, log, hist, nextVersion, writerVars,
                   resume, expected, mainStart, mainEnd, updStart, updEnd,
                   upd, fill, cleanActs, ptrActs, pages, index>>

\* Leave clean() through flush(): append the pending main span, flush the
\* fill page and restart the record from START.
OverflowRecord(acts, ms, me) ==
    /\ cleanActs' = IF ms # me THEN Append(acts, MainSpan(ms, me)) ELSE acts
    /\ mainStart' = 0 /\ mainEnd' = 0
    /\ cpc' = "flush" /\ resume' = "record"
    /\ UNCHANGED <<newest, dst, dstNewest, i, expected, updStart, updEnd, upd, fill,
                   ptrActs, pages, pageList, index>>

\* Nothing of the record survives: CAS its `newest` to INVALID next.
InvalidateRecord(n, acts, ms, me) ==
    /\ cleanActs' = acts
    /\ mainStart' = ms /\ mainEnd' = me
    /\ cpc' = "invalidate" /\ expected' = n
    /\ UNCHANGED <<newest, dst, dstNewest, i, resume, updStart, updEnd, upd, fill,
                   ptrActs, pages, pageList, index>>

\* The record survives with the update entries out followed by the main
\* rows c0 .. c0+ncopy-1: write its fill entries, queue the pointer action,
\* point the index at the new entry and extend or enqueue the copy spans.
\* skipMain: the updates reached below the low-water (line 113 branch).
CommitRecord(k, n, out, c0, ncopy, skipMain, acts, ms, me) ==
    LET newUpd == updEnd + Len(out)
        extend == ~skipMain /\ me = c0 /\ newUpd = updStart
        acts1  == IF ms # me THEN Append(acts, MainSpan(ms, me)) ELSE acts
        acts2  == IF updStart # newUpd THEN Append(acts1, UpdSpan(updStart, newUpd)) ELSE acts1
    IN
    /\ fill' = fill \o [j \in 1 .. Len(out) + ncopy |->
                          [key |-> k, version |-> IF j <= Len(out) THEN out[j].version
                                                  ELSE Row(c0 + j - Len(out) - 1).version]]
    /\ upd' = upd \o out
    /\ ptrActs' = Append(ptrActs, [key |-> k, expected |-> n, row |-> Len(fill)])
    /\ index' = [index EXCEPT ![k] = "new"]
    /\ dstNewest' = [dstNewest EXCEPT ![k] = Delta(0)]
    /\ i' = RunEnd(i, k)
    /\ updEnd' = newUpd
    /\ CASE skipMain ->
              /\ cleanActs' = acts /\ mainStart' = ms /\ mainEnd' = me
              /\ UNCHANGED updStart
         [] extend ->
              /\ cleanActs' = acts /\ mainStart' = ms /\ mainEnd' = c0 + ncopy
              /\ UNCHANGED updStart
         [] ncopy # 0 ->
              /\ cleanActs' = acts2 /\ mainStart' = c0 /\ mainEnd' = c0 + ncopy
              /\ updStart' = newUpd
         [] OTHER ->
              /\ cleanActs' = acts1 /\ mainStart' = 0 /\ mainEnd' = 0
              /\ UNCHANGED updStart
    /\ UNCHANGED <<newest, dst, cpc, resume, expected, pages, pageList>>

\* One iteration of clean()'s loop: START at row i, load `newest`, process
\* the updates and the main rows of the key, decide its fate.
CleanRecord ==
    /\ cpc = "record" /\ i < Count
    /\ LET k      == Row(i).key
           n      == newest[k]
           room   == MaxFill - Len(fill)
           hasUpd == n # Delta(0)
           acts   == IF hasUpd /\ mainStart # mainEnd
                       THEN Append(cleanActs, MainSpan(mainStart, mainEnd)) ELSE cleanActs
           ms     == IF hasUpd THEN 0 ELSE mainStart
           me     == IF hasUpd THEN 0 ELSE mainEnd
           pu     == ProcessUpdates(UpdateIter(n.ptr, Row(i).version), 1, <<>>, FALSE, room)
           skipMain == hasUpd /\ ~pu.ovf /\ pu.lowest <= MinVersion
           c0     == IF hasUpd THEN SkipShadowed(k, i, pu.lowest) ELSE i
           cm     == CopyMain(k, c0, 0, IF hasUpd THEN pu.out ELSE <<>>,
                              hasUpd /\ pu.wasDelete, room)
           out    == IF skipMain THEN pu.out ELSE cm.out
           ncopy  == IF skipMain THEN 0 ELSE cm.n
       IN  IF (hasUpd /\ pu.ovf) \/ (~skipMain /\ cm.ovf)
             THEN OverflowRecord(acts, ms, me)
           ELSE IF Len(out) + ncopy = 0
             THEN InvalidateRecord(n, acts, ms, me)
           ELSE CommitRecord(k, n, out, c0, ncopy, skipMain, acts, ms, me)
    /\ UNCHANGED <<log, hist, nextVersion, writerVars>>

\* Variant of Invalidate with a plain store instead of the CAS.
InvalidateNoCas ==
    /\ cpc = "invalidate"
    /\ LET k == Row(i).key IN
       /\ newest' = [newest EXCEPT ![k] = Invalid]
       /\ index' = [index EXCEPT ![k] = "removed"]
       /\ i' = RunEnd(i, k)
    /\ cpc' = "record"
    /\ UNCHANGED <<dst, dstNewest, log, hist, nextVersion, writerVars, resume, expected,
                   mainStart, mainEnd, updStart, updEnd, upd, fill, cleanActs, ptrActs,
                   pages, pageList>>

\* entries[baseIdx].newest.compare_exchange_strong(newest, INVALID): on
\* success remove the key from the index and go to the next key, else
\* restart the record.
Invalidate ==
    /\ cpc = "invalidate"
    /\ LET k == Row(i).key IN
       IF newest[k] = expected
         THEN /\ newest' = [newest EXCEPT ![k] = Invalid]
              /\ index' = [index EXCEPT ![k] = "removed"]
              /\ i' = RunEnd(i, k)
         ELSE UNCHANGED <<newest, index, i>>
    /\ cpc' = "record"
    /\ UNCHANGED <<dst, dstNewest, log, hist, nextVersion, writerVars, resume, expected,
                   mainStart, mainEnd, updStart, updEnd, upd, fill, cleanActs, ptrActs,
                   pages, pageList>>

\* End of clean(): append the last pending main span.
EndClean ==
    /\ cpc = "record" /\ i >= Count
    /\ cleanActs' = IF mainStart # mainEnd
                      THEN Append(cleanActs, MainSpan(mainStart, mainEnd)) ELSE cleanActs
    /\ cpc' = AfterPage
    /\ UNCHANGED <<newest, dst, dstNewest, log, hist, nextVersion, writerVars, i, resume,
                   expected, mainStart, mainEnd, updStart, updEnd, upd, fill, ptrActs,
                   pages, pageList, index>>

-----------------------------------------------------------------------------
(* append(oldRecord): compaction of the records of the insert log          *)

\* The insert record of the append in progress.
CurInsert == InsertRows[i - Count + 1]

\* The caller builds the InsertRecord of the next insert-log entry, which
\* loads its `newest` once; append() works on that loaded value.
LoadInsert ==
    /\ cpc = "append_load"
    /\ expected' = newest[CurInsert.key]
    /\ cpc' = "append"
    /\ UNCHANGED <<newest, dst, dstNewest, log, hist, nextVersion, writerVars, i, resume,
                   mainStart, mainEnd, updStart, updEnd, upd, fill, cleanActs, ptrActs,
                   pages, pageList, index>>

\* Go on with the next insert record, or to done() after the last one.
NextInsert ==
    /\ i' = i + 1
    /\ cpc' = IF i + 1 < Count + NumInserts THEN "append_load" ELSE "done_call"

\* writeInsert(oldRecord.value()): the insert's payload, written like an
\* update into the fill entries and the update page.
WriteInsertRow(ins) == [version |-> ins.version, del |-> FALSE]

\* flush(); continue: the record restarts on a new fill page with the same
\* loaded `newest`.
AppendOverflow ==
    /\ cpc' = "flush" /\ resume' = "append"
    /\ UNCHANGED <<newest, dst, dstNewest, i, expected, mainStart, mainEnd, updStart,
                   updEnd, upd, fill, cleanActs, ptrActs, pages, pageList, index>>

\* The rows of the record are written: queue its pointer action, insert
\* the key into the main table at the new entry and advance the end indices.
AppendCommit(k, n, rows) ==
    /\ fill' = fill \o [j \in 1 .. Len(rows) |-> [key |-> k, version |-> rows[j].version]]
    /\ upd' = upd \o rows
    /\ updEnd' = updEnd + Len(rows)
    /\ ptrActs' = Append(ptrActs, [key |-> k, expected |-> n, row |-> Len(fill)])
    /\ index' = [index EXCEPT ![k] = "new"]
    /\ dstNewest' = [dstNewest EXCEPT ![k] = Delta(0)]
    /\ NextInsert
    /\ UNCHANGED <<newest, dst, resume, expected, mainStart, mainEnd, updStart, cleanActs,
                   pages, pageList>>

\* Variant of AppendRecord that writes the insert whenever the delete
\* branch does not apply, without comparing lowestVersion with the floor.
AppendRecordNoFloor ==
    /\ cpc = "append"
    /\ LET ins     == CurInsert
           n       == expected
           room    == MaxFill - Len(fill)
           hasUpd  == n # Delta(0)
           pu      == ProcessUpdates(UpdateIter(n.ptr, ins.version), 1, <<>>, FALSE, room)
           dropDel == hasUpd /\ pu.wasDelete /\ ins.version < MinVersion
           writeIns == ~dropDel
           out     == IF ~hasUpd THEN <<>> ELSE IF dropDel THEN Front(pu.out) ELSE pu.out
           rows    == out \o (IF writeIns THEN <<WriteInsertRow(ins)>> ELSE <<>>)
       IN  IF (hasUpd /\ pu.ovf) \/ (writeIns /\ Len(out) + 1 > room) THEN AppendOverflow
           ELSE IF rows = <<>> THEN cpc' = "append_inval" /\ UNCHANGED <<newest, dst,
                    dstNewest, i, resume, expected, mainStart, mainEnd, updStart, updEnd,
                    upd, fill, cleanActs, ptrActs, pages, pageList, index>>
           ELSE AppendCommit(ins.key, n, rows)
    /\ UNCHANGED <<log, hist, nextVersion, writerVars>>

\* One pass of append()'s loop on the loaded `newest` n.  With updates:
\* processUpdates() (flush and restart on overflow); a trailing delete of
\* an insert below mMinVersion is dropped together with the insert;
\* otherwise the insert is written if the updates did not reach the floor
\* (lowestVersion > max(mMinVersion, baseVersion)), flushing first if it
\* does not fit.  Without updates only the insert is written.  If nothing
\* was written the record is invalidated next.
AppendRecord ==
    /\ cpc = "append"
    /\ LET ins     == CurInsert
           n       == expected
           room    == MaxFill - Len(fill)
           hasUpd  == n # Delta(0)
           pu      == ProcessUpdates(UpdateIter(n.ptr, ins.version), 1, <<>>, FALSE, room)
           dropDel == hasUpd /\ pu.wasDelete /\ ins.version < MinVersion
           writeIns == ~hasUpd \/ (~dropDel /\ pu.lowest > Max({MinVersion, ins.version}))
           out     == IF ~hasUpd THEN <<>> ELSE IF dropDel THEN Front(pu.out) ELSE pu.out
           rows    == out \o (IF writeIns THEN <<WriteInsertRow(ins)>> ELSE <<>>)
       IN  IF (hasUpd /\ pu.ovf) \/ (writeIns /\ Len(out) + 1 > room) THEN AppendOverflow
           ELSE IF rows = <<>> THEN cpc' = "append_inval" /\ UNCHANGED <<newest, dst,
                    dstNewest, i, resume, expected, mainStart, mainEnd, updStart, updEnd,
                    upd, fill, cleanActs, ptrActs, pages, pageList, index>>
           ELSE AppendCommit(ins.key, n, rows)
    /\ UNCHANGED <<log, hist, nextVersion, writerVars>>

\* Variant of AppendInvalidate with a plain store instead of the CAS.
AppendInvalidateNoCas ==
    /\ cpc = "append_inval"
    /\ newest' = [newest EXCEPT ![CurInsert.key] = Invalid]
    /\ NextInsert
    /\ UNCHANGED <<dst, dstNewest, log, hist, nextVersion, writerVars, resume, expected,
                   mainStart, mainEnd, updStart, updEnd, upd, fill, cleanActs, ptrActs,
                   pages, pageList, index>>

\* Variant of AppendInvalidate that restarts the record after a failed CAS
\* without reloading the insert's `newest`.
AppendInvalidateNoReload ==
    /\ cpc = "append_inval"
    /\ LET k == CurInsert.key IN
       IF newest[k] = expected
         THEN /\ newest' = [newest EXCEPT ![k] = Invalid]
              /\ NextInsert
         ELSE /\ cpc' = "append"
              /\ UNCHANGED <<newest, i>>
    /\ UNCHANGED <<dst, dstNewest, log, hist, nextVersion, writerVars, resume, expected,
                   mainStart, mainEnd, updStart, updEnd, upd, fill, cleanActs, ptrActs,
                   pages, pageList, index>>

\* oldRecord.tryInvalidate(): CAS the insert's `newest` from the loaded
\* value to INVALID and go on; on failure the loaded value is refreshed
\* and the loop restarts.
AppendInvalidate ==
    /\ cpc = "append_inval"
    /\ LET k == CurInsert.key IN
       IF newest[k] = expected
         THEN /\ newest' = [newest EXCEPT ![k] = Invalid]
              /\ NextInsert
              /\ UNCHANGED expected
         ELSE /\ expected' = newest[k]
              /\ cpc' = "append"
              /\ UNCHANGED <<newest, i>>
    /\ UNCHANGED <<dst, dstNewest, log, hist, nextVersion, writerVars, resume, mainStart,
                   mainEnd, updStart, updEnd, upd, fill, cleanActs, ptrActs, pages,
                   pageList, index>>

\* done(): flush a non-empty fill page, else free it.
Done ==
    /\ cpc = "done_call"
    /\ IF fill # <<>>
         THEN cpc' = "flush" /\ resume' = "finished"
         ELSE cpc' = "finished" /\ UNCHANGED resume
    /\ UNCHANGED <<newest, dst, dstNewest, log, hist, nextVersion, writerVars, i, expected,
                   mainStart, mainEnd, updStart, updEnd, upd, fill, cleanActs, ptrActs,
                   pages, pageList, index>>

\* Variant of SpanPayloads that copies main rows one position too far.
SpanPayloadsOffByOne(a) ==
    IF a.src = "main"
    THEN [j \in 1 .. a.end - a.start |->
            IF a.start + j < Count THEN Payload(Row(a.start + j)) ELSE Payload(Row(a.start))]
    ELSE SubSeq(upd, a.start + 1, a.end)

\* Payloads a clean action copies: rows of the source page or of the
\* update page.
SpanPayloads(a) ==
    IF a.src = "main"
    THEN [j \in 1 .. a.end - a.start |-> Payload(Row(a.start + j - 1))]
    ELSE SubSeq(upd, a.start + 1, a.end)

\* flushFillPage() up to the pointer actions: enqueue the pending update
\* span, build the page (entries from the fill entries, sizes and columns
\* from the clean actions in order) and append it to mPageList; then, for
\* flush(), reset the update page and start a new fill page (both private
\* to the compactor, so their reset may precede the pointer CASes).
FlushBuild ==
    /\ cpc = "flush"
    /\ Len(pages) < MaxPages
    /\ LET acts == IF updStart # updEnd THEN Append(cleanActs, UpdSpan(updStart, updEnd))
                                        ELSE cleanActs
           data == FlattenSeq([j \in 1 .. Len(acts) |-> SpanPayloads(acts[j])])
           pg   == Len(pages) + 1
       IN  /\ pages' = Append(pages,
                  [r \in 1 .. Len(fill) |->
                     [key |-> fill[r].key, version |-> fill[r].version,
                      pver |-> IF r <= Len(data) THEN data[r].version ELSE NoVersion,
                      pdel |-> r <= Len(data) /\ data[r].del]])
           /\ dst' = [k \in Keys |->
                        IF \E a \in ToSet(ptrActs) : a.key = k
                        THEN [page |-> pg,
                              row |-> (CHOOSE a \in ToSet(ptrActs) : a.key = k).row]
                        ELSE dst[k]]
    /\ pageList' = Append(pageList, Len(pages) + 1)
    /\ cleanActs' = <<>>
    /\ IF resume = "finished"
         THEN /\ updStart' = updEnd
              /\ UNCHANGED <<updEnd, upd, fill>>
         ELSE /\ updStart' = 0 /\ updEnd' = 0 /\ upd' = <<>> /\ fill' = <<>>
    /\ cpc' = IF ptrActs = <<>> THEN resume ELSE "ptr"
    /\ UNCHANGED <<newest, dstNewest, log, hist, nextVersion, writerVars, i, resume,
                   expected, mainStart, mainEnd, ptrActs, index>>

\* Variants of PointerCas: without the store that carries the observed
\* deltas into the new record, and without retrying with the new value.
PointerCasNoCarry ==
    /\ cpc = "ptr"
    /\ LET a == Head(ptrActs)
           k == a.key
       IN  IF newest[k] = a.expected
           THEN /\ newest' = [newest EXCEPT ![k] = Main]
                /\ ptrActs' = Tail(ptrActs)
                /\ cpc' = IF Tail(ptrActs) = <<>> THEN resume ELSE "ptr"
           ELSE /\ ptrActs' = [ptrActs EXCEPT ![1].expected = newest[k]]
                /\ UNCHANGED <<newest, cpc>>
    /\ UNCHANGED <<dstNewest, dst, log, hist, nextVersion, writerVars, i, resume, expected,
                   mainStart, mainEnd, updStart, updEnd, upd, fill, cleanActs,
                   pages, pageList, index>>

PointerCasNoReload ==
    /\ cpc = "ptr"
    /\ LET a == Head(ptrActs)
           k == a.key
       IN  IF newest[k] = a.expected
           THEN /\ newest' = [newest EXCEPT ![k] = Main]
                /\ ptrActs' = Tail(ptrActs)
                /\ cpc' = IF Tail(ptrActs) = <<>> THEN resume ELSE "ptr"
                /\ UNCHANGED dstNewest
           ELSE /\ dstNewest' = [dstNewest EXCEPT ![k] = newest[k]]
                /\ UNCHANGED <<newest, cpc, ptrActs>>
    /\ UNCHANGED <<dst, log, hist, nextVersion, writerVars, i, resume, expected,
                   mainStart, mainEnd, updStart, updEnd, upd, fill, cleanActs,
                   pages, pageList, index>>

\* One iteration of the pointer-action loop: CAS the source `newest` from
\* expected to MAIN; on failure store the observed head into the new
\* record's `newest` (carrying the delta chain over) and retry with it.
PointerCas ==
    /\ cpc = "ptr"
    /\ LET a == Head(ptrActs)
           k == a.key
       IN  IF newest[k] = a.expected
           THEN /\ newest' = [newest EXCEPT ![k] = Main]
                /\ ptrActs' = Tail(ptrActs)
                /\ cpc' = IF Tail(ptrActs) = <<>> THEN resume ELSE "ptr"
                /\ UNCHANGED dstNewest
           ELSE /\ dstNewest' = [dstNewest EXCEPT ![k] = newest[k]]
                /\ ptrActs' = [ptrActs EXCEPT ![1].expected = newest[k]]
                /\ UNCHANGED <<newest, cpc>>
    /\ UNCHANGED <<dst, log, hist, nextVersion, writerVars, i, resume, expected,
                   mainStart, mainEnd, updStart, updEnd, upd, fill, cleanActs,
                   pages, pageList, index>>

Compactor ==
    \/ StartGC \/ CleanRecord \/ Invalidate \/ EndClean
    \/ LoadInsert \/ AppendRecord \/ AppendInvalidate \/ Done
    \/ FlushBuild \/ PointerCas

\* Everything finished: the compactor is done and no writer is mid-write.
Quiescent ==
    /\ cpc = "finished"
    /\ \A w \in Writers : wpc[w] = "idle"
    /\ UNCHANGED vars

Next ==
    \/ Compactor
    \/ \E w \in Writers : Writer(w)
    \/ Quiescent

\* The compactor thread runs until done once the table's GC has started.
Spec == Init /\ [][Next]_vars /\ WF_vars(Compactor)

-----------------------------------------------------------------------------
(* Properties                                                              *)

Snapshots == MinVersion .. MaxVersion   \* snapshots GC must preserve
Word == {Delta(p) : p \in 0 .. MaxVersion} \cup {Main, Invalid}

TypeOK ==
    /\ newest \in [Keys -> Word]
    /\ dstNewest \in [Keys -> Word]
    /\ nextVersion \in FirstVersion .. MaxVersion + 1
    /\ wpc \in [Writers -> {"idle", "cas", "reload"}]
    /\ cpc \in {"idle", "record", "invalidate", "append_load", "append", "append_inval",
               "done_call", "flush", "ptr", "finished"}
    /\ i \in 0 .. Count + NumInserts
    /\ Len(fill) <= MaxFill
    /\ updStart <= updEnd /\ updEnd <= Len(upd)
    /\ index \in [Keys -> {"src", "new", "removed"}]

\* The reads of the whole system as the abstract store: the answer to
\* get(k) for every snapshot at or above the low-water, and the newest
\* committed version of every key.
AbsLatest == [k \in Keys |->
                 LET vs == {h.version : h \in {x \in hist : x.key = k}}
                 IN  CHOOSE v \in vs : \A u \in vs : u <= v]

Abs == INSTANCE VersionedStore WITH
           store <- [k \in Keys |-> [s \in Snapshots |-> View(k, s)]],
           latest <- AbsLatest,
           Versions <- FirstVersion .. MaxVersion,
           InitStore <- [k \in Keys |-> [s \in Snapshots |-> ReadRows(SrcRecordRows(k), s)]],
           InitLatest <- [k \in Keys |-> SrcRecordRows(k)[1].version]

\* Compaction is a semantic no-op and writes race with it safely: every
\* step of clean(), flushFillPage() and the writers' CAS either leaves
\* get(k, s) unchanged for every snapshot s >= mMinVersion or is the
\* commit of a new version.  Lost deltas (pointer CAS without carrying the
\* chain over), wrong survivors or wrong floors all break it.
AbsSpec == Abs!Spec

\* The newest committed state of every key is what a reader at the newest
\* snapshot gets, through deletes, invalidations and pointer CASes.
LatestValuePreserved == \A k \in Keys : View(k, MaxVersion) = AbsRead(k, MaxVersion)

\* In every emitted page, the payload copied into row r (by the clean
\* actions, in their order) is the payload of the version its fill entry
\* names: the batching of main spans and update spans in clean() and
\* flushFillPage() keeps sizes/columns aligned with the entries.
RowsMatchEntries ==
    \A p \in DOMAIN pages : \A r \in DOMAIN pages[p] :
        LET row == pages[p][r]
        IN  /\ row.pver = row.version
            /\ row.pdel = (\E h \in hist : h.key = row.key /\ h.version = row.version /\ h.del)

\* GC collects: an emitted record keeps at most one version at or below
\* mMinVersion (the floor); processUpdates and the main copy stop there.
GcBound ==
    \A p \in DOMAIN pages : \A k \in Keys :
        Cardinality({r \in DOMAIN pages[p] :
                        pages[p][r].key = k /\ pages[p][r].version <= MinVersion}) <= 1

\* clean() asserts that the oldest entry it keeps of a record is not a
\* delete (LOG_ASSERT(!wasDelete), "Last element must not be a delete"):
\* a delete with nothing below it is dropped together with what it deleted
\* or not written at all.  In every emitted page the last row of every
\* record, from clean() or append(), carries data.
OldestKeptNotDelete ==
    \A p \in DOMAIN pages : \A r \in DOMAIN pages[p] :
        (r = Len(pages[p]) \/ pages[p][r + 1].key # pages[p][r].key) => ~pages[p][r].pdel

\* Once started, the compaction of the page finishes: the pointer-CAS
\* loop and the restart of a record after a failed invalidation or an
\* overflow terminate despite concurrent writers.
GcTerminates == (cpc # "idle") ~> (cpc = "finished")

\* flushFillPage() is never called with an empty fill page
\* (LOG_ASSERT(mFillEndIdx > 0)): the overflow path of clean() makes room.
NoEmptyFlush == cpc = "flush" => fill # <<>>

\* What needsCleaning() is meant to decide: the page has a record with
\* pending deltas or with a version other than the newest below mMinVersion.
NeedsCleaningIntended ==
    \E r \in 0 .. Count - 1 :
        \/ newest[Row(r).key] # Delta(0)
        \/ r > 0 /\ Row(r - 1).key = Row(r).key /\ Row(r).version < MinVersion

\* Table GC cleans a page exactly when it has deltas or garbage.
NeedsCleaningCorrect ==
    [][cpc = "idle" /\ cpc' # "idle" => (cpc' = "record" <=> NeedsCleaningIntended)]_vars

=============================================================================
