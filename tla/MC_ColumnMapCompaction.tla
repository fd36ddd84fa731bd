----------------------- MODULE MC_ColumnMapCompaction -----------------------
(* Model-checking instances of ColumnMapCompaction.                        *)
EXTENDS ColumnMapCompaction

CONSTANTS w1, w2

MCWriters == {w1, w2}

\* Two records: key 1 with an obsolete version below the low-water (so
\* needsCleaning holds), key 2 with a single version.
MCPage == << [key |-> 1, version |-> 2, del |-> FALSE],
             [key |-> 1, version |-> 1, del |-> FALSE],
             [key |-> 2, version |-> 1, del |-> FALSE] >>

\* Key 1 with an obsolete version below the low-water; key 2 whose newest
\* main version 4 sits exactly at the low-water of the updates scenario.
\* Version 4 was written to key 2 by transaction 4 and moved to main by an
\* earlier GC; as writer version 4 that transaction later writes key 1.
MCPageFloor == << [key |-> 1, version |-> 2, del |-> FALSE],
                  [key |-> 1, version |-> 1, del |-> FALSE],
                  [key |-> 2, version |-> 4, del |-> FALSE],
                  [key |-> 2, version |-> 1, del |-> FALSE] >>

\* Two records with a single version each: the page needs cleaning only
\* once a delta has been written.
MCPageSingle == << [key |-> 1, version |-> 2, del |-> FALSE],
                   [key |-> 2, version |-> 1, del |-> FALSE] >>

\* The first record has a single version and no deltas at the start; the
\* second has an obsolete version.
MCPageSingleFirst == << [key |-> 1, version |-> 1, del |-> FALSE],
                        [key |-> 2, version |-> 2, del |-> FALSE],
                        [key |-> 2, version |-> 1, del |-> FALSE] >>

\* The insert log: key 3, inserted at version 2 (before the writers).
MCInserts == << [key |-> 3, version |-> 2] >>

\* No insert records.
MCNoInserts == << >>

====
