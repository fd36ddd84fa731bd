# TLA+ models of TellStore's delta-main engine

This directory holds TLA+ models of the concurrent parts and the request handling of TellStore
(`src/`), the TLC configurations that check them, and `PROJECT.json`. That
file lists the components, runs, mutants, the definition-to-source map,
findings and hazards.

## The system and its parts

| Part | Source | State | Concurrency |
|---|---|---|---|
| Lock-free bounded stack (the page manager's free list) | `src/util/FixedSizeStack.hpp` | `mVec`, atomic `mHead`, atomic `mWriteHead` | any number of threads push and pop |
| Column-map page compaction | `src/deltamain/colstore/ColumnMapPage.cpp` | source page rows with an atomic `newest` word per record; the modifier's fill page, update page, clean actions, pointer actions and page list | one compactor thread per page, racing with writers that CAS `newest` |
| Delta-main record | `src/deltamain/Record.hpp` (declarations) | tagged `newest` word: nullptr, a pointer to the newest update-log entry, MAIN (rewritten into a new page) or INVALID; the update chain through `previous` | readers and writers lock-free |
| Log-structured table | `src/logstructured/Table.hpp` (declarations) | – | – |
| Server socket | `src/server/ServerSocket.cpp` | snapshot cache `mSnapshots`, scan registry `mScans` | one processor thread per socket; callbacks from the network layer |
| Client socket / client manager / driver | `src/tellstore/ClientSocket.hpp`, `src/client/*` | `uint16_t mScanId`, `mScans`; transactions | fibers of a client processor |

They interact as follows:

- Writers append an update-log entry whose `previous` is the head they loaded, then CAS the record's `newest` from that head to the entry.
- Readers walk the update chain newest first, then the main rows of the record. They return the first version ≤ their snapshot, or not-found for a delete.
- The table's GC hands each main page to a `ColumnMapPageModifier` together with `mMinVersion`, the lowest active version. The modifier does the following:
  - it rewrites the surviving versions of each record into fill pages;
  - it invalidates records that have nothing left;
  - after the main pages, `append()` moves the records of the insert log (inserted keys with their own update chains) into the fill pages in the same way;
  - at each flush, it swings every rewritten record's `newest` to MAIN with a CAS loop. The loop carries any delta appended meanwhile over to the new record.
- Pages come from the page manager, whose free list is a `FixedSizeStack`.
- A client processor (`ClientManager.hpp`) starts a transaction with the commit manager and sends requests over its connection. The server socket handles them one at a time on its processor thread.
  - Each data request and each scan carries a snapshot, either as a descriptor (cached on the connection or not) or as the version of a descriptor cached before.
  - A scan is registered under its client-chosen `uint16_t` id and runs on the storage's scan threads. The completion of its last write (`onWrite` with status DONE) comes back to the processor thread, interleaved with later requests, and answers the request.
  - A commit goes to the commit manager only. No message reaches the server.

## Modules

- **`FixedSizeStack.tla`** models `FixedSizeStack<T>`.
  - Every atomic operation of `push` and `pop` is one action: `PopLoad`, `PopCas`, `PushLoad`, `PushCas`, `PushWrite`, `PushForward` and `PushInc`. So the model has every interleaving at the granularity the hardware gives.
  - Each thread runs a fixed script of operations (`Ops`), and the j-th push of thread t pushes the distinct element `<<t, j>>`.
  - The history variables `pushed` and `popped` record what the operations returned.
  - `Abs` maps the stack to the abstract `LifoStack`. The published slots `mVec[0 .. mHead-1]` become the abstract stack, and `popped` becomes its history of returned elements. Under this mapping the forwarding `++mHead` is the push's linearization point, and a pop's successful CAS is the pop's.
- **`LifoStack.tla`** is the abstract specification of the stack: a bounded last-in first-out stack with `Push(e)` and `Pop`. `Pop` translates the contract documented on `pop()` (`FixedSizeStack.hpp:23-26`): the result is the element popped off the stack. `StackRefinement == Abs!Spec` is checked as a property. It is checked in the push-only and pop-only scenarios. With pushes and pops overlapping it cannot hold, because finding 1 hands out one element twice.
- **`ColumnMapCompaction.tla`** models GC of one column-map page with writers running concurrently.
  - **State.** `newest` is the per-record atomic word. `log` is the update log. `dst` and `dstNewest` give the record's place in the emitted pages and its new `newest`. The compactor's state is `cpc`, `i`, the pending spans, `upd` (the update page), `fill`, `cleanActs`, `ptrActs`, `pages`, `pageList` and `index`.
  - **Compactor actions.** Each is one atomic step:
    - `StartGC`: `clean()` and `needsCleaning()`.
    - `CleanRecord`: one iteration of `clean()`'s loop, from the load of `newest` at START to the decision. It computes `ProcessUpdates`, `SkipShadowed` and `CopyMain`, which are recursive operators translating `processUpdates()`, the shadow skip and the main-copy loop. Its outcome is one of `OverflowRecord`, `InvalidateRecord` or `CommitRecord`.
    - `Invalidate`: the INVALID CAS and the index remove.
    - `EndClean`: the last pending span.
    - `LoadInsert`, `AppendRecord`, `AppendInvalidate`: `append()` for each record of the insert log (`InsertRows`). `LoadInsert` is the caller loading the insert record's `newest` once. `AppendRecord` is one pass of `append()`'s loop on that loaded value: `processUpdates` over the insert's updates, the delete cancellation at line 288, the floor check `lowestVersion > max(mMinVersion, baseVersion)`, and then `AppendOverflow` (flush and restart with the same loaded value), `AppendCommit` (fill entries, update rows, pointer action, index insert) or the invalidation. `AppendInvalidate` is `tryInvalidate()`, a CAS from the loaded value to INVALID that reloads it and restarts the loop on failure. The table GC loop and `InsertRecord` are not in `src/`, so the loading and the iteration are `spec_modelled`.
    - `Done`: `done()`.
    - `FlushBuild`: `flush()` and `flushFillPage()` up to the pointer actions.
    - `PointerCas`: one iteration of the pointer-CAS loop.
  - **Why this granularity is sound.** Only `newest` is shared. Log entries and source rows are immutable once published, and the fill and update pages are private until the pointer CAS. So everything between two accesses to `newest` can be one step.
  - **Writers.** `WriterStart`, `WriterCas` and `WriterReload` load the head, CAS `newest`, or reload and retry or abort on a conflict. They follow `dstNewest` once the record is MAIN. Their code is not under `src/`, so they are modelled from the spec and marked `spec_modelled` in the map.
  - **Data.** Data is abstracted to identity: a row's payload is the version and kind of the entry it was copied from. Every entry costs one unit of `MaxFill`, which models `MAX_DATA_SIZE`.
- **`VersionedStore.tla`** is the abstract specification of what the store promises readers.
  - For every key and every snapshot s ≥ the low-water mark, `get` returns the newest version ≤ s, or not-found. The only way this answer changes is a commit of a higher version.
  - `ColumnMapCompaction` instantiates it with a refinement mapping (`Abs`). The mapping sends `store` to the answer a reader computes from the concrete state (`View`) and `latest` to the newest committed version. `AbsSpec == Abs!Spec` is checked as a property.
- **`ServerSocket.tla`** models one connection: the server's `onRequest` dispatch and handlers, and the client processor driving it.
  - **State.**
    - `mSnapshots` is the snapshot cache; a descriptor is identified with its transaction.
    - `mScans` maps a scan id to the message id that registered it.
    - `running` holds the scans the storage executes, whose DONE write is pending.
    - `inbox` holds the delivered requests, which the transport delivers in order.
    - `out` is the history of responses, and `tables` the storage's tables.
    - `crashed` records the null-table dereference.
  - **Server actions.**
    - `OnRequest` is one whole handler. It is `HandleCreateTable`, `HandleGetTable`, `HandleData` (get/update/insert/remove/revert) or `HandleScan`.
    - Data and scan handlers go through `HandleSnapshot`: the cache lookup or emplace, then the handler's callback (`DataOp`, `ScanOp`) or `invalid_snapshot`.
    - `ScanOp` takes the `getTable` result without a null check, emplaces the id, and answers `invalid_scan` if the id is taken. Otherwise it calls `mStorage.scan`, which may refuse: the model answers `server_overlad` and erases the entry.
    - `OnWriteDone(s)` is `onWrite` with status DONE.
  - **Client actions.** `StartTx`, `CommitTx` (after the transaction's responses arrived), and sending any request with any table, scan id and snapshot flags from small sets.
    - The request encoding is in `ClientSocket.cpp`, which is not in `src/`. So the flags are chosen freely; `Req` is marked `spec_modelled`.
  - **Not modelled.** The storage operations behind the handlers, ONGOING writes (they only release a buffer), and socket errors (`handleSocketError`, in the network library).
- **`MC_FixedSizeStack.tla`**, **`MC_ColumnMapCompaction.tla`** and **`MC_ServerSocket.tla`** hold the scenarios: thread scripts, and the source pages as sequences of `[key, version, del]` rows.

## Runs

| Run | Config | Expect | Shows |
|---|---|---|---|
| stack_push | `MC_FixedSizeStack_push.cfg` | pass | 3 threads × 2 pushes into capacity 4. Checks `TypeOK`, that no element is lost or duplicated once all are done (`ElementsConserved`), and that every push returns (`AllOpsComplete`). `StackRefinement` checks that the pushes refine a bounded LIFO stack: reservation and forwarding publish every slot only after it is written, in reservation order. |
| stack_pop | `MC_FixedSizeStack_pop.cfg` | pass | 3 threads × 2 pops from a full stack of 4. Checks that no element is handed out twice (`NoDoublePop`) and that every pop returns, including on the empty stack. `StackRefinement` checks that each successful pop returns the element on top at its CAS. |
| stack_mixed_double_pop | `MC_FixedSizeStack_mixed_NoDoublePop.cfg` | violation | see finding 1 |
| stack_mixed_push_hangs | `MC_FixedSizeStack_mixed_AllOpsComplete.cfg` | violation | see finding 2 |
| stack_mixed_push_fails | `MC_FixedSizeStack_mixed_PushFailsOnlyWhenFull.cfg` | violation | see finding 3 |
| compaction_updates | `MC_ColumnMapCompaction_nodel.cfg` | pass | Two writers update two page records and one insert-log record while the page is compacted and the insert log appended. The run checks `AbsSpec` (compaction is a semantic no-op and no racing update is lost), `RowsMatchEntries` (every emitted row's payload belongs to the version its entry names), `GcBound` (at most one version ≤ mMinVersion survives per record, with a main row exactly at mMinVersion), `GcTerminates` and `TypeOK`. |
| compaction_deletes | `MC_ColumnMapCompaction_del.cfg` | pass | With removes as well, records are invalidated (by `clean()` and by `append()`'s `tryInvalidate`, including its failed-CAS retry) and pages may need no cleaning. The newest state of every key survives (`LatestValuePreserved`). No emitted record ends in a delete (`OldestKeptNotDelete`), which is the `LOG_ASSERT(!wasDelete)` at `ColumnMapPage.cpp:208`; it holds for records from `clean()` and from `append()`. `GcTerminates` is checked here too: with removes, a failed invalidation CAS in `append()` restarts the record, and the restart must re-read the record's newest pointer for the loop to end. |
| compaction_delete_cancel | `MC_ColumnMapCompaction_del_AbsSpec.cfg` | violation | see finding 4 |
| compaction_empty_flush | `MC_ColumnMapCompaction_NoEmptyFlush.cfg` | violation | see finding 5 |
| compaction_needs_cleaning | `MC_ColumnMapCompaction_NeedsCleaningCorrect.cfg` | violation | see finding 6 |
| server_socket | `MC_ServerSocket.cfg` | pass | Up to three requests of every kind and all four snapshot flag combinations. They include reused scan ids, scans the storage refuses, and scan completions interleaved with later requests. Every request is answered exactly once (`OneResponsePerRequest`, `EveryRequestAnswered`). A scan id is registered exactly while its scan runs, under the id of its unanswered SCAN request (`ScanRegistryTracksScans`). |
| server_null_table | `MC_ServerSocket_NoNullTableDereference.cfg` | violation | see finding 7 |

Each property of a passing run is shown to be able to fail. `PROJECT.json` "mutants" lists, for each one, a variant of a mapped action with a plausible bug that makes TLC report it. The variants are:

- a push without the full check;
- a plain store in place of either CAS;
- a push writing the slot at the shared `mWriteHead` instead of its reserved `wHead`;
- a pop retrying its CAS with the observed head but the element read for the old one;
- forwarding without the increment;
- a pop that waits instead of failing;
- an off-by-one in the overflow check;
- main rows copied one position off;
- the main copy's floor check at line 203 made strict (`<` for `<=`), and the floor check dropped in `append()`'s insert write;
- a delete cancellation that drops the data row but keeps the delete;
- the pointer loop without the carry-over store, or without reloading `expected`;
- the invalidation without its CAS, in `clean()` or in `append()`;
- `append()`'s failed invalidation restarting the record without reloading the newest pointer, so the compactor spins forever (breaks `GcTerminates` under removes);
- `handleScan` without the `return` after `invalid_scan`, or without the erase after overload;
- `onWrite` answering with the scan id in place of the message id;
- `handleSnapshot` returning on a cache miss without the error response.

## Findings

1. **Double pop** (`FixedSizeStack.hpp:51-52`). `push()` reads `head == wHead`. A `pop()` then lowers `mHead`. The unconditional `++mHead` re-publishes the popped slot, and a later `pop()` returns the same element again. For the page free list, this means one page is handed out twice.
2. **Push hangs** (`FixedSizeStack.hpp:50`). Once a pop has lowered `mHead` below a push's reserved slot, nothing raises it to `wHead` again, so the push spins forever.
3. **Push fails on a non-full stack** (`FixedSizeStack.hpp:43`). `mWriteHead` never decreases, so after `Capacity` pushes in total, `push()` fails even though pops have freed slots.
4. **Delete cancellation loses a visible version** (`ColumnMapPage.cpp:422`, and line 161 in the main copy). Take a delete at d > mMinVersion whose predecessor is data at x < mMinVersion. The compactor drops both. A snapshot s with mMinVersion ≤ s < d saw x before compaction and sees not-found after it. The spec says compaction is a semantic no-op (§8) and allows coalescing only for deletes ≤ lowest active (§3). TLC's shortest trace is short:
   - key 1 has main row v2;
   - a writer deletes it at v4;
   - GC runs with mMinVersion 3 and invalidates the record.

   `append()` repeats the rule at line 288 for insert-log records: a delete above mMinVersion of an insert below it drops both, and the record is invalidated. TLC reproduced this with the model's writers restricted to deleting the inserted key (a scratch variant of the `compaction_delete_cancel` configuration with `InsertRows <- MCInserts`); the run itself reports the shorter main-page trace.
5. **Empty flush** (`ColumnMapPage.cpp:567`). If a record's surviving versions do not fit an empty fill page, `clean()` flushes an empty page (`LOG_ASSERT` failure) and retries the same record, which overflows again. The spec says page overflow is "handled internally via flush".
6. **needsCleaning stops early** (`ColumnMapPage.cpp:363`). It returns false at the first record that has one version and no deltas, so later records with deltas or garbage are not compacted.

7. **Null table in a scan** (`ServerSocket.cpp:256`). `handleScan` calls `table->record()` on the result of `mStorage.getTable(tableId)` without a null check. A SCAN naming a table that does not exist therefore crashes the server. `handleGetTable` answers `invalid_table` in the same case, and the spec calls invalid-table an API misuse error to be reported.

Also observed, not checked:

- `handleSnapshot` caches every descriptor sent with `cached` set, and nothing in `src/` ever calls `removeSnapshot`. COMMIT is a TODO, and the client commits through the commit manager only. So the cache of a connection grows by one descriptor per transaction and keeps descriptors of committed transactions, although the spec releases a descriptor on commit or abort.
- `empty()` returns `mHead == mVec.size()`, which is true when the stack is full (`FixedSizeStack.hpp:60`).

## Bounds and why they suffice

- **Stack.**
  - Three threads with two operations each, at capacity 4, reach both the full and the empty boundary in the pass runs.
  - The mixed scenario has two threads, capacity 2 and one prefilled element. It is the smallest one with a pop between a push's reservation and its forwarding.
- **Compaction.**
  - Two records, with versions 3–5 handed out and mMinVersion 4 (or 3 in the delete runs), cover several cases:
    - updates above and below the low-water mark;
    - a record shadowed entirely by its updates;
    - a main row kept as the floor. In the updates run, key 2's newest main version is 4, exactly mMinVersion, so the `<=` of the floor check at line 203 is exercised at its edge. Version 4 is transaction 4's write to key 2, which an earlier GC moved to main; as writer version 4, the same transaction may later write key 1. Without that row, a strict `<` at line 203 passes every property;
    - a writer racing the pointer CAS and the invalidation CAS.
  - `MaxFill = 2` makes two records overflow one fill page, so the flush-and-restart path and multi-page output occur. Every single record still fits, so the passing runs do not hit finding 5.
  - The update and delete runs add one insert-log record (key 3, inserted at version 2). Versions 3–5 on it give an update at or below the low-water (the insert is garbage and must not be written), updates above it (the insert is the floor), a delete that cancels it, and a writer racing `tryInvalidate`.
  - `MaxPages = 3` bounds the emitted pages. The runs never reach it except in the empty-flush loop.

- **Server socket.**
  - There is one transaction, scan ids `{s1, s2}`, tables `{1, 2}` with only table 1 existing, GET and UPDATE as the data kinds, and at most three requests.
  - Three requests reach every path:
    - a reused scan id while the first scan runs;
    - a refused scan followed by a retry under the same id;
    - a completion between two requests;
    - every `handleSnapshot` branch, including the duplicate emplace.
  - The other three data handlers are the same control flow with another response type.
  - Four requests take more than four minutes, because the run includes a liveness check.

## Fairness

- **Stack.** Threads are OS threads, so each thread gets weak fairness: a thread that can always step eventually does.
- **Compaction.** Weak fairness is assumed on the compactor thread only. Writers are clients and need not make progress. Versions are bounded, so writers cannot starve the compactor's CASes forever, and `GcTerminates` is stated as a leads-to from the start of GC. It is checked in both compaction runs, so it covers the invalidation retries that only removes produce.

- **Server socket.**
  - `OnRequest` and each `OnWriteDone(s)` are weakly fair.
  - The processor thread drains its event queue, and a scan over a finite table eventually completes its last write.
  - The client is not fair: it may stop sending or never commit.

## Not modelled

What remains of `src/` cannot be modelled faithfully from the code in `src/`, for these reasons:

1. `ServerSocket`:
   - socket errors on a scan write (`onWrite` with `ec`, a TODO at line 277), which need a model of the network library's teardown (`handleSocketError` and the connection shutdown are not in `src/`);
   - the client's scan-id counter, which lives in `ClientSocket.cpp` and is not in `src/`;
   - a bound on the snapshot cache (`ServerSocket.cpp:335`). Nothing in `src/` removes an entry, so the cache grows with every cached descriptor. A property could only restate that it never shrinks.
2. `Record.hpp`, `Table.hpp` and `ClientSocket.hpp` contain declarations only. The read and write paths that compaction needs are modelled from the spec. `revert` is a TODO in the code.
3. `Client.cpp` is a benchmark driver. It posts ten transactions on disjoint key ranges, and they share only the `mTrans` vector, behind a spin mutex. Each one inserts its keys and reads them back under one snapshot. Every call goes into a client library (`Client.hpp`, the `Transaction` API) that is not in `src/`. A model would therefore check the store as the spec describes it, not this code. One observation: its `mCommitManager.startTx()` snapshot is never committed, so it would hold the low-water mark down. The ten transactions share no store state beyond their disjoint keys, so the interleaving question is settled by the ServerSocket and compaction models. Of `ClientManager.hpp`, the ServerSocket model covers what reaches a connection: start, commit and request forwarding. The rest of that file is accessors and declarations.
