------------------------------ MODULE BofCache ------------------------------
(***************************************************************************)
(* The buffer cache of BLAS-on-flash (src/src/scheduler/cache.cpp,         *)
(* src/include/scheduler/cache.h).                                         *)
(*                                                                         *)
(* A key is a (flash_ptr, StrideInfo) pair; here it is a model value with  *)
(* a buffer size BufSize[k].  The cache keeps three maps (active_map,      *)
(* io_map, zero_ref_map) from keys to Values and an ordered alloc_backlog. *)
(* Every public operation runs under cache_mut, so each is one atomic      *)
(* step of the model.  The operations are written as functions from a      *)
(* cache record to a cache record (the C++ methods call each other in      *)
(* sequence), and the module that drives the cache (BofScheduler) turns    *)
(* their result into a step with Become.                                   *)
(*                                                                         *)
(* The I/O executor is abstracted to the set ioq of issued descriptors:    *)
(* any of them may be executed and completed at any time, in any order     *)
(* (io_executor.cpp gives no ordering).  disk is the content of each       *)
(* key's region of its backing file; a buffer's content is the task that   *)
(* last wrote it, InitVal, or Garbage for a never-filled allocation.       *)
(***************************************************************************)
EXTENDS Integers, Sequences, FiniteSets, SequencesExt, Functions, TLC

CONSTANTS
    Keys,             \* cache keys: (flash_ptr, StrideInfo) pairs
    BufSize,          \* BufSize[k] = buf_size(k.sinfo)
    MaxSize,          \* Cache::max_size
    SingleUseDiscard, \* Cache::single_use_discard
    InitVal,          \* content of every region before any task ran
    Garbage           \* content of a buffer allocated but never filled

ASSUME /\ BufSize \in [Keys -> Nat \ {0}]
       /\ MaxSize \in Nat
       /\ SingleUseDiscard \in BOOLEAN

VARIABLES
    active,      \* Cache::active_map   : key -> Value
    io,          \* Cache::io_map       : key -> Value
    zero,        \* Cache::zero_ref_map : key -> Value
    backlog,     \* Cache::alloc_backlog: sequence of [key, aonly, wb]
    commitSize,  \* Cache::commit_size
    realSize,    \* Cache::real_size
    ioq,         \* IoTasks handed to IoExecutor::add_read/add_write, not yet done
    unfreed,     \* write-back callbacks that set `complete` but have not freed yet
    disk         \* content of each key's region on the backing file

cacheVars == <<active, io, zero, backlog, commitSize, realSize, ioq, unfreed, disk>>

(* A Value of cache.h: buf content, n_refs, write_back, evicted,          *)
(* alloc_only, and the `complete` flag of its pending I/O.                *)
Value(data) == [buf |-> data, refs |-> 0, wb |-> FALSE, evicted |-> FALSE,
                aonly |-> FALSE, complete |-> FALSE]

Drop(f, k) == Restrict(f, DOMAIN f \ {k})
Put(f, k, v) == (k :> v) @@ f
SizeOf(ks) == SumFunctionOnSet(BufSize, ks)

(* The cache as a record, and the step that makes a record the new state. *)
C == [active |-> active, io |-> io, zero |-> zero, backlog |-> backlog,
      commit |-> commitSize, real |-> realSize, ioq |-> ioq]

Become(c) == /\ active' = c.active
             /\ io' = c.io
             /\ zero' = c.zero
             /\ backlog' = c.backlog
             /\ commitSize' = c.commit
             /\ realSize' = c.real
             /\ ioq' = c.ioq

-----------------------------------------------------------------------------
(* Cache::is_queued *)
IsQueued(c, k) == \E i \in DOMAIN c.backlog : c.backlog[i].key = k

(* A key whose buffer is resident, or pending a read (keep_if_in_cache).  *)
InCache(c, k) == \/ k \in DOMAIN c.active \cup DOMAIN c.zero
                 \/ k \in DOMAIN c.io /\ ~c.io[k].evicted
                 \/ IsQueued(c, k)

(* Cache::add_backlog: commit the buffer's size and queue it, once.       *)
AddBacklog(c, k, aonly, wb) ==
    IF IsQueued(c, k) THEN c
    ELSE [c EXCEPT !.commit = @ + BufSize[k],
                   !.backlog = Append(@, [key |-> k, aonly |-> aonly, wb |-> wb])]

(* Variants of move_zero_to_active as slips would write it: without the  *)
(* n_refs = 1 the NOTE in cache.h asks for, and without the erase.        *)
MoveZeroToActiveKeepRefs(c, k) ==
    [c EXCEPT !.zero = Drop(@, k), !.active = Put(@, k, c.zero[k])]
MoveZeroToActiveNoErase(c, k) ==
    [c EXCEPT !.active = Put(@, k, [c.zero[k] EXCEPT !.refs = 1])]

(* Cache::move_zero_to_active *)
MoveZeroToActive(c, k) ==
    [c EXCEPT !.zero = Drop(@, k),
              !.active = Put(@, k, [c.zero[k] EXCEPT !.refs = 1])]

(* Cache::reap_io_completion followed by Cache::move_io_to_active *)
ReapIoToActive(c, k) ==
    [c EXCEPT !.io = Drop(@, k),
              !.active = Put(@, k, [c.io[k] EXCEPT !.refs = 1])]

IoReady(c, k) == k \in DOMAIN c.io /\ ~c.io[k].evicted /\ c.io[k].complete

(* Variants of evict: commit_size lowered only for read-only buffers, and *)
(* write_back ignored (every buffer freed at once).                       *)
EvictKeepCommitWb(c, ks) ==
    LET wbKeys == {k \in ks : c.zero[k].wb}
    IN [c EXCEPT !.zero = Restrict(@, DOMAIN @ \ ks),
                 !.commit = @ - SizeOf(ks \ wbKeys),
                 !.io = [k \in wbKeys |-> [c.zero[k] EXCEPT !.evicted = TRUE,
                                                            !.complete = FALSE]]
                        @@ c.io,
                 !.ioq = @ \cup {[key |-> k, write |-> TRUE, data |-> c.zero[k].buf]
                                  : k \in wbKeys},
                 !.real = @ - SizeOf(ks \ wbKeys)]
EvictNoWriteBack(c, ks) ==
    [c EXCEPT !.zero = Restrict(@, DOMAIN @ \ ks),
              !.commit = @ - SizeOf(ks),
              !.real = @ - SizeOf(ks)]

(* Cache::evict: drop the keys from zero_ref_map; a write-back buffer     *)
(* goes to io_map as evicted and a write is issued whose callback frees   *)
(* it; any other buffer is freed at once.                                 *)
Evict(c, ks) ==
    LET wbKeys == {k \in ks : c.zero[k].wb}
    IN [c EXCEPT !.zero = Restrict(@, DOMAIN @ \ ks),
                 !.commit = @ - SizeOf(ks),
                 !.io = [k \in wbKeys |-> [c.zero[k] EXCEPT !.evicted = TRUE,
                                                            !.complete = FALSE]]
                        @@ c.io,
                 !.ioq = @ \cup {[key |-> k, write |-> TRUE, data |-> c.zero[k].buf]
                                  : k \in wbKeys},
                 !.real = @ - SizeOf(ks \ wbKeys)]

(* Cache::try_evict: the scan of zero_ref_map (in hash order) takes       *)
(* non-excluded keys until their size reaches `need`.  The possible       *)
(* choices are the sets that reach `need` only with their last key.       *)
EvictChoices(c, exclude, need) ==
    LET cand == DOMAIN c.zero \ exclude
    IN {S \in SUBSET cand : /\ SizeOf(S) >= need
                            /\ \E x \in S : SizeOf(S \ {x}) < need}

(* A strict comparison in has_spare_real_mem_for.                        *)
HasSpareRealMemForStrict(c, n) == c.real + n < MaxSize

(* Cache::has_spare_mem_for and Cache::has_spare_real_mem_for *)
HasSpareMemFor(c, n) == c.commit + n <= MaxSize
HasSpareRealMemFor(c, n) == c.real + n <= MaxSize

(* The extra memory Cache::allocate asks for: keys neither resident nor   *)
(* pending a read.                                                        *)
AskSize(c, ks) ==
    SizeOf({k \in ks : /\ k \notin DOMAIN c.active \cup DOMAIN c.zero
                       /\ k \in DOMAIN c.io => c.io[k].evicted})

-----------------------------------------------------------------------------
(* One iteration of each loop of Cache::alloc_bufs.                      *)

(* (R \ W): read-only keys *)
AllocReadOnly(c, k) ==
    IF k \in DOMAIN c.active THEN [c EXCEPT !.active[k].refs = @ + 1]
    ELSE IF k \in DOMAIN c.io
         THEN IF c.io[k].evicted THEN AddBacklog(c, k, FALSE, FALSE)
              ELSE IF c.io[k].complete THEN ReapIoToActive(c, k)
              ELSE c
    ELSE IF k \in DOMAIN c.zero THEN MoveZeroToActive(c, k)
    ELSE AddBacklog(c, k, FALSE, FALSE)

(* (W \ R): write-only keys; a resident one is only logged as an error    *)
AllocWriteOnly(c, k) ==
    IF k \in DOMAIN c.active \cup DOMAIN c.io \cup DOMAIN c.zero THEN c
    ELSE AddBacklog(c, k, TRUE, TRUE)

(* (R /\ W): read-write keys *)
AllocReadWrite(c, k) ==
    IF k \in DOMAIN c.active
    THEN [c EXCEPT !.active[k].refs = @ + 1, !.active[k].wb = TRUE]
    ELSE IF k \in DOMAIN c.io
         THEN IF c.io[k].evicted
              THEN IF ~IsQueued(c, k) THEN AddBacklog(c, k, FALSE, TRUE) ELSE c
              ELSE IF c.io[k].complete THEN ReapIoToActive(c, k)
              ELSE c
    ELSE IF k \in DOMAIN c.zero
         THEN LET c1 == MoveZeroToActive(c, k)
              IN [c1 EXCEPT !.active[k].wb = TRUE]
    ELSE AddBacklog(c, k, FALSE, TRUE)

(* Cache::alloc_bufs, with each key class visited in the orders ro, wo,   *)
(* rw (unordered_set iteration order is unspecified).                     *)
AllocBufs(c, ro, wo, rw) ==
    FoldLeft(AllocReadWrite,
             FoldLeft(AllocWriteOnly, FoldLeft(AllocReadOnly, c, ro), wo), rw)

(* The keys alloc_bufs records in the task's in_mem_ptrs.                 *)
AllocPins(c, rk) ==
    {k \in rk : k \in DOMAIN c.active \cup DOMAIN c.zero \/ IoReady(c, k)}

(* The outcomes of Cache::allocate(tsk) when it returns true: the cache   *)
(* it leaves behind and the keys it pinned in the task's in_mem_ptrs.     *)
Allocate(c, rk, wk) ==
    LET ask == AskSize(c, rk \cup wk)
        evicted == IF HasSpareMemFor(c, ask) THEN {c}
                   ELSE {Evict(c, S) : S \in EvictChoices(c, rk \cup wk, ask)}
    IN {[c |-> AllocBufs(c1, ro, wo, rw), pins |-> AllocPins(c1, rk)]
          : c1 \in evicted, ro \in SetToSeqs(rk \ wk),
            wo \in SetToSeqs(wk \ rk), rw \in SetToSeqs(rk \cap wk)}

(* Cache::allocate returns false: no room, and nothing to evict.          *)
AllocateFails(c, rk, wk) ==
    LET ask == AskSize(c, rk \cup wk)
    IN ~HasSpareMemFor(c, ask) /\ EvictChoices(c, rk \cup wk, ask) = {}

(* Cache::get_buf: pin the key if it is resident and return whether it is. *)
GetBufFound(c, k) == k \in DOMAIN c.active \cup DOMAIN c.zero \/ IoReady(c, k)

GetBuf(c, k, wb) ==
    LET c1 == IF k \in DOMAIN c.active THEN [c EXCEPT !.active[k].refs = @ + 1]
              ELSE IF IoReady(c, k) THEN ReapIoToActive(c, k)
              ELSE IF k \in DOMAIN c.zero THEN MoveZeroToActive(c, k)
              ELSE c
    IN IF GetBufFound(c, k) THEN [c1 EXCEPT !.active[k].wb = @ \/ wb] ELSE c1

(* One iteration of Cache::release: unpin k; at zero references the       *)
(* buffer goes to zero_ref_map, or is freed under single_use_discard.     *)
ReleaseKey(c, k) ==
    LET v == [c.active[k] EXCEPT !.refs = @ - 1]
    IN IF v.refs # 0 THEN [c EXCEPT !.active[k] = v]
       ELSE IF SingleUseDiscard
            THEN [c EXCEPT !.active = Drop(@, k),
                           !.commit = @ - BufSize[k],
                           !.real = @ - BufSize[k]]
       ELSE [c EXCEPT !.active = Drop(@, k), !.zero = Put(@, k, v)]

Release(c, ks) == FoldLeft(ReleaseKey, c, SetToSeq(ks))

(* The reap loop without the erase of completed evictions.              *)
ReapIoKeepEvicted(c) ==
    LET kept == {k \in DOMAIN c.io : c.io[k].complete /\ ~c.io[k].evicted}
    IN [c EXCEPT !.io = Restrict(@, DOMAIN @ \ kept),
                 !.active = [k \in kept |-> [c.io[k] EXCEPT !.refs = 0]] @@ @]

(* First loop of Cache::service_backlog: reap every completed I/O; a read *)
(* moves to active_map with no references, an eviction is dropped.        *)
ReapIo(c) ==
    LET done == {k \in DOMAIN c.io : c.io[k].complete}
        kept == {k \in done : ~c.io[k].evicted}
    IN [c EXCEPT !.io = Restrict(@, DOMAIN @ \ done),
                 !.active = [k \in kept |-> [c.io[k] EXCEPT !.refs = 0]] @@ @]

(* service_backlog without its is_in_io skip.                            *)
CanServeHeadIgnoreIo(c) ==
    /\ c.backlog # <<>>
    /\ HasSpareRealMemFor(c, BufSize[Head(c.backlog).key])

(* Second loop of Cache::service_backlog: the head entry can be served   *)
(* when real memory has room and no eviction of its key is in flight.    *)
CanServeHead(c) ==
    /\ c.backlog # <<>>
    /\ HasSpareRealMemFor(c, BufSize[Head(c.backlog).key])
    /\ Head(c.backlog).key \notin DOMAIN c.io

(* Serving the head with real_size raised only where a read is issued.   *)
ServeHeadNoRealAllocOnly(c) ==
    LET e == Head(c.backlog)
        v == [Value(Garbage) EXCEPT !.wb = e.wb \/ e.aonly, !.aonly = e.aonly,
                                    !.complete = e.aonly]
    IN [c EXCEPT !.backlog = Tail(@),
                 !.real = IF e.aonly THEN @ ELSE @ + BufSize[e.key],
                 !.io = Put(@, e.key, v),
                 !.ioq = IF e.aonly THEN @
                         ELSE @ \cup {[key |-> e.key, write |-> FALSE, data |-> Garbage]}]

(* Allocate the head's buffer; issue its read unless alloc_only.          *)
ServeHead(c) ==
    LET e == Head(c.backlog)
        v == [Value(Garbage) EXCEPT !.wb = e.wb \/ e.aonly, !.aonly = e.aonly,
                                    !.complete = e.aonly]
    IN [c EXCEPT !.backlog = Tail(@),
                 !.real = @ + BufSize[e.key],
                 !.io = Put(@, e.key, v),
                 !.ioq = IF e.aonly THEN @
                         ELSE @ \cup {[key |-> e.key, write |-> FALSE, data |-> Garbage]}]

RECURSIVE ServeBacklog(_)
ServeBacklog(c) == IF CanServeHead(c) THEN ServeBacklog(ServeHead(c)) ELSE c

(* Cache::service_backlog, one critical section: reap, then serve.       *)
ServiceBacklog(c) == ServeBacklog(ReapIo(c))

-----------------------------------------------------------------------------
(* I/O threads (IoExecutor::execute_task and the cache's callbacks).     *)

(* A read completes: the buffer holds the file's content, `complete` set. *)
ReadDone(op) ==
    /\ op \in ioq
    /\ ~op.write
    /\ io' = [io EXCEPT ![op.key].buf = disk[op.key], ![op.key].complete = TRUE]
    /\ ioq' = ioq \ {op}
    /\ UNCHANGED <<active, zero, backlog, commitSize, realSize, unfreed, disk>>

(* A write callback that frees the buffer but never stores `complete`.   *)
WriteDoneNoComplete(op) ==
    /\ op \in ioq
    /\ op.write
    /\ disk' = [disk EXCEPT ![op.key] = op.data]
    /\ unfreed' = [unfreed EXCEPT ![op.key] = @ + 1]
    /\ ioq' = ioq \ {op}
    /\ UNCHANGED <<active, io, zero, backlog, commitSize, realSize>>

(* An eviction write completes; its callback first stores `complete`.     *)
WriteDone(op) ==
    /\ op \in ioq
    /\ op.write
    /\ disk' = [disk EXCEPT ![op.key] = op.data]
    /\ io' = [io EXCEPT ![op.key].complete = TRUE]
    /\ unfreed' = [unfreed EXCEPT ![op.key] = @ + 1]
    /\ ioq' = ioq \ {op}
    /\ UNCHANGED <<active, zero, backlog, commitSize, realSize>>

(* The free part of the callback run without a completed write.          *)
WriteFreeUnguarded(k) ==
    /\ unfreed' = [unfreed EXCEPT ![k] = @ - 1]
    /\ realSize' = realSize - BufSize[k]
    /\ UNCHANGED <<active, io, zero, backlog, commitSize, ioq, disk>>

(* ... and then frees the buffer and subtracts it from real_size.         *)
WriteFree(k) ==
    /\ unfreed[k] > 0
    /\ unfreed' = [unfreed EXCEPT ![k] = @ - 1]
    /\ realSize' = realSize - BufSize[k]
    /\ UNCHANGED <<active, io, zero, backlog, commitSize, ioq, disk>>

IoNext == \/ \E op \in ioq : ReadDone(op) \/ WriteDone(op)
          \/ \E k \in Keys : WriteFree(k)

CacheInit ==
    /\ active = <<>> /\ io = <<>> /\ zero = <<>>
    /\ backlog = <<>>
    /\ commitSize = 0 /\ realSize = 0
    /\ ioq = {}
    /\ unfreed = [k \in Keys |-> 0]
    /\ disk = [k \in Keys |-> InitVal]
=============================================================================
