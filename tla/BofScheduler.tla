---------------------------- MODULE BofScheduler ----------------------------
(***************************************************************************)
(* The out-of-core task scheduler (src/src/scheduler/scheduler.cpp,        *)
(* src/include/scheduler/scheduler.h, prioritizer.h) driving the cache of  *)
(* BofCache.                                                               *)
(*                                                                         *)
(* One dispatcher thread (Scheduler::sched_thread_fn) runs the loop        *)
(*   drain complete_queue -> filter wait_tsks -> admit by priority ->      *)
(*   promote alloced tasks whose buffers are in memory -> service_backlog  *)
(* and is the only thread that calls into the cache and the prioritizer.   *)
(* dpc is its position in that loop.  Compute threads pop compute_queue,   *)
(* execute, and push complete_queue.  A task writes its own id into the    *)
(* buffers of its write keys; latest is a history variable holding the id  *)
(* of the last task that wrote each key.  The driver submits root tasks    *)
(* (Scheduler::add_task), waits until all are Complete and flushes the     *)
(* cache (Scheduler::flush_cache, Cache::flush).                           *)
(***************************************************************************)
EXTENDS BofCache

CONSTANTS
    Tasks,     \* the task DAG of one kernel call
    Reads,     \* Reads[t]  : keys of t's read_list
    Writes,    \* Writes[t] : keys of t's write_list
    Parents,   \* Parents[t]: tasks t waits for (BaseTask::parents)
    NextTask,  \* NextTask[t]: BaseTask::next, or NoTask
    NoTask,    \* nullptr
    Threads,   \* compute threads
    MaxInMem   \* max_in_mem_tsks = N_COMPUTE_THR * 4

ASSUME /\ \A t \in Tasks : Reads[t] \cup Writes[t] \subseteq Keys
       /\ \A t \in Tasks : Parents[t] \subseteq Tasks /\ NextTask[t] \in Tasks \cup {NoTask}
       /\ NoTask \notin Tasks
       /\ MaxInMem \in Nat \ {0}

VARIABLES
    status,     \* BaseTask::st ("New" before add_task)
    waitq,      \* Scheduler::wait_tsks
    prio,       \* Prioritizer::tsks: sequence of [t, mreq]
    inMemKeys,  \* Prioritizer::in_mem_keys
    alloced,    \* Scheduler::alloced_tsks
    computeq,   \* Scheduler::compute_queue
    completeq,  \* Scheduler::complete_queue
    crec,       \* Scheduler::c_rec: ids marked complete
    pins,       \* pins[t]: keys of t's in_mem_ptrs
    tsksInMem,  \* tsks_in_mem of sched_thread_fn
    admitOpen,  \* num_tsks_to_alloc > 0, fixed for one admission loop
    dpc,        \* the dispatcher's phase
    worker,     \* the task each compute thread executes, or NoTask
    latest,     \* history: the last task that wrote each key
    flushPc,    \* the driver: "run", "evicted" (in flush's wait loop), "done"
    pcur,       \* the filter's position in alloced_tsks
    prdy        \* the tasks the filter has removed so far

schedVars == <<status, waitq, prio, inMemKeys, alloced, computeq, completeq,
               crec, pins, tsksInMem, admitOpen, dpc, worker, latest, flushPc,
               pcur, prdy>>
vars == <<cacheVars, schedVars>>

AllKeys(t) == Reads[t] \cup Writes[t]
Continuations == {NextTask[t] : t \in Tasks} \ {NoTask}
Holding(t) == status[t] \in {"Alloc", "ComputeReady", "Compute"}

-----------------------------------------------------------------------------
(* Scheduler::add_task, called by the kernel for every root task.         *)
AddTask(t) ==
    /\ t \notin Continuations
    /\ status[t] = "New"
    /\ status' = [status EXCEPT ![t] = "Wait"]
    /\ waitq' = Append(waitq, t)
    /\ UNCHANGED <<cacheVars, prio, inMemKeys, alloced, computeq, completeq, crec,
                   pins, tsksInMem, admitOpen, dpc, worker, latest, flushPc, pcur, prdy>>

(* One iteration of the complete_queue loop: release the task's buffers,  *)
(* mark it complete and enqueue its continuation.                         *)
DrainOne ==
    /\ dpc = "drain"
    /\ completeq # <<>>
    /\ LET t == Head(completeq)
           n == NextTask[t]
           c1 == Release(C, AllKeys(t))
       IN /\ completeq' = Tail(completeq)
          /\ tsksInMem' = tsksInMem - 1
          /\ crec' = crec \cup {t}
          /\ Become(c1)
          /\ status' = IF n = NoTask THEN [status EXCEPT ![t] = "Complete"]
                       ELSE [status EXCEPT ![t] = "Complete", ![n] = "Wait"]
          /\ waitq' = IF n = NoTask THEN waitq ELSE Append(waitq, n)
    /\ UNCHANGED <<unfreed, disk, prio, inMemKeys, alloced, computeq, pins,
                   admitOpen, dpc, worker, latest, flushPc, pcur, prdy>>

DrainEnd ==
    /\ dpc = "drain"
    /\ completeq = <<>>
    /\ dpc' = "wait"
    /\ UNCHANGED <<cacheVars, status, waitq, prio, inMemKeys, alloced, computeq,
                   completeq, crec, pins, tsksInMem, admitOpen, worker, latest, flushPc, pcur, prdy>>

(* Prioritizer::insert: mem_reqd against the in_mem_keys of the last      *)
(* update.                                                                *)
PrioEntry(t) == [t |-> t, mreq |-> SizeOf(AllKeys(t) \ inMemKeys)]

(* Prioritizer::update: in_mem_keys := keys of queued tasks still in the  *)
(* cache; fill_memreqd adds to mem_reqd; std::sort (not stable) orders by *)
(* mem_reqd, so equal entries may come out in any order.                  *)
PrioKeys(p) == {k \in UNION {AllKeys(p[i].t) : i \in DOMAIN p} : InCache(C, k)}
FillMemReqd(p, mk) ==
    [i \in DOMAIN p |-> [p[i] EXCEPT !.mreq = @ + SizeOf(AllKeys(p[i].t) \ mk)]]
SortedByMemReqd(p) ==
    {s \in {[i \in DOMAIN p |-> p[f[i]]] : f \in Bijection(DOMAIN p, DOMAIN p)} :
        IsSorted(s, LAMBDA x, y : x.mreq <= y.mreq)}

(* wait_tsks.filter(wait_keep_fn), insert, update, and the admission      *)
(* budget num_tsks_to_alloc = max_in_mem_tsks - tsks_in_mem (unsigned).   *)
FilterWait ==
    /\ dpc = "wait"
    /\ LET ready(t) == Parents[t] \subseteq crec
           rdy == SelectSeq(waitq, ready)
           p1 == prio \o [i \in DOMAIN rdy |-> PrioEntry(rdy[i])]
       IN /\ waitq' = SelectSeq(waitq, LAMBDA t : ~ready(t))
          /\ status' = [t \in Tasks |-> IF t \in Range(rdy) THEN "AllocReady"
                                        ELSE status[t]]
          /\ IF rdy = <<>> THEN UNCHANGED <<prio, inMemKeys>>
             ELSE /\ inMemKeys' = PrioKeys(p1)
                  /\ prio' \in SortedByMemReqd(FillMemReqd(p1, PrioKeys(p1)))
    /\ admitOpen' = (tsksInMem # MaxInMem)
    /\ dpc' = "admit"
    /\ UNCHANGED <<cacheVars, alloced, computeq, completeq, crec, pins, tsksInMem,
                   worker, latest, flushPc, pcur, prdy>>

(* One iteration of the admission loop: get_prio, Cache::allocate; on     *)
(* failure return_prio puts the entry back in front and the loop ends.    *)
Admit ==
    /\ dpc = "admit"
    /\ admitOpen /\ prio # <<>>
    /\ LET t == Head(prio).t
       IN \/ \E r \in Allocate(C, Reads[t], Writes[t]) :
                /\ Become(r.c)
                /\ pins' = [pins EXCEPT ![t] = r.pins]
                /\ prio' = Tail(prio)
                /\ tsksInMem' = tsksInMem + 1
                /\ alloced' = Append(alloced, t)
                /\ status' = [status EXCEPT ![t] = "Alloc"]
                /\ UNCHANGED dpc
          \/ /\ AllocateFails(C, Reads[t], Writes[t])
             /\ dpc' = "promote"
             /\ UNCHANGED <<cacheVars, pins, prio, tsksInMem, alloced, status>>
    /\ UNCHANGED <<unfreed, disk, waitq, inMemKeys, computeq, completeq, crec,
                   admitOpen, worker, latest, flushPc, pcur, prdy>>

AdmitEnd ==
    /\ dpc = "admit"
    /\ ~admitOpen \/ prio = <<>>
    /\ dpc' = "promote"
    /\ UNCHANGED <<cacheVars, status, waitq, prio, inMemKeys, alloced, computeq,
                   completeq, crec, pins, tsksInMem, admitOpen, worker, latest, flushPc, pcur, prdy>>

(* Scheduler::alloc_ready: get_buf each key not yet in in_mem_ptrs, the   *)
(* read_list first; a = [c, pins].                                        *)
PinKey(a, t, k, wb) ==
    IF GetBufFound(a.c, k)
    THEN [c |-> GetBuf(a.c, k, wb), pins |-> [a.pins EXCEPT ![t] = @ \cup {k}]]
    ELSE a
AllocReady(a, t) ==
    LET r == FoldLeft(LAMBDA b, k : PinKey(b, t, k, FALSE), a,
                      SetToSeq(Reads[t] \ a.pins[t]))
    IN FoldLeft(LAMBDA b, k : PinKey(b, t, k, TRUE), r,
                SetToSeq(Writes[t] \ r.pins[t]))

(* One iteration of alloced_tsks.filter(alloc_keep_fn): alloced[pcur] is *)
(* moved to the ready batch if alloc_ready pins all its buffers.          *)
PromoteOne ==
    /\ dpc = "promote"
    /\ pcur <= Len(alloced)
    /\ LET t == alloced[pcur]
           a == AllocReady([c |-> C, pins |-> pins], t)
       IN /\ Become(a.c)
          /\ pins' = a.pins
          /\ IF AllKeys(t) \subseteq a.pins[t]
             THEN /\ alloced' = RemoveAt(alloced, pcur)
                  /\ prdy' = Append(prdy, t)
                  /\ UNCHANGED pcur
             ELSE /\ pcur' = pcur + 1
                  /\ UNCHANGED <<alloced, prdy>>
    /\ UNCHANGED <<unfreed, disk, status, waitq, prio, inMemKeys, computeq, completeq,
                   crec, tsksInMem, admitOpen, dpc, worker, latest, flushPc>>

(* The filter is done: the ready tasks become ComputeReady and are added, *)
(* in order, to compute_queue.                                            *)
PromoteEnd ==
    /\ dpc = "promote"
    /\ pcur > Len(alloced)
    /\ computeq' = computeq \o prdy
    /\ status' = [t \in Tasks |-> IF t \in Range(prdy) THEN "ComputeReady" ELSE status[t]]
    /\ prdy' = <<>>
    /\ pcur' = 1
    /\ dpc' = "service"
    /\ UNCHANGED <<cacheVars, waitq, prio, inMemKeys, alloced, completeq, crec, pins,
                   tsksInMem, admitOpen, worker, latest, flushPc>>

(* cache.service_backlog() at the end of the loop.                        *)
Service ==
    /\ dpc = "service"
    /\ LET c1 == ServiceBacklog(C) IN Become(c1)
    /\ dpc' = "drain"
    /\ UNCHANGED <<unfreed, disk, status, waitq, prio, inMemKeys, alloced, computeq,
                   completeq, crec, pins, tsksInMem, admitOpen, worker, latest, flushPc, pcur, prdy>>

Dispatcher == DrainOne \/ DrainEnd \/ FilterWait \/ Admit \/ AdmitEnd \/ PromoteOne
              \/ PromoteEnd \/ Service

-----------------------------------------------------------------------------
(* Scheduler::compute_thread_fn: pop a task and execute it.               *)
StartCompute(w) ==
    /\ worker[w] = NoTask
    /\ computeq # <<>>
    /\ worker' = [worker EXCEPT ![w] = Head(computeq)]
    /\ computeq' = Tail(computeq)
    /\ status' = [status EXCEPT ![Head(computeq)] = "Compute"]
    /\ UNCHANGED <<cacheVars, waitq, prio, inMemKeys, alloced, completeq, crec, pins,
                   tsksInMem, admitOpen, dpc, latest, flushPc, pcur, prdy>>

(* tsk->execute() writes every buffer of the write_list; then the task is *)
(* pushed on complete_queue.                                              *)
EndCompute(w) ==
    LET t == worker[w]
    IN /\ t # NoTask
       /\ active' = [k \in DOMAIN active |->
                       IF k \in Writes[t] THEN [active[k] EXCEPT !.buf = t] ELSE active[k]]
       /\ latest' = [k \in Keys |-> IF k \in Writes[t] THEN t ELSE latest[k]]
       /\ completeq' = Append(completeq, t)
       /\ worker' = [worker EXCEPT ![w] = NoTask]
       /\ UNCHANGED <<io, zero, backlog, commitSize, realSize, ioq, unfreed, disk,
                      status, waitq, prio, inMemKeys, alloced, computeq, crec, pins,
                      tsksInMem, admitOpen, dpc, flushPc, pcur, prdy>>

-----------------------------------------------------------------------------
(* The driver: once every task is Complete, Scheduler::flush_cache.       *)
(* Cache::flush evicts all of zero_ref_map, then calls service_backlog    *)
(* until io_map is empty.                                                 *)
FlushEvict ==
    /\ flushPc = "run"
    /\ \A t \in Tasks : status[t] = "Complete"
    /\ LET c1 == Evict(C, DOMAIN zero) IN Become(c1)
    /\ flushPc' = "evicted"
    /\ UNCHANGED <<unfreed, disk, status, waitq, prio, inMemKeys, alloced, computeq,
                   completeq, crec, pins, tsksInMem, admitOpen, dpc, worker, latest, pcur, prdy>>

FlushWait ==
    /\ flushPc = "evicted"
    /\ io # <<>>
    /\ LET c1 == ServiceBacklog(C) IN Become(c1)
    /\ UNCHANGED <<unfreed, disk, schedVars>>

(* Cache::flush returning without its wait for io_map to drain. *)
FlushReturnNoWait ==
    /\ flushPc = "evicted"
    /\ flushPc' = "done"
    /\ UNCHANGED <<cacheVars, status, waitq, prio, inMemKeys, alloced, computeq,
                   completeq, crec, pins, tsksInMem, admitOpen, dpc, worker, latest, pcur, prdy>>

FlushReturn ==
    /\ flushPc = "evicted"
    /\ io = <<>>
    /\ flushPc' = "done"
    /\ UNCHANGED <<cacheVars, status, waitq, prio, inMemKeys, alloced, computeq,
                   completeq, crec, pins, tsksInMem, admitOpen, dpc, worker, latest, pcur, prdy>>

Driver == (\E t \in Tasks : AddTask(t)) \/ FlushEvict \/ FlushWait \/ FlushReturn

IoStep == IoNext /\ UNCHANGED schedVars

(* The descriptors an I/O thread may be handed. *)
Vals == Tasks \cup {InitVal, Garbage}
IoOps == [key : Keys, write : BOOLEAN, data : Vals]

(* The I/O of key k completes.  At most one I/O per key is in flight: it  *)
(* exists only while io_map[k] is incomplete.                             *)
IoDone(k) == \E op \in ioq : op.key = k /\ (ReadDone(op) \/ WriteDone(op)) /\ UNCHANGED schedVars

Init ==
    /\ CacheInit
    /\ status = [t \in Tasks |-> "New"]
    /\ waitq = <<>> /\ prio = <<>> /\ inMemKeys = {}
    /\ alloced = <<>> /\ computeq = <<>> /\ completeq = <<>>
    /\ crec = {}
    /\ pins = [t \in Tasks |-> {}]
    /\ tsksInMem = 0
    /\ admitOpen = FALSE
    /\ dpc = "drain"
    /\ worker = [w \in Threads |-> NoTask]
    /\ latest = [k \in Keys |-> InitVal]
    /\ flushPc = "run"
    /\ pcur = 1
    /\ prdy = <<>>

Next ==
    \/ Dispatcher
    \/ \E w \in Threads : StartCompute(w) \/ EndCompute(w)
    \/ IoStep
    \/ Driver

Spec == Init /\ [][Next]_vars

(* sched_thread_fn is a loop that never blocks (it only sleeps), so the   *)
(* dispatcher takes infinitely many steps; in every state exactly one of  *)
(* its actions is enabled, so this is weak fairness of Dispatcher.        *)
(* Compute threads wake within 100 ms of a push (wait_for_push_notify),   *)
(* I/O threads serve every queued request, and the driver submits all     *)
(* roots and polls for completion.                                        *)
Fairness ==
    /\ []<><<Dispatcher>>_vars
    /\ \A w \in Threads : WF_vars(StartCompute(w)) /\ WF_vars(EndCompute(w))
    /\ \A k \in Keys : WF_vars(IoDone(k)) /\ WF_vars(WriteFree(k) /\ UNCHANGED schedVars)
    /\ WF_vars(Driver)

FairSpec == Spec /\ Fairness

-----------------------------------------------------------------------------
(***************************************************************************)
(* Properties                                                              *)
(***************************************************************************)
ValueT == [buf : Vals, refs : Nat, wb : BOOLEAN, evicted : BOOLEAN,
           aonly : BOOLEAN, complete : BOOLEAN]
Statuses == {"New", "Wait", "AllocReady", "Alloc", "ComputeReady", "Compute", "Complete"}

TypeOK ==
    /\ \A m \in {active, io, zero} : DOMAIN m \subseteq Keys /\ \A k \in DOMAIN m : m[k] \in ValueT
    /\ backlog \in Seq([key : Keys, aonly : BOOLEAN, wb : BOOLEAN])
    /\ commitSize \in Nat /\ realSize \in Nat
    /\ ioq \subseteq IoOps
    /\ unfreed \in [Keys -> Nat] /\ disk \in [Keys -> Vals]
    /\ status \in [Tasks -> Statuses]
    /\ pins \in [Tasks -> SUBSET Keys]
    /\ worker \in [Threads -> Tasks \cup {NoTask}]
    /\ latest \in [Keys -> Vals]
    /\ tsksInMem \in Nat

(* Reference counting of Cache::alloc_bufs, get_buf and release agrees    *)
(* with the scheduler's in_mem_ptrs: every buffer a task holding its      *)
(* buffers has pinned is in active_map, and n_refs of each active buffer  *)
(* is the number of such tasks that pinned it.  A miscount frees a buffer *)
(* in use or keeps one unevictable forever.                               *)
RefsExact ==
    /\ \A t \in Tasks : Holding(t) => pins[t] \subseteq DOMAIN active
    /\ \A k \in DOMAIN active :
         active[k].refs = Cardinality({t \in Tasks : Holding(t) /\ k \in pins[t]})

(* commit_size is exactly the size of the buffers promised: resident      *)
(* (active, zero-ref), being read, or waiting in alloc_backlog; and it    *)
(* never exceeds max_size.  Evictions must return what allocate() took.   *)
Promised == DOMAIN active \cup DOMAIN zero \cup {k \in DOMAIN io : ~io[k].evicted}
            \cup {backlog[i].key : i \in DOMAIN backlog}
CommitAccounting ==
    /\ commitSize = SizeOf(Promised)
    /\ commitSize <= MaxSize

(* real_size is exactly the memory malloc'ed: resident and in-read        *)
(* buffers, eviction buffers whose write is in flight, and those whose    *)
(* callback has not yet freed them; and it never exceeds max_size.        *)
Allocated == DOMAIN active \cup DOMAIN zero \cup {k \in DOMAIN io : ~io[k].evicted}
Writing == {op.key : op \in {o \in ioq : o.write}}
RealAccounting ==
    /\ realSize = SizeOf(Allocated) + SizeOf(Writing)
                  + SumFunctionOnSet([k \in Keys |-> unfreed[k] * BufSize[k]], Keys)
    /\ realSize <= MaxSize

(* A task that executes reads, in every buffer of its read_list, what the *)
(* last task to write that key wrote: eviction, write-back, re-read and   *)
(* buffer reuse never lose or reorder an update.                          *)
NoLostUpdate ==
    \A w \in Threads : worker[w] # NoTask =>
        \A k \in Reads[worker[w]] : k \in DOMAIN active /\ active[k].buf = latest[k]

(* When Cache::flush returns, every key's file region holds its last      *)
(* write.                                                                 *)
FlushDurable == flushPc = "done" => disk = latest

(* The maps of cache.h never share a key, and a key waiting in           *)
(* alloc_backlog has no buffer: at most an eviction write in flight.      *)
(* Cache::add_backlog callers and the is_in_io check of service_backlog   *)
(* must keep a key from being allocated twice.                            *)
Queued == {backlog[i].key : i \in DOMAIN backlog}
CodeDisjoint ==
    /\ DOMAIN active \cap DOMAIN io = {}
    /\ DOMAIN active \cap DOMAIN zero = {}
    /\ DOMAIN io \cap DOMAIN zero = {}
    /\ \A k \in Queued : k \notin DOMAIN active \cup DOMAIN zero /\ (k \in DOMAIN io => io[k].evicted)
    /\ \A i, j \in DOMAIN backlog : backlog[i].key = backlog[j].key => i = j

(* spec.md section 3, Invariant (disjointness): every key resides in at   *)
(* most one of active, in-io, zero-ref and the backlog.  alloc_bufs       *)
(* queues a key whose eviction write is still in flight.                  *)
SpecDisjoint ==
    LET S == <<DOMAIN active, DOMAIN io, DOMAIN zero, Queued>>
    IN \A i, j \in 1..4 : i # j => S[i] \cap S[j] = {}

(* spec.md section 3, Invariant (budget): real <= committed.  Cache::evict *)
(* lowers commit_size at once but real_size only in the write callback.   *)
RealWithinCommit == realSize <= commitSize

(* spec.md section 8, scenario 2: after flush_cache(), committed == 0 and *)
(* real == 0.  flush() returns once io_map is empty, and the eviction     *)
(* callback stores `complete` before it subtracts from real_size.         *)
FlushReleasesMemory == flushPc = "done" => commitSize = 0 /\ realSize = 0

(* sched_thread_fn: max_in_mem_tsks is the "max # of tasks in memory     *)
(* completely".  The admission loop computes num_tsks_to_alloc once and   *)
(* never decrements it, so one pass may admit more tasks than that.      *)
InMemBound == tsksInMem <= MaxInMem

(* Every task of the DAG eventually completes, and the flush returns.     *)
AllTasksComplete == <>(\A t \in Tasks : status[t] = "Complete")
FlushCompletes == <>(flushPc = "done")

-----------------------------------------------------------------------------
(***************************************************************************)
(* Refinement of DagExec.  A task has returned once EndCompute pushed it   *)
(* on complete_queue, and runs while a compute thread holds it.  The       *)
(* logical value of a key is the copy the system would hand the next       *)
(* reader: a resident or read-in buffer, else the data of an eviction      *)
(* write in flight, else the file.  A buffer that holds Garbage (an        *)
(* alloc_only buffer not yet written, or a read not yet complete) stands   *)
(* for the file's copy.  Evictions, write-backs, re-reads and the flush    *)
(* must leave every logical value unchanged; only a task's return changes  *)
(* it.                                                                     *)
(***************************************************************************)
DagState(t) ==
    CASE status[t] = "Complete" \/ \E i \in DOMAIN completeq : completeq[i] = t -> "done"
      [] \E w \in Threads : worker[w] = t -> "running"
      [] OTHER -> "idle"

Filled(b, k) == IF b = Garbage THEN disk[k] ELSE b

InFlightWrite(k) == {op \in ioq : op.key = k /\ op.write}

LogicalValue(k) ==
    CASE k \in DOMAIN active -> Filled(active[k].buf, k)
      [] k \in DOMAIN zero -> Filled(zero[k].buf, k)
      [] k \in DOMAIN io /\ ~io[k].evicted -> Filled(io[k].buf, k)
      [] InFlightWrite(k) # {} -> (CHOOSE op \in InFlightWrite(k) : TRUE).data
      [] OTHER -> disk[k]

Dag == INSTANCE DagExec WITH
           st <- [t \in Tasks |-> DagState(t)],
           val <- [k \in Keys |-> LogicalValue(k)],
           stored <- disk,
           flushed <- (flushPc = "done")

(* spec.md section 7: the scheduler, its cache and the I/O threads        *)
(* together behave as DagExec: tasks run after their parents and once,    *)
(* every movement of a block between memory and flash keeps its value,    *)
(* the file only ever receives a key's current value, and flush_cache     *)
(* returns with every value on flash.                                     *)
DagRefined == Dag!Spec

=============================================================================
