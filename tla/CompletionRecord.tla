-------------------------- MODULE CompletionRecord --------------------------
(***************************************************************************)
(* The scheduler's CompletionRecord (src/include/scheduler/scheduler.h)   *)
(* and the steps of Scheduler::sched_thread_fn that use it                 *)
(* (src/src/scheduler/scheduler.cpp): the drain of complete_queue, which  *)
(* marks each finished task complete, and the filter of wait_tsks, which  *)
(* erases the complete ids from each task's parents vector and releases   *)
(* the tasks left without parents.  The driver adds a kernel's tasks with *)
(* add_task in the order it built them, so in the order of their ids,     *)
(* which BaseTask takes from global_task_counter.  What a released task   *)
(* goes through until it reaches complete_queue (prioritizer, cache,      *)
(* compute threads) is one step Run here; BofScheduler models it.         *)
(*                                                                         *)
(* The record is std::vector<bool> complete: its size and the set of ids  *)
(* it holds true.  Only the scheduler thread uses it.                     *)
(***************************************************************************)
EXTENDS Naturals, Sequences

CONSTANTS
    StartSize,     \* CompletionRecord's start_size (1024 in the code)
    NTasks,        \* the kernel's tasks have the ids 0 .. NTasks - 1
    TaskParents    \* TaskParents[id]: the task's parents vector, in add_parent order

Ids == 0 .. NTasks - 1

ASSUME StartSize \in Nat \ {0} /\ TaskParents \in [Ids -> Seq(Ids)]

VARIABLES
    rec,       \* c_rec.complete as [size, bits]
    nAdded,    \* the driver's add_task loop: the ids added so far
    wait,      \* wait_tsks: <<id, parents vector>> in push order
    running,   \* released tasks not yet in complete_queue
    cq,        \* complete_queue
    done,      \* tasks the drain has popped and marked (status Complete)
    dpc        \* the scheduler thread: "drain" or "filter"

vars == <<rec, nAdded, wait, running, cq, done, dpc>>

\* resize(): the vector doubles; the new entries are false.
Resize(r) == [r EXCEPT !.size = 2 * r.size]

\* is_complete(tsk_id): an id past the end doubles the vector once and is
\* reported incomplete.
IsComplete(r, id) ==
    IF r.size <= id THEN [rec |-> Resize(r), ans |-> FALSE]
    ELSE [rec |-> r, ans |-> id \in r.bits]

\* Mutant: remove_complete erasing the ids that are not complete.
RECURSIVE RemoveFromInverted(_, _, _)
RemoveFromInverted(r, ps, kept) ==
    IF ps = <<>> THEN [rec |-> r, kept |-> kept]
    ELSE LET q == IsComplete(r, Head(ps))
         IN RemoveFromInverted(q.rec, Tail(ps), IF q.ans THEN Append(kept, Head(ps)) ELSE kept)

\* remove_complete(tsk_ids): erase the complete ids, keep the others in order.
RECURSIVE RemoveFrom(_, _, _)
RemoveFrom(r, ps, kept) ==
    IF ps = <<>> THEN [rec |-> r, kept |-> kept]
    ELSE LET q == IsComplete(r, Head(ps))
         IN RemoveFrom(q.rec, Tail(ps), IF q.ans THEN kept ELSE Append(kept, Head(ps)))

RemoveComplete(r, ps) == RemoveFrom(r, ps, <<>>)

\* Mutant: mark_complete without its resize.
MarkCompleteNoResize(r, id) == IF id < r.size THEN [r EXCEPT !.bits = @ \cup {id}] ELSE r

\* Mutant: mark_complete without its resize, the bit set wherever it lands.
MarkCompleteUnchecked(r, id) == [r EXCEPT !.bits = @ \cup {id}]

(* mark_complete(tsk_id): at most one doubling, then complete[tsk_id] =    *)
(* true.  An id still past the end is an out-of-bounds write into the      *)
(* vector's storage: the bit lands past size, where no is_complete reads   *)
(* it before the resize that covers it sets the new entries to false (or   *)
(* the heap is corrupted).  The model keeps the outcome in which the       *)
(* program goes on: the mark is lost.                                      *)
MarkComplete(r, id) ==
    LET r2 == IF r.size <= id THEN Resize(r) ELSE r
    IN IF id < r2.size THEN [r2 EXCEPT !.bits = @ \cup {id}] ELSE r2

Init ==
    /\ rec = [size |-> StartSize, bits |-> {}]
    /\ nAdded = 0
    /\ wait = <<>>
    /\ running = {}
    /\ cq = <<>>
    /\ done = {}
    /\ dpc = "drain"

\* Scheduler::add_task, called by the driver for its next task.
AddTask ==
    /\ nAdded < NTasks
    /\ wait' = Append(wait, <<nAdded, TaskParents[nAdded]>>)
    /\ nAdded' = nAdded + 1
    /\ UNCHANGED <<rec, running, cq, done, dpc>>

\* Step 1 of the loop: pop one finished task and mark it complete.
DrainOne ==
    /\ dpc = "drain" /\ cq # <<>>
    /\ rec' = MarkComplete(rec, Head(cq))
    /\ done' = done \cup {Head(cq)}
    /\ cq' = Tail(cq)
    /\ UNCHANGED <<nAdded, wait, running, dpc>>

\* complete_queue.pop() returned nullptr.
DrainEnd ==
    /\ dpc = "drain" /\ cq = <<>>
    /\ dpc' = "filter"
    /\ UNCHANGED <<rec, nAdded, wait, running, cq, done>>

(* ConcurrentVector::filter with wait_keep_fn, under the vector's mutex:   *)
(* for each waiting task in order, remove_complete on its parents; a task  *)
(* left with none is erased and returned ready.                            *)
RECURSIVE FilterFrom(_, _, _, _)
FilterFrom(r, w, kept, ready) ==
    IF w = <<>> THEN [rec |-> r, kept |-> kept, ready |-> ready]
    ELSE LET q == RemoveComplete(r, Head(w)[2])
         IN IF q.kept = <<>>
            THEN FilterFrom(q.rec, Tail(w), kept, ready \cup {Head(w)[1]})
            ELSE FilterFrom(q.rec, Tail(w), Append(kept, <<Head(w)[1], q.kept>>), ready)

Filter ==
    /\ dpc = "filter"
    /\ LET f == FilterFrom(rec, wait, <<>>, {})
       IN /\ rec' = f.rec
          /\ wait' = f.kept
          /\ running' = running \cup f.ready
    /\ dpc' = "drain"
    /\ UNCHANGED <<nAdded, cq, done>>

\* A released task is admitted, executed and pushed on complete_queue.
Run(t) ==
    /\ t \in running
    /\ running' = running \ {t}
    /\ cq' = Append(cq, t)
    /\ UNCHANGED <<rec, nAdded, wait, done, dpc>>

Dispatcher == DrainOne \/ DrainEnd \/ Filter

Next == AddTask \/ Dispatcher \/ \E t \in Ids : Run(t)

(* The scheduler thread loops without blocking, the driver adds every     *)
(* task, and every released task is eventually run.                       *)
Fairness ==
    /\ WF_vars(Dispatcher)
    /\ WF_vars(AddTask)
    /\ \A t \in Ids : WF_vars(Run(t))

Spec == Init /\ [][Next]_vars /\ Fairness

TypeOK ==
    /\ rec \in [size : Nat \ {0}, bits : SUBSET Ids]
    /\ \A id \in rec.bits : id < rec.size
    /\ nAdded \in 0 .. NTasks
    /\ running \subseteq Ids /\ done \subseteq Ids
    /\ dpc \in {"drain", "filter"}

\* The filter releases a task only when every parent of it has been
\* marked: remove_complete never erases a parent that has not finished,
\* whatever the record's resizes.
ParentsFirst ==
    \A t \in running \cup done \cup {cq[i] : i \in 1 .. Len(cq)} :
        \A i \in 1 .. Len(TaskParents[t]) : TaskParents[t][i] \in done

\* Every task of the kernel completes, so the driver's polling loop ends:
\* each mark_complete is seen by the filter of the tasks that wait on it.
AllTasksComplete == <>(done = Ids)
=============================================================================
