----------------------------- MODULE IoExecutor -----------------------------
(***************************************************************************)
(* The I/O thread pool of IoExecutor (src/src/scheduler/io_executor.cpp)   *)
(* running FlashFileHandle's reads and writes on one file.                 *)
(*                                                                         *)
(* add_read/add_write push tasks on tsk_queue.  Each I/O thread loops      *)
(* (io_thread_fn): it first retries each task of its private backlog once, *)
(* then pops tsk_queue.  Before running a task it announces it in its slot *)
(* (set_task: thread_tsks and is_writes under its mutex) and, if it        *)
(* writes, checks every other thread that writes with overlap(), which     *)
(* locks both slots and calls is_overlap.  On a conflict it clears its     *)
(* slot (set_null) and defers the task to its backlog; otherwise it runs   *)
(* it (execute_task), clears its slot and deletes it.  The destructor sets *)
(* shutdown; a thread exits when tsk_queue and its backlog are empty.      *)
(***************************************************************************)
EXTENDS FlashFile, SequencesExt

CONSTANTS
    NThreads,   \* n_threads; threads are 0 .. NThreads - 1, checked in this order
    Tasks,      \* the IoTasks that are added
    Order,      \* the order in which add_read/add_write push them
    Acc,        \* task -> [fop, write, o, l, n, s]
    BufAl,      \* task -> whether its buffer is sector-aligned
    InitFile,   \* the file's content before any task runs
    Null        \* nullptr in a slot

Threads == 0 .. NThreads - 1

VARIABLES
    toAdd,      \* the tasks the cache has not added yet
    queue,      \* tsk_queue (FIFO)
    shutdown,   \* IoExecutor::shutdown
    slot,       \* thread_tsks
    isw,        \* is_writes
    file,       \* the file's bytes
    pc,         \* where each thread is in io_thread_fn
    cur,        \* the task a thread holds
    from,       \* whether cur came from the backlog or tsk_queue
    idx,        \* the other thread the conflict loop is at
    nTries,     \* n_tries of the backlog loop
    backlog,    \* each thread's std::queue backlog
    wbuf,       \* each thread's bounce buffer between fetch and write-back
    done        \* tasks whose callback has run

vars == <<toAdd, queue, shutdown, slot, isw, file, pc, cur, from, idx, nTries,
          backlog, wbuf, done>>

\* The caller's buffer of a write: every byte holds the task's id.
Src(k) == [j \in 0 .. Acc[k].n * Acc[k].l - 1 |-> k]

Init ==
    /\ toAdd = Order
    /\ queue = <<>>
    /\ shutdown = FALSE
    /\ slot = [t \in Threads |-> Null]
    /\ isw = [t \in Threads |-> FALSE]
    /\ file = InitFile
    /\ pc = [t \in Threads |-> "retry"]
    /\ cur = [t \in Threads |-> Null]
    /\ from = [t \in Threads |-> "queue"]
    /\ idx = [t \in Threads |-> 0]
    /\ nTries = [t \in Threads |-> 0]
    /\ backlog = [t \in Threads |-> <<>>]
    /\ wbuf = [t \in Threads |-> <<>>]
    /\ done = {}

\* add_read / add_write: push the next task and notify one thread.
Add ==
    /\ toAdd # <<>>
    /\ queue' = Append(queue, Head(toAdd))
    /\ toAdd' = Tail(toAdd)
    /\ UNCHANGED <<shutdown, slot, isw, file, pc, cur, from, idx, nTries,
                   backlog, wbuf, done>>

\* ~IoExecutor: store shutdown and wake every thread, once nothing more is
\* added.
Shutdown ==
    /\ toAdd = <<>>
    /\ ~shutdown
    /\ shutdown' = TRUE
    /\ UNCHANGED <<toAdd, queue, slot, isw, file, pc, cur, from, idx, nTries,
                   backlog, wbuf, done>>

\* set_task: thread t takes task k and announces it; the conflict loop
\* starts at thread 0.
Announce(t, k, src) ==
    /\ cur' = [cur EXCEPT ![t] = k]
    /\ from' = [from EXCEPT ![t] = src]
    /\ slot' = [slot EXCEPT ![t] = k]
    /\ isw' = [isw EXCEPT ![t] = Acc[k].write]
    /\ idx' = [idx EXCEPT ![t] = 0]
    /\ pc' = [pc EXCEPT ![t] = "check"]

\* The backlog loop: pop the backlog's head and announce it.
BacklogPop(t) ==
    /\ pc[t] = "retry"
    /\ nTries[t] > 0
    /\ nTries' = [nTries EXCEPT ![t] = @ - 1]
    /\ backlog' = [backlog EXCEPT ![t] = Tail(@)]
    /\ Announce(t, Head(backlog[t]), "backlog")
    /\ UNCHANGED <<toAdd, queue, shutdown, file, wbuf, done>>

\* Mutant: a task from tsk_queue is taken without set_task.
QueuePopUnannounced(t) ==
    /\ pc[t] = "retry"
    /\ nTries[t] = 0
    /\ queue # <<>>
    /\ queue' = Tail(queue)
    /\ cur' = [cur EXCEPT ![t] = Head(queue)]
    /\ from' = [from EXCEPT ![t] = "queue"]
    /\ idx' = [idx EXCEPT ![t] = 0]
    /\ pc' = [pc EXCEPT ![t] = "check"]
    /\ UNCHANGED <<toAdd, shutdown, nTries, backlog, file, wbuf, done, slot, isw>>

\* Once the backlog loop is over: pop tsk_queue and announce the task.
QueuePop(t) ==
    /\ pc[t] = "retry"
    /\ nTries[t] = 0
    /\ queue # <<>>
    /\ queue' = Tail(queue)
    /\ Announce(t, Head(queue), "queue")
    /\ UNCHANGED <<toAdd, shutdown, nTries, backlog, file, wbuf, done>>

\* tsk_queue.pop() returned nullptr: exit on shutdown with an empty backlog,
\* else wait_for_push_notify (woken by a push or its timeout) and go round
\* the loop again.
QueueEmpty(t) ==
    /\ pc[t] = "retry"
    /\ nTries[t] = 0
    /\ queue = <<>>
    /\ IF shutdown /\ backlog[t] = <<>>
       THEN pc' = [pc EXCEPT ![t] = "exit"] /\ UNCHANGED nTries
       ELSE nTries' = [nTries EXCEPT ![t] = Len(backlog[t])] /\ UNCHANGED pc
    /\ UNCHANGED <<toAdd, queue, shutdown, slot, isw, file, cur, from, idx,
                   backlog, wbuf, done>>

\* The end of one pass of the while loop for a task from tsk_queue: the next
\* pass sets n_tries to the backlog's size.  A backlog task continues the
\* backlog loop.
NextPass(t, bl) ==
    /\ pc' = [pc EXCEPT ![t] = "retry"]
    /\ IF from[t] = "queue"
       THEN nTries' = [nTries EXCEPT ![t] = Len(bl)]
       ELSE UNCHANGED nTries

\* set_null
Clear(t) ==
    /\ slot' = [slot EXCEPT ![t] = Null]
    /\ isw' = [isw EXCEPT ![t] = FALSE]

\* Mutant: the conflict loop stops before the last thread.
CheckSkipLast(t) ==
    /\ pc[t] = "check"
    /\ IF idx[t] = NThreads - 1
       THEN pc' = [pc EXCEPT ![t] = "exec"] /\ UNCHANGED idx
       ELSE IF idx[t] # t /\ isw[t] /\ isw[idx[t]]
            THEN pc' = [pc EXCEPT ![t] = "overlap"] /\ UNCHANGED idx
            ELSE idx' = [idx EXCEPT ![t] = @ + 1] /\ UNCHANGED pc
    /\ UNCHANGED <<toAdd, queue, shutdown, slot, isw, file, cur, from, nTries,
                   backlog, wbuf, done>>

(***************************************************************************)
(* The conflict loop over i = 0 .. n_threads - 1: thread i is skipped if   *)
(* it is t, or unless both is_writes[t] and is_writes[i] hold (an atomic   *)
(* load without the mutex); otherwise overlap(t, i) decides.               *)
(***************************************************************************)
Check(t) ==
    /\ pc[t] = "check"
    /\ IF idx[t] = NThreads
       THEN pc' = [pc EXCEPT ![t] = "exec"] /\ UNCHANGED idx
       ELSE IF idx[t] # t /\ isw[t] /\ isw[idx[t]]
            THEN pc' = [pc EXCEPT ![t] = "overlap"] /\ UNCHANGED idx
            ELSE idx' = [idx EXCEPT ![t] = @ + 1] /\ UNCHANGED pc
    /\ UNCHANGED <<toAdd, queue, shutdown, slot, isw, file, cur, from, nTries,
                   backlog, wbuf, done>>

\* IoExecutor::overlap(t, i): under both slot mutexes, no conflict if either
\* slot is null, else is_overlap in both directions.
Conflicts(a, b) ==
    a # Null /\ b # Null /\ (IsOverlap(Acc[a], Acc[b]) \/ IsOverlap(Acc[b], Acc[a]))

Overlap(t) ==
    /\ pc[t] = "overlap"
    /\ IF Conflicts(slot[t], slot[idx[t]])
       THEN pc' = [pc EXCEPT ![t] = "conflict"] /\ UNCHANGED idx
       ELSE /\ pc' = [pc EXCEPT ![t] = "check"]
            /\ idx' = [idx EXCEPT ![t] = @ + 1]
    /\ UNCHANGED <<toAdd, queue, shutdown, slot, isw, file, cur, from, nTries,
                   backlog, wbuf, done>>

\* Mutant: the backlog gets thread_tsks[t] after set_null has cleared it.
DeferClearedSlot(t) ==
    /\ pc[t] = "conflict"
    /\ Clear(t)
    /\ backlog' = [backlog EXCEPT ![t] = Append(@, slot'[t])]
    /\ cur' = [cur EXCEPT ![t] = Null]
    /\ NextPass(t, backlog'[t])
    /\ UNCHANGED <<toAdd, queue, shutdown, file, from, idx, wbuf, done>>

\* A conflict: set_null, push the task on the backlog, leave the loop.
Defer(t) ==
    /\ pc[t] = "conflict"
    /\ Clear(t)
    /\ backlog' = [backlog EXCEPT ![t] = Append(@, cur[t])]
    /\ cur' = [cur EXCEPT ![t] = Null]
    /\ NextPass(t, backlog'[t])
    /\ UNCHANGED <<toAdd, queue, shutdown, file, from, idx, wbuf, done>>

(***************************************************************************)
(* execute_task: write (one strip) or swrite, in two steps, since the      *)
(* reads of the partial sectors and the write-back are separate device     *)
(* calls; or read/sread, which leaves the file as it is.                   *)
(***************************************************************************)
TaskBuf(k, f) ==
    IF Acc[k].n = 1 THEN WriteBuf(f, Acc[k], Src(k), BufAl[k])
    ELSE SWriteBuf(f, Acc[k], Src(k), BufAl[k])

TaskOut(k, f, b) ==
    IF Acc[k].n = 1 THEN WriteOut(f, Acc[k], b)
    ELSE SWriteOut(f, Acc[k], b, BufAl[k])

Fetch(t) ==
    /\ pc[t] = "exec"
    /\ Acc[cur[t]].write
    /\ wbuf' = [wbuf EXCEPT ![t] = TaskBuf(cur[t], file)]
    /\ pc' = [pc EXCEPT ![t] = "writeback"]
    /\ UNCHANGED <<toAdd, queue, shutdown, slot, isw, file, cur, from, idx,
                   nTries, backlog, done>>

WriteBack(t) ==
    /\ pc[t] = "writeback"
    /\ file' = TaskOut(cur[t], file, wbuf[t])
    /\ wbuf' = [wbuf EXCEPT ![t] = <<>>]
    /\ pc' = [pc EXCEPT ![t] = "finish"]
    /\ UNCHANGED <<toAdd, queue, shutdown, slot, isw, cur, from, idx, nTries,
                   backlog, done>>

ReadTask(t) ==
    /\ pc[t] = "exec"
    /\ ~Acc[cur[t]].write
    /\ pc' = [pc EXCEPT ![t] = "finish"]
    /\ UNCHANGED <<toAdd, queue, shutdown, slot, isw, file, cur, from, idx,
                   nTries, backlog, wbuf, done>>

\* callback_fn(), then set_null and delete.
Finish(t) ==
    /\ pc[t] = "finish"
    /\ done' = done \cup {cur[t]}
    /\ Clear(t)
    /\ cur' = [cur EXCEPT ![t] = Null]
    /\ NextPass(t, backlog[t])
    /\ UNCHANGED <<toAdd, queue, shutdown, file, from, idx, backlog, wbuf>>

Thread(t) ==
    \/ BacklogPop(t) \/ QueuePop(t) \/ QueueEmpty(t)
    \/ Check(t) \/ Overlap(t) \/ Defer(t)
    \/ Fetch(t) \/ WriteBack(t) \/ ReadTask(t) \/ Finish(t)

Next == Add \/ Shutdown \/ \E t \in Threads : Thread(t)

\* Every I/O thread is scheduled; it never blocks for good, since
\* wait_for_push_notify returns at a push or its timeout.  The cache keeps
\* adding and eventually destroys the executor.
Fairness ==
    /\ WF_vars(Add)
    /\ WF_vars(Shutdown)
    /\ \A t \in Threads : WF_vars(Thread(t))

Spec == Init /\ [][Next]_vars /\ Fairness

-----------------------------------------------------------------------------
Writes == {k \in Tasks : Acc[k].write}
Running == {"exec", "writeback"}

TypeOK ==
    /\ slot \in [Threads -> Tasks \cup {Null}]
    /\ isw \in [Threads -> BOOLEAN]
    /\ pc \in [Threads -> {"retry", "check", "overlap", "conflict", "exec",
                           "writeback", "finish", "exit"}]
    /\ cur \in [Threads -> Tasks \cup {Null}]
    /\ idx \in [Threads -> 0 .. NThreads]
    /\ backlog \in [Threads -> Seq(Tasks)]
    /\ done \subseteq Tasks

\* spec.md section 4.2: no two I/O threads execute writes whose byte ranges
\* share a sector.  This is what announcing in thread_tsks before checking
\* the other slots is for.
NoConcurrentConflict ==
    \A t1, t2 \in Threads :
        (/\ t1 # t2
         /\ pc[t1] \in Running /\ pc[t2] \in Running
         /\ Acc[cur[t1]].write /\ Acc[cur[t2]].write)
        => ~RefOverlap(Acc[cur[t1]], Acc[cur[t2]])

\* spec.md scenario 3: once every task has run, the file holds what running
\* the writes one after another, in some order, leaves: no byte of a write
\* is lost to another write's read-modify-write of a shared sector, and no
\* byte outside the writes changes.
Serial(order) == FoldLeft(LAMBDA f, k : Intended(f, Acc[k], Src(k)), InitFile, order)

Serializable ==
    done = Tasks => \E order \in SetToSeqs(Writes) : file = Serial(order)

\* Every task that is added is eventually executed: a deferred task is
\* retried until it runs.
AllExecuted == <>(done = Tasks)

=============================================================================
