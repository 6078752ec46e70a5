--------------------------- MODULE MCConcurrency ---------------------------
(***************************************************************************)
(* Checks three concurrent parts of the runtime in one run, each in its    *)
(* own behaviours:                                                         *)
(*   - the I/O executor's threads on the MCIoExecutor workload ("io");     *)
(*   - one call of submit_and_reap against the device ("aio");             *)
(*   - the scheduler's CompletionRecord on the MCCompletionRecord kernel   *)
(*     ("crec");                                                           *)
(*   - csrgemv's tasks on every CSR matrix of MCCsrGemv ("gemv").           *)
(* mode is chosen in the initial state and never changes; the parts not   *)
(* selected stay in their initial states.  Each part's fairness is the    *)
(* one its module states, on its actions taken in its own mode.           *)
(***************************************************************************)
EXTENDS Naturals, TLC

CONSTANTS
    SectorLen, MaxChunk, Garbage, Null, fa, w1, w2, w3, r1, Old, NThreads,
    Tasks, Order, Acc, BufAl, InitFile,
    NReq, NRetries,
    StartSize, NTasks, TaskParents,
    MaxNnzs, MinBlk, RBlkRm, CBlkRm, RBlkCm, CBlkCm

VARIABLES
    mode,
    toAdd, queue, shutdown, slot, isw, file, pc, cur, from, idx, nTries,
    backlog, wbuf, done,
    apc, tries, inflight, ring,
    rec, nAdded, wait, running, cq, cdone, dpc,
    call, out, owner, gpc, vout, gidx, tmp

ioVars  == <<toAdd, queue, shutdown, slot, isw, file, pc, cur, from, idx,
             nTries, backlog, wbuf, done>>
aioVars == <<apc, tries, inflight, ring>>
crVars  == <<rec, nAdded, wait, running, cq, cdone, dpc>>
gvVars  == <<call, out, owner, gpc, vout, gidx, tmp>>
allVars == <<mode, toAdd, queue, shutdown, slot, isw, file, pc, cur, from, idx,
             nTries, backlog, wbuf, done, apc, tries, inflight, ring, rec,
             nAdded, wait, running, cq, cdone, dpc, call, out, owner, gpc,
             vout, gidx, tmp>>

IE == INSTANCE MCIoExecutor
AS == INSTANCE AioSubmit WITH pc <- apc
CR == INSTANCE MCCompletionRecord WITH done <- cdone
SM == INSTANCE SparseMatrix
\* The calls of MCCsrGemv: every CSR matrix of 1-4 rows and 1-2 columns.
GemvCalls ==
    {LET csr == SM!CsrOf(x.m, x.rows) IN [m |-> x.m, n |-> x.n, ia |-> csr.ia, ja |-> csr.ja] :
       x \in SM!Matrices(4, 2, 2)}
GV == INSTANCE MCCsrGemv WITH pc <- gpc, idx <- gidx, Calls <- GemvCalls

(* The workloads of MCIoExecutor.cfg and MCCompletionRecord.cfg, written  *)
(* out here: a constant of an instance cannot be given a value through    *)
(* that same instance.                                                    *)
IoStrip(w, o, l) == [fop |-> fa, write |-> w, o |-> o, l |-> l, n |-> 1, s |-> l]
IoAcc ==
    w1 :> IoStrip(TRUE, 0, 3) @@ w2 :> IoStrip(TRUE, 3, 2)
    @@ w3 :> [fop |-> fa, write |-> TRUE, o |-> 5, l |-> 1, n |-> 2, s |-> 2]
    @@ r1 :> IoStrip(FALSE, 1, 4)
IoTasks   == {w1, w2, w3, r1}
IoOrder   == <<w1, r1, w2, w3>>
IoBufAl   == [k \in IoTasks |-> k # w2]
IoFile    == [p \in 0 .. 7 |-> Old]
CrParents == [id \in 0 .. 3 |-> IF id = 3 THEN <<2, 1>> ELSE <<>>]
\* The call the gemv part is fixed at in the other modes.
GemvIdle == [m |-> 1, n |-> 1, ia |-> [i \in 0 .. 1 |-> 0], ja |-> [p \in {} |-> 0]]

Init ==
    /\ mode \in {"io", "aio", "crec", "gemv"}
    /\ IE!Init /\ AS!Init /\ CR!Init /\ GV!Init
    /\ mode # "gemv" => call = GemvIdle

\* A step of one part, the other parts and mode unchanged.
IoStep(A)  == mode = "io" /\ A /\ UNCHANGED <<mode, aioVars, crVars, gvVars>>
AioStep(A) == mode = "aio" /\ A /\ UNCHANGED <<mode, ioVars, crVars, gvVars>>
CrStep(A)  == mode = "crec" /\ A /\ UNCHANGED <<mode, ioVars, aioVars, gvVars>>
GvStep(A)  == mode = "gemv" /\ A /\ UNCHANGED <<mode, ioVars, aioVars, crVars>>

Next == IoStep(IE!Next) \/ AioStep(AS!Next) \/ CrStep(CR!Next) \/ GvStep(GV!Next)

Fairness ==
    /\ WF_allVars(IoStep(IE!Add))
    /\ WF_allVars(IoStep(IE!Shutdown))
    /\ \A t \in IE!Threads : WF_allVars(IoStep(IE!Thread(t)))
    /\ \A r \in AS!Reqs : WF_allVars(AioStep(AS!Complete(r)))
    /\ WF_allVars(AioStep(AS!Submit \/ AS!Exhausted))
    /\ WF_allVars(AioStep(AS!GetEvents))
    /\ WF_allVars(CrStep(CR!Dispatcher))
    /\ WF_allVars(CrStep(CR!AddTask))
    /\ \A t \in CR!Ids : WF_allVars(CrStep(CR!Run(t)))
    /\ \A t \in GV!AnyTask : WF_allVars(GvStep(t \in GV!Tasks /\ GV!Step(t)))

Spec == Init /\ [][Next]_allVars /\ Fairness

\* Every variable of each of the three typed parts has its type.
TypeOK == IE!TypeOK /\ AS!TypeOK /\ CR!TypeOK

\* IoExecutor: two threads never both execute writes that share a sector.
NoConcurrentConflict == IE!NoConcurrentConflict

\* IoExecutor: once every task is done, the file is what some serial order
\* of the writes leaves.
Serializable == IE!Serializable

ParentsFirst == CR!ParentsFirst

\* Every task of a kernel whose ids stay below twice the record's start
\* size completes: each mark_complete is seen by the filter.
AllTasksComplete == <>(mode # "crec" \/ cdone = CR!Ids)

(* csrgemv with trans_a = 'N': the tasks together write every element of  *)
(* c exactly once with its own row's result, nothing past c[m - 1], and   *)
(* read no row offset past ia[m] (a_nrows clamped, padding to dim, and    *)
(* the temporary when dim exceeds the block).                             *)
GemvNoTransPlaced == GV!GemvNoTransPlaced

(* csrgemv with trans_a = 'T': once every task has finished, c[i] holds   *)
(* every non-zero of column i times the b entry of its row, each once:    *)
(* the adds of tasks running at once under sync_mut lose nothing.         *)
GemvTransResult == GV!GemvTransResult

\* csrgemv_trans_inmem's wait returns: every task gets sync_mut in turn.
GemvTransLive == <>(mode # "gemv" \/ \A t \in GV!Tasks : gpc[t] = "done")
=============================================================================
