----------------------------- MODULE CsrGemvTasks -----------------------------
(***************************************************************************)
(* csrgemv (src/src/blas/csrgemv.cpp) and its two in-memory task classes   *)
(* (src/include/tasks/csrgemv_task.h): c = A * b and c = A^T * b for a    *)
(* CSR matrix A of m rows and n columns whose ia is read into memory.      *)
(* Both drivers cut the rows with get_next_blk_size; each task pads its    *)
(* block to a dim x dim matrix for mkl_csrgemv.                            *)
(*   - CsrGemvNoTransInMem writes the block's rows of c (through a         *)
(*     temporary when dim exceeds the block).                              *)
(*   - CsrGemvTransInMem computes the block's share of A^T * b into        *)
(*     v_out and then, holding sync_mut, adds v_out[i] into c[i] for       *)
(*     i < n.  The tasks run on the compute threads at once; the adds are  *)
(*     the shared state.                                                   *)
(* A term <<p, x>> is non-zero p of A times b[x]; an element of c is the  *)
(* set of terms added into it.                                            *)
(***************************************************************************)
EXTENDS CsrmmTasks, SparseMatrix, Sequences

CONSTANT Calls    \* the calls: records [m, n, ia, ja] of CSR matrices

MaxU(a, b) == IF a < b THEN b ELSE a

\* Both drivers' loop over get_next_blk_size, in order of the blocks' starts.
GemvBlocks(c) ==
    Ranked(FillBlocks(c.ia, c.m, MinBlk, RBlkRm), LAMBDA x, y : x.start < y.start)

\* Mutant: the task's row count not clamped to the rows left.
NoTransTaskUnclamped(c, blk) ==
    LET aNrows == blk.size
        dim    == MaxU(aNrows, c.n)
        res(r) == IF r < aNrows THEN blk.start + r ELSE Overflow
    IN [out    |-> {<<blk.start + r, res(r)>> : r \in 0 .. (IF dim > aNrows THEN aNrows ELSE dim) - 1},
        iaRead |-> blk.start .. blk.start + aNrows]

(* CsrGemvNoTransInMem: a_nrows clamped to the rows left, ia copied for    *)
(* a_nrows + 1 rows and padded to dim + 1, and mkl_csrgemv's dim results   *)
(* written to c + start_row directly when dim = a_nrows, else through a    *)
(* temporary of which a_nrows are copied.  Result r is row start + r of   *)
(* A * b, or a padding row's zero (Overflow) past a_nrows.                 *)
NoTransTask(c, blk) ==
    LET aNrows == MinU(c.m - blk.start, blk.size)
        dim    == MaxU(aNrows, c.n)
        res(r) == IF r < aNrows THEN blk.start + r ELSE Overflow
    IN [out    |-> {<<blk.start + r, res(r)>> : r \in 0 .. (IF dim > aNrows THEN aNrows ELSE dim) - 1},
        iaRead |-> blk.start .. blk.start + aNrows]

(* CsrGemvTransInMem's v_out: over the block's blk_size (clamped) rows,    *)
(* with v_in = b + start_row copied into a zero-padded dim vector, column *)
(* i receives every non-zero p of column i times v_in[r] = b[start + r].   *)
TransVOut(c, blk) ==
    LET bs == MinU(c.m - blk.start, blk.size)
        ps == c.ia[blk.start] .. c.ia[blk.start + bs] - 1
    IN [i \in 0 .. c.n - 1 |->
          {<<p, blk.start + (RowOf(c.ia, c.m, p) - blk.start)>> : p \in {q \in ps : c.ja[q] = i}}]

-----------------------------------------------------------------------------
(* csrgemv_trans_inmem: memset(c, 0), one task per block added to the      *)
(* scheduler, and each task's execute on a compute thread.                 *)
VARIABLES
    call,     \* the call, unchanged
    out,      \* c: out[i] is the set of terms added into c[i]
    owner,    \* sync_mut: the task holding it, or 0
    pc,       \* pc[t]: "mkl", "run" (mkl_csrgemv done), "add", "store" or "done"
    vout,     \* vout[t]: task t's v_out
    idx,      \* idx[t]: the loop's i while task t holds the lock
    tmp       \* tmp[t]: c[i] as task t read it for c[i] += v_out[i]

gemvVars == <<call, out, owner, pc, vout, idx, tmp>>

Tasks == DOMAIN pc

Init ==
    /\ call \in Calls
    /\ out = [i \in 0 .. call.n - 1 |-> {}]
    /\ owner = 0
    /\ pc = [t \in 1 .. Len(GemvBlocks(call)) |-> "mkl"]
    /\ vout = [t \in Tasks |-> [i \in 0 .. call.n - 1 |-> {}]]
    /\ idx = [t \in Tasks |-> 0]
    /\ tmp = [t \in Tasks |-> {}]

\* execute up to the lock: mkl_csrgemv into the task's own v_out.
Compute(t) ==
    /\ pc[t] = "mkl"
    /\ vout' = [vout EXCEPT ![t] = TransVOut(call, GemvBlocks(call)[t])]
    /\ pc' = [pc EXCEPT ![t] = "run"]
    /\ UNCHANGED <<call, out, owner, idx, tmp>>

\* Mutant: the accumulation entered without taking sync_mut.
LockNoMutex(t) ==
    /\ pc[t] = "run"
    /\ pc' = [pc EXCEPT ![t] = "add"]
    /\ idx' = [idx EXCEPT ![t] = 0]
    /\ UNCHANGED <<call, vout, out, owner, tmp>>

\* std::unique_lock<std::mutex> lk(this->mut).
Lock(t) ==
    /\ pc[t] = "run" /\ owner = 0
    /\ owner' = t
    /\ pc' = [pc EXCEPT ![t] = "add"]
    /\ idx' = [idx EXCEPT ![t] = 0]
    /\ UNCHANGED <<call, vout, out, tmp>>

\* out[i] += v_out[i]: the load of out[i] ...
Load(t) ==
    /\ pc[t] = "add" /\ idx[t] < call.n
    /\ tmp' = [tmp EXCEPT ![t] = out[idx[t]]]
    /\ pc' = [pc EXCEPT ![t] = "store"]
    /\ UNCHANGED <<call, vout, out, owner, idx>>

\* ... and the store of the sum.
Store(t) ==
    /\ pc[t] = "store"
    /\ out' = [out EXCEPT ![idx[t]] = tmp[t] \cup vout[t][idx[t]]]
    /\ idx' = [idx EXCEPT ![t] = @ + 1]
    /\ pc' = [pc EXCEPT ![t] = "add"]
    /\ UNCHANGED <<call, vout, owner, tmp>>

\* Mutant: the lock kept after the loop.
UnlockKeep(t) ==
    /\ pc[t] = "add" /\ idx[t] = call.n
    /\ pc' = [pc EXCEPT ![t] = "done"]
    /\ UNCHANGED <<call, vout, out, owner, idx, tmp>>

\* The loop ends and lk goes out of scope.
Unlock(t) ==
    /\ pc[t] = "add" /\ idx[t] = call.n
    /\ owner' = 0
    /\ pc' = [pc EXCEPT ![t] = "done"]
    /\ UNCHANGED <<call, vout, out, idx, tmp>>

Step(t) == Compute(t) \/ Lock(t) \/ Load(t) \/ Store(t) \/ Unlock(t)

Next == \E t \in Tasks : Step(t)

\* Every task id of some call.
AnyTask == UNION {1 .. Len(GemvBlocks(c)) : c \in Calls}

\* The compute threads run every task they are given (weak fairness per task).
Spec == Init /\ [][Next]_gemvVars /\ \A t \in AnyTask : WF_gemvVars(t \in Tasks /\ Step(t))
=============================================================================
