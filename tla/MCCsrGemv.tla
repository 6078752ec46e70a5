------------------------------ MODULE MCCsrGemv ------------------------------
(***************************************************************************)
(* csrgemv over every sparse matrix of 1-4 rows, 1-2 columns and at most   *)
(* two non-zeros per row: the blocks of both drivers, and the transpose    *)
(* driver's tasks adding into c at once.                                   *)
(***************************************************************************)
EXTENDS CsrGemvTasks

MCCalls ==
    {LET csr == CsrOf(x.m, x.rows) IN [m |-> x.m, n |-> x.n, ia |-> csr.ia, ja |-> csr.ja] :
       x \in Matrices(4, 2, 2)}

(* csrgemv with trans_a = 'N': the tasks together write every element of  *)
(* c exactly once, each with its own row's result and none with a padding *)
(* row's zero, nothing past c[m - 1], and no task reads ia past ia[m].    *)
(* The clamp of a_nrows, the padding to dim and the temporary when dim    *)
(* exceeds the block must agree for this.                                 *)
(* call never changes, so the check is made in the states where no task   *)
(* has started.                                                           *)
GemvNoTransPlaced ==
    (\A t \in Tasks : pc[t] = "mkl") =>
    LET ts == {NoTransTask(call, b) : b \in FillBlocks(call.ia, call.m, MinBlk, RBlkRm)}
    IN /\ UNION {t.out : t \in ts} = {<<r, r>> : r \in 0 .. call.m - 1}
       /\ \A t1, t2 \in ts : t1 # t2 => {x[1] : x \in t1.out} \cap {x[1] : x \in t2.out} = {}
       /\ \A t \in ts : t.iaRead \subseteq 0 .. call.m

(* csrgemv with trans_a = 'T': once every task has finished, c[i] holds   *)
(* every non-zero of column i times the b entry of its row, each once:    *)
(* the adds of tasks running at once under sync_mut lose nothing, and     *)
(* v_in = b + start_row pairs each row with its own b entry.              *)
GemvTransResult ==
    (\A t \in Tasks : pc[t] = "done") =>
        out = [i \in 0 .. call.n - 1 |->
                 {<<p, RowOf(call.ia, call.m, p)>> : p \in {q \in DOMAIN call.ja : call.ja[q] = i}}]

(* csrgemv_trans_inmem's sleep_wait_for_complete returns: every task gets *)
(* sync_mut in turn and finishes.                                         *)
GemvTransDone == <>(\A t \in Tasks : pc[t] = "done")
=============================================================================
