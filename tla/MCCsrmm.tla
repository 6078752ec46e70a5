------------------------------ MODULE MCCsrmm ------------------------------
(***************************************************************************)
(* Checks the csrmm drivers over every small sparse matrix: m rows, k      *)
(* columns of C, and up to MaxRowNnz non-zeros per row of A.  The state is *)
(* one call of a driver; it never changes, so each reachable state is one  *)
(* input.                                                                  *)
(***************************************************************************)
EXTENDS CsrmmTasks

CONSTANT Paths    \* the drivers checked

VARIABLES path, m, k, ia

MaxM == 5
MaxK == 3
MaxRowNnz == 2

\* CSR row offsets with ia[0] = 0 and nnz[i] non-zeros in row i.
RECURSIVE Offsets(_, _)
Offsets(nnz, i) == IF i = 0 THEN 0 ELSE Offsets(nnz, i - 1) + nnz[i]

Init ==
    /\ path \in Paths
    /\ m \in 1 .. MaxM
    /\ k \in 1 .. MaxK
    /\ ia \in {[i \in 0 .. m |-> Offsets(nnz, i)] : nnz \in [1 .. m -> 0 .. MaxRowNnz]}

Next == UNCHANGED <<path, m, k, ia>>

Spec == Init /\ [][Next]_<<path, m, k, ia>>

(* After the tasks of a csrmm driver have run, every element of C holds    *)
(* its own result, written by exactly one task, nothing is written outside *)
(* C, and no task reads the row offsets past ia[m].  The row blocks of     *)
(* get_next_blk_size, the column blocks, the StrideInfo each task declares *)
(* and the leading dimensions passed to mkl_csrmm must agree for this.     *)
CsrmmResult ==
    LET ts == CsrmmTaskSet(path, ia, m, k)
    IN /\ UNION {t.out : t \in ts} = Product(path, m, k)
       /\ \A t1, t2 \in ts : t1 # t2 =>
             {x[1] : x \in t1.out} \cap {x[1] : x \in t2.out} = {}
       /\ \A t \in ts : t.iaRead \subseteq 0 .. m
=============================================================================
