----------------------------- MODULE GemmTiling -----------------------------
(***************************************************************************)
(* How gemm (src/src/blas/gemm.cpp) cuts C = alpha * op(A) * op(B) +       *)
(* beta * C into GemmTasks (src/include/tasks/gemm_task.h), and what each  *)
(* task's mkl_gemm call computes.  Dimension d of MKN = <<m, k, n>> is cut *)
(* into NUM_B[d] blocks; task [l][i][j] multiplies row block i of op(A) by *)
(* column block j of op(B) over inner block l.  Each of its three operands *)
(* is fetched by the cache as one StrideInfo into a packed buffer whose    *)
(* leading dimension is the block's stored column count, and mkl_gemm      *)
(* addresses that buffer in the call's order and transposes.  Positions    *)
(* are element offsets into a matrix's storage.                            *)
(***************************************************************************)
EXTENDS Integers, FiniteSets

CONSTANTS
    GemmBlk,    \* GEMM_BLK_SIZE
    SecElems    \* SECTOR_LEN / sizeof(FPTYPE)

ASSUME GemmBlk \in Nat \ {0} /\ SecElems \in Nat \ {0}

Dims == 0 .. 2          \* the dimensions m, k, n, and the matrices A, B, C
Overflow == -1          \* an element read past the end of a packed buffer

MinU(x, y) == IF x < y THEN x ELSE y
MaxU(x, y) == IF x < y THEN y ELSE x

\* ROW[i], COL[i]: which dimensions index the stored rows and columns of
\* matrix i, swapped when the matrix is stored transposed to row-major.
RowCol(call) ==
    LET colMajor == call.ord = "C"
        swapMat  == <<(call.ta = "T") # colMajor, (call.tb = "T") # colMajor, colMajor>>
        base(i)  == <<MinU(i, (i + 1) % 3), MaxU(i, (i + 1) % 3)>>
    IN [i \in Dims |-> IF swapMat[i + 1] THEN <<base(i)[2], base(i)[1]>> ELSE base(i)]

ROW(call, i) == RowCol(call)[i][1]
COL(call, i) == RowCol(call)[i][2]

\* LDA[i]: 0 stands for the stored column count.
LDA(call, i) == IF call.lda[i] = 0 THEN call.mkn[COL(call, i)] ELSE call.lda[i]

MKN_B(call, d) == MinU(GemmBlk, call.mkn[d])

\* A remainder shorter than a sector is folded into the last block.
NUM_B(call, d) ==
    LET div == call.mkn[d] \div MKN_B(call, d)
    IN IF call.mkn[d] - div * MKN_B(call, d) < SecElems THEN div ELSE div + 1

\* Mutant: the last block sized like every other one.
IKJ_NUMNoTail(call, d, idx) == MKN_B(call, d)

\* The extent of block idx of dimension d.
IKJ_NUM(call, d, idx) ==
    IF idx = NUM_B(call, d) - 1 THEN call.mkn[d] - idx * MKN_B(call, d)
    ELSE MKN_B(call, d)

\* Mutant: beta reset to 1 only from the third inner block on.
TaskBetaLate(l, beta) == IF l > 1 THEN 1 ELSE beta

\* The beta task [l][.][.] is built with: the caller's for l = 0, then 1.
TaskBeta(l, beta) == IF l > 0 THEN 1 ELSE beta

\* The parents of task [l][i][j].
Parents(l, i, j) == IF l > 0 THEN {<<l - 1, i, j>>} ELSE {}

(* Task [l][i][j] as the triple loop of gemm builds it: its block extents, *)
(* and per matrix the StrideInfo of its fetch (offset o, n strips of l     *)
(* elements, s apart) and the leading dimension of its packed buffer.      *)
Task(call, l, i, j) ==
    LET idx == <<i, l, j>>
        num == [d \in Dims |-> IKJ_NUM(call, d, idx[d + 1])]
        Si(mat) == [o |-> idx[ROW(call, mat) + 1] * MKN_B(call, ROW(call, mat)) * LDA(call, mat)
                           + idx[COL(call, mat) + 1] * MKN_B(call, COL(call, mat)),
                    n |-> num[ROW(call, mat)], l |-> num[COL(call, mat)],
                    s |-> LDA(call, mat)]
    IN [id |-> <<l, i, j>>, num |-> num, si |-> [mat \in Dims |-> Si(mat)],
        ld |-> [mat \in Dims |-> num[COL(call, mat)]],
        beta |-> TaskBeta(l, call.beta), parents |-> Parents(l, i, j)]

GemmTasks(call) ==
    {Task(call, l, i, j) : l \in 0 .. NUM_B(call, 1) - 1,
                           i \in 0 .. NUM_B(call, 0) - 1,
                           j \in 0 .. NUM_B(call, 2) - 1}

\* Where a BLAS routine finds element (x, y) of op(X) in storage of
\* leading dimension ld.
BlasPos(ord, trans, x, y, ld) ==
    LET r == IF trans = "T" THEN y ELSE x
        c == IF trans = "T" THEN x ELSE y
    IN IF ord = "R" THEN r * ld + c ELSE r + c * ld

\* Element p of a packed buffer fetched with StrideInfo w.
Global(w, p) == IF p < w.n * w.l THEN w.o + (p \div w.l) * w.s + (p % w.l) ELSE Overflow

(* GemmTask::execute: mkl_gemm adds op(A)(r, q) * op(B)(q, c) into C(r, c) *)
(* for every r < a_nrows, c < b_ncols, q < a_ncols; as positions of A, B   *)
(* and C after the cache's fetch and write-back.                           *)
Products(call, t) ==
    {<<Global(t.si[2], BlasPos(call.ord, "N", r, c, t.ld[2])),
       Global(t.si[0], BlasPos(call.ord, call.ta, r, q, t.ld[0])),
       Global(t.si[1], BlasPos(call.ord, call.tb, q, c, t.ld[1]))>> :
        r \in 0 .. t.num[0] - 1, c \in 0 .. t.num[2] - 1, q \in 0 .. t.num[1] - 1}

(* mkl_gemm's effect on one element of C: what it holds is scaled by the  *)
(* task's beta, then alpha times each of the task's products there (terms, *)
(* pairs <<A pos, B pos>>) is added.  The value of an element is           *)
(* [c0 |-> the power of the caller's beta on C's initial value, adds |->   *)
(* the set of <<task id, term, power of beta on that add>>]; a beta of 1   *)
(* scales nothing.                                                         *)
GemmExec(t, terms, v) ==
    LET sc == IF t.beta = 1 THEN 0 ELSE 1
    IN [c0   |-> v.c0 + sc,
        adds |-> {<<x[1], x[2], x[3] + sc>> : x \in v.adds} \cup {<<t.id, x, 0>> : x \in terms}]

\* The C positions a task writes back.
CWrites(call, t) == {Global(t.si[2], p) : p \in 0 .. t.si[2].n * t.si[2].l - 1}

(***************************************************************************)
(* Reference: the product by definition, in the caller's own storage.     *)
(***************************************************************************)
\* The caller's transpose of matrix mat, and the default leading dimension
\* of its storage: its stored column count in the call's order.
Trans(c, mat) == <<c.ta, c.tb, "N">>[mat + 1]

StoredCols(c, mat) ==
    LET opDims == <<<<0, 1>>, <<1, 2>>, <<0, 2>>>>[mat + 1]
        stored == IF Trans(c, mat) = "T" THEN <<opDims[2], opDims[1]>> ELSE opDims
    IN IF c.ord = "R" THEN c.mkn[stored[2]] ELSE c.mkn[stored[1]]

RefPos(call, mat, x, y) ==
    BlasPos(call.ord, Trans(call, mat), x, y,
            IF call.lda[mat] = 0 THEN StoredCols(call, mat) ELSE call.lda[mat])

RefProducts(call) ==
    {<<RefPos(call, 2, x, y), RefPos(call, 0, x, z), RefPos(call, 1, z, y)>> :
        x \in 0 .. call.mkn[0] - 1, y \in 0 .. call.mkn[2] - 1, z \in 0 .. call.mkn[1] - 1}
=============================================================================
