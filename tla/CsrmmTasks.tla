----------------------------- MODULE CsrmmTasks -----------------------------
(***************************************************************************)
(* How csrmm (src/src/blas/csrmm.cpp) cuts C = A * B into tasks, and where *)
(* each task's results end up in C (src/include/tasks/csrmm_task.h).  A is *)
(* m x n in CSR form with row offsets ia[0..m]; B is n x k and C is m x k, *)
(* row-major or column-major.  Elements stand for FPTYPE values, so        *)
(* offsets and StrideInfo lengths are counted in elements.                 *)
(*                                                                         *)
(* The rows are cut into blocks by get_next_blk_size (include/blas_utils.h)*)
(* and the columns of C into blocks of CBlk columns.  A task computes its  *)
(* block with mkl_csrmm into a buffer of leading dimension ld; the buffer  *)
(* reaches C through the write StrideInfo the task declared (the cache     *)
(* scatters it with swrite) or, for the in-memory tasks, through           *)
(* anon::scatter.  A result is the pair <<row, col>> of C it belongs to.   *)
(***************************************************************************)
EXTENDS Integers

CONSTANTS
    MaxNnzs,          \* MAX_NNZS
    MinBlk,           \* SECTOR_LEN / sizeof(FPTYPE)
    RBlkRm, CBlkRm,   \* CSRMM_RM_RBLK_SIZE, CSRMM_RM_CBLK_SIZE
    RBlkCm, CBlkCm    \* CSRMM_CM_RBLK_SIZE, CSRMM_CM_CBLK_SIZE

ASSUME \A x \in {MinBlk, RBlkRm, CBlkRm, RBlkCm, CBlkCm} : x \in Nat \ {0}

MinU(a, b) == IF a < b THEN a ELSE b

\* ROUND_UP(x, y) / y
NumBlocks(x, y) == (x \div y) + (IF x % y # 0 THEN 1 ELSE 0)

(* get_next_blk_size: grow the block from min_size while rows remain and  *)
(* the rows taken so far hold at most MAX_NNZS non-zeros; cap at max_size. *)
GetNextBlkSize(ia, start, nrows, minSize, maxSize) ==
    LET RECURSIVE Grow(_)
        Grow(b) == IF b < nrows /\ ia[start + b] - ia[start] <= MaxNnzs
                   THEN Grow(b + 1) ELSE b
    IN MinU(Grow(minSize), maxSize)

(* fill_blocks, and the same loop written out in csrmm_no_trans_rm/_cm and *)
(* the in-memory drivers: the row blocks as a set of [start, size].        *)
RECURSIVE FillFrom(_, _, _, _, _)
FillFrom(ia, m, minSize, maxSize, cur) ==
    IF cur < m
    THEN LET size == GetNextBlkSize(ia, cur, m - cur, minSize, maxSize)
         IN {[start |-> cur, size |-> size]} \cup FillFrom(ia, m, minSize, maxSize, cur + size)
    ELSE {}

FillBlocks(ia, m, minSize, maxSize) == FillFrom(ia, m, minSize, maxSize, 0)

\* Start columns of the column blocks: j * col_blk_size, j < n_col_blks.
ColStarts(k, cbs) == {j * cbs : j \in 0 .. NumBlocks(k, cbs) - 1}

\* Element q of a gathered buffer for StrideInfo w, placed at offset w.o.
StripPos(w, q) == w.o + (q \div w.l) * w.s + (q % w.l)

Overflow == -1

(* The results a task leaves in C: mkl_csrmm writes the mk x nk block      *)
(* (rows r0.., columns c0..) into a buffer with leading dimension ld, and  *)
(* the buffer's first w.l * w.n elements are scattered by w.  A result     *)
(* past the buffer's end is written out of bounds (Overflow).              *)
Scattered(w, r0, c0, mk, nk, ld, rowMajor) ==
    LET Q(i, j) == IF rowMajor THEN i * ld + j ELSE j * ld + i
        Pos(i, j) == IF Q(i, j) < w.l * w.n THEN StripPos(w, Q(i, j)) ELSE Overflow
    IN {<<Pos(i, j), <<r0 + i, c0 + j>>>> : i \in 0 .. mk - 1, j \in 0 .. nk - 1}

Stride(o, l, n, s) == [o |-> o, l |-> l, n |-> n, s |-> s]

(* SimpleCsrmmRmTask over a SparseBlock of blk.size rows built by           *)
(* csrmm_no_trans_rm2 (A_blk.offs copies ia[start .. start + blk_size]).   *)
SimpleRmTask(m, k, blk, sc) ==
    LET bnc  == MinU(k - sc, CBlkRm)
        full == sc = 0 /\ bnc = k
        w    == IF full THEN Stride(blk.start * k + sc, blk.size * bnc, 1, 1)
                ELSE Stride(blk.start * k + sc, bnc, blk.size, k)
    IN [out    |-> Scattered(w, blk.start, sc, blk.size, bnc, bnc, TRUE),
        iaRead |-> blk.start .. blk.start + blk.size]

(* SimpleCsrmmCmTask from csrmm_no_trans_cm2: column-major C, ldc = m of   *)
(* the block.                                                              *)
SimpleCmTask(m, k, blk, sc) ==
    LET bnc == MinU(k - sc, CBlkCm)
        w   == Stride(m * sc + blk.start, blk.size, bnc, m)
    IN [out    |-> Scattered(w, blk.start, sc, blk.size, bnc, blk.size, FALSE),
        iaRead |-> blk.start .. blk.start + blk.size]

(* CsrmmRmTask from csrmm_no_trans_rm: a_nrows is clamped to the matrix.   *)
RmTask(m, k, blk, sc) ==
    LET anr == MinU(m - blk.start, blk.size)
        bnc == MinU(k - sc, CBlkRm)
        w   == Stride(blk.start * k + sc, bnc, anr - 1, k)
    IN [out    |-> Scattered(w, blk.start, sc, anr, bnc, bnc, TRUE),
        iaRead |-> blk.start .. blk.start + anr]

\* Mutant: a_nrows is the block size, not clamped to the rows left.
CmTaskUnclamped(m, k, blk, sc) ==
    LET anr == blk.size
        bnc == MinU(k - sc, CBlkCm)
        w   == Stride(sc * m + blk.start, anr, bnc, m)
    IN [out    |-> Scattered(w, blk.start, sc, anr, bnc, anr, FALSE),
        iaRead |-> blk.start .. blk.start + anr]

(* CsrmmCmTask from csrmm_no_trans_cm: column-major C at                   *)
(* c + start_col * a_rows + start_row, b_ncols strips of a_nrows.          *)
CmTask(m, k, blk, sc) ==
    LET anr == MinU(m - blk.start, blk.size)
        bnc == MinU(k - sc, CBlkCm)
        w   == Stride(sc * m + blk.start, anr, bnc, m)
    IN [out    |-> Scattered(w, blk.start, sc, anr, bnc, anr, FALSE),
        iaRead |-> blk.start .. blk.start + anr]

(* CsrmmCmInMemTask: mkl_csrmm into the temporary c_ptr (ldc = a_nrows),   *)
(* then anon::scatter with c_sinfo, the StrideInfo CsrmmCmTask declares:   *)
(* the results land where CsrmmCmTask's do.                               *)
CmInMemTask(m, k, blk, sc) == CmTask(m, k, blk, sc)

(* CsrmmRmInMemTask::execute passes this->c and ldc = b_ncols to          *)
(* mkl_csrmm; unless use_orig, it then scatters c_ptr, which mkl_csrmm did *)
(* not write, over the block with c_sinfo: Stale is its content (zeros   *)
(* or the gathered old C).  Later writes replace earlier ones.             *)
Stale == <<-1, -1>>

RmInMemTask(m, k, blk, sc) ==
    LET anr     == MinU(m - blk.start, blk.size)
        bnc     == MinU(k - sc, CBlkRm)
        c0      == blk.start * k + sc
        useOrig == sc = 0 /\ bnc = k
        mkl     == {<<c0 + i * bnc + j, <<blk.start + i, sc + j>>>> :
                      i \in 0 .. anr - 1, j \in 0 .. bnc - 1}
        scatter == {<<c0 + i * k + j, Stale>> : i \in 0 .. anr - 1, j \in 0 .. bnc - 1}
        hit     == {x[1] : x \in scatter}
    IN [out    |-> IF useOrig THEN mkl
                   ELSE scatter \cup {x \in mkl : x[1] \notin hit},
        iaRead |-> blk.start .. blk.start + anr]

(* The drivers: which row and column blocks, and which task class.        *)
RowMajor == {"rm2", "rm", "rm_im"}

CsrmmTaskSet(path, ia, m, k) ==
    CASE path = "rm2"   -> {SimpleRmTask(m, k, b, sc) : b \in FillBlocks(ia, m, MinBlk, RBlkRm), sc \in ColStarts(k, CBlkRm)}
      [] path = "cm2"   -> {SimpleCmTask(m, k, b, sc) : b \in FillBlocks(ia, m, MinBlk, RBlkCm), sc \in ColStarts(k, CBlkCm)}
      [] path = "rm"    -> {RmTask(m, k, b, sc) : b \in FillBlocks(ia, m, MinBlk, RBlkRm), sc \in ColStarts(k, CBlkRm)}
      [] path = "cm"    -> {CmTask(m, k, b, sc) : b \in FillBlocks(ia, m, MinBlk, RBlkCm), sc \in ColStarts(k, CBlkCm)}
      [] path = "cm_im" -> {CmInMemTask(m, k, b, sc) : b \in FillBlocks(ia, m, MinBlk, RBlkRm), sc \in ColStarts(k, CBlkCm)}
      [] path = "rm_im" -> {RmInMemTask(m, k, b, sc) : b \in FillBlocks(ia, m, MinBlk, RBlkRm), sc \in ColStarts(k, CBlkRm)}

(* Reference: C with every element holding its own result.                *)
CPos(path, m, k, r, c) == IF path \in RowMajor THEN r * k + c ELSE c * m + r

Product(path, m, k) ==
    {<<CPos(path, m, k, r, c), <<r, c>>>> : r \in 0 .. m - 1, c \in 0 .. k - 1}
=============================================================================
