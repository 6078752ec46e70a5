----------------------------- MODULE CsrCscTasks -----------------------------
(***************************************************************************)
(* How csrcsc (src/src/blas/csrcsc.cpp) transposes an m x n CSR matrix     *)
(* into CSR form of its transpose (src/include/tasks/csrcsc_task.h).       *)
(*   1. The rows are cut into blocks by fill_blocks (min 10 rows); a       *)
(*      BlockCsrCscTask transposes each block with mkl_csrcsc into its own *)
(*      flash buffers and its own n + 1 column offsets.                    *)
(*   2. The driver sums the blocks' column counts into ia_tr (a prefix     *)
(*      sum) and cuts the n rows of the transpose into column blocks.      *)
(*   3. A BlockMergeTask per column block copies, row by row of the        *)
(*      transpose and block by block, each block's entries into ja_tr and  *)
(*      a_tr.                                                              *)
(* The harness gives each non-zero its position p in ja as its value, so  *)
(* a_tr must hold p where ja_tr holds p's row.                            *)
(***************************************************************************)
EXTENDS CsrmmTasks, SparseMatrix, Sequences
LOCAL INSTANCE SequencesExt

CONSTANTS
    CscMinBlk,   \* the min_blk_size csrcsc passes to fill_blocks (10)
    CscRBlk,     \* CSRCSC_RBLK_SIZE
    CscCBlk      \* CSRCSC_CBLK_SIZE

\* The content of a position of ja_tr or a_tr that nothing wrote.
Unwritten == -2

ASSUME \A x \in {CscMinBlk, CscRBlk, CscCBlk} : x \in Nat \ {0}

\* A set of blocks [start, size] in the order of their starts.
InOrder(blks) == Ranked(blks, LAMBDA x, y : x.start < y.start)

\* csrcsc's own fill_blocks: get_next_blk_size from cur_start until n_rows.
CscFillBlocks(offs, nrows, maxSize) == InOrder(FillBlocks(offs, nrows, CscMinBlk, maxSize))

\* Entries ordered by column, then by row: the order of mkl_csrcsc's output.
ColMajor(x, y) == x.col < y.col \/ (x.col = y.col /\ x.row < y.row)

\* Mutant: the transposed block's indices left relative to the block.
BlockCsrCscNoShift(ia, ja, a, m, n, blk) ==
    LET ps     == ia[blk.start] .. ia[blk.start + blk.size] - 1
        ent    == {[col |-> ja[p], row |-> RowOf(ia, m, p) - blk.start, val |-> a[p]] : p \in ps}
        sorted == Ranked(ent, ColMajor)
    IN [offs |-> [c \in 0 .. n |-> Cardinality({e \in ent : e.col < c})],
        idxs |-> [q \in 0 .. Len(sorted) - 1 |-> sorted[q + 1].row],
        vals |-> [q \in 0 .. Len(sorted) - 1 |-> sorted[q + 1].val]]

(* BlockCsrCscTask: the block's rows start .. start + blk_size - 1 (read   *)
(* through A_blk.offs = ia + start), transposed by mkl_csrcsc with rows    *)
(* counted from the block's start, then shifted by A_blk.start; the first  *)
(* A_cols + 1 output offsets are copied into A_tr_blk.offs.                *)
BlockCsrCsc(ia, ja, a, m, n, blk) ==
    LET ps     == ia[blk.start] .. ia[blk.start + blk.size] - 1
        ent    == {[col |-> ja[p], row |-> RowOf(ia, m, p) - blk.start, val |-> a[p]] : p \in ps}
        sorted == Ranked(ent, ColMajor)
    IN [offs |-> [c \in 0 .. n |-> Cardinality({e \in ent : e.col < c})],
        idxs |-> [q \in 0 .. Len(sorted) - 1 |-> sorted[q + 1].row + blk.start],
        vals |-> [q \in 0 .. Len(sorted) - 1 |-> sorted[q + 1].val]]

(* The driver's ia_tr: each column's count summed over the blocks, then    *)
(* the prefix sum.                                                         *)
IaTr(trs, n) ==
    LET cnt(c) == FoldLeft(LAMBDA acc, t : acc + t.offs[c] - t.offs[c - 1], 0, trs)
        RECURSIVE Prefix(_)
        Prefix(i) == IF i = 0 THEN 0 ELSE Prefix(i - 1) + cnt(i)
    IN [c \in 0 .. n |-> Prefix(c)]

\* BlockMergeTask's constructor: the row blocks with a non-zero in the
\* column block, the others ignored ("ignoring 0-block in merge").
MergeBlocks(trs, cb) ==
    SelectSeq(trs, LAMBDA t : t.offs[cb.start + cb.size] - t.offs[cb.start] # 0)

\* Mutant: fill_offset not advanced past the earlier blocks' entries.
FillOffsetNoPrev(iaTr, bs, i, c) == iaTr[c]

\* fill_offset of block i in row c: the row's start plus what the blocks
\* before it copied into the row.
FillOffset(iaTr, bs, i, c) ==
    iaTr[c] + FoldLeft(LAMBDA acc, t : acc + t.offs[c + 1] - t.offs[c], 0, SubSeq(bs, 1, i - 1))

(* BlockMergeTask::execute: for every row c of the column block and every  *)
(* block, memcpy the block's entries of row c (from offs[c]) to ja_tr and  *)
(* a_tr at the fill offset, as <<position, row, value>>.                   *)
Merge(iaTr, trs, cb) ==
    LET bs == MergeBlocks(trs, cb)
        Row(i, c) ==
            {<<FillOffset(iaTr, bs, i, c) + k, bs[i].idxs[bs[i].offs[c] + k], bs[i].vals[bs[i].offs[c] + k]>> :
               k \in 0 .. bs[i].offs[c + 1] - bs[i].offs[c] - 1}
    IN UNION {Row(i, c) : c \in cb.start .. cb.start + cb.size - 1, i \in 1 .. Len(bs)}

\* The driver's first loop: a BlockCsrCscTask per row block, in order.
TransposeBlocks(ia, ja, a, m, n, rbs) == [i \in 1 .. Len(rbs) |-> BlockCsrCsc(ia, ja, a, m, n, rbs[i])]

\* The driver's second loop: a BlockMergeTask per column block.
MergeAll(iaTr, trs, cbs) == UNION {Merge(iaTr, trs, cbs[j]) : j \in 1 .. Len(cbs)}

\* Every block ends within the rows it cuts: A_blk.offs[blk_size] and
\* ia_ptr[rend] (ia_tr_ptr[cstart + cblk_size]) read inside the array.
Fits(blks, nrows) == \A i \in 1 .. Len(blks) : blks[i].start + blks[i].size <= nrows

(* csrcsc: read ia, transpose the row blocks, sum ia_tr, cut and merge the *)
(* column blocks, write ia_tr.  fits is FALSE when a block would read an  *)
(* offset array past its end, and nothing further is computed.            *)
Csrcsc(ia, ja, a, m, n) ==
    LET rbs == CscFillBlocks(ia, m, CscRBlk)
    IN IF ~Fits(rbs, m) THEN [fits |-> FALSE] ELSE
    LET trs == TransposeBlocks(ia, ja, a, m, n, rbs)
        iaT == IaTr(trs, n)
        cbs == CscFillBlocks(iaT, n, CscCBlk)
    IN IF ~Fits(cbs, n) THEN [fits |-> FALSE] ELSE
    LET out == MergeAll(iaT, trs, cbs)
        \* A position no merge writes keeps the flash buffer's old content.
        At(q) == IF \E x \in out : x[1] = q THEN CHOOSE x \in out : x[1] = q
                 ELSE <<q, Unwritten, Unwritten>>
    IN [fits |-> TRUE, ia |-> iaT,
        ja |-> [q \in 0 .. iaT[n] - 1 |-> At(q)[2]],
        a  |-> [q \in 0 .. iaT[n] - 1 |-> At(q)[3]]]
=============================================================================
