------------------------------ MODULE MCCsrCsc ------------------------------
(***************************************************************************)
(* Checks csrcsc over every small sparse matrix: m rows, n columns, and    *)
(* at most MaxRowNnz non-zeros per row, given as the set of columns of     *)
(* each row.  The state is one call; it never changes.                     *)
(***************************************************************************)
EXTENDS CsrCscTasks

VARIABLES m, n, rowCols

MaxM == 4
MaxN == 3
MaxRowNnz == 2

Init ==
    \E x \in Matrices(MaxM, MaxN, MaxRowNnz) : m = x.m /\ n = x.n /\ rowCols = x.rows

Next == UNCHANGED <<m, n, rowCols>>

Spec == Init /\ [][Next]_<<m, n, rowCols>>

Csr == CsrOf(m, rowCols)
Ia == Csr.ia
Ja == Csr.ja
\* Each non-zero's value is its position in ja.
Av == [p \in DOMAIN Ja |-> p]

\* The transpose by definition: the non-zeros ordered by column, then row.
RefEntries == {[col |-> Ja[p], row |-> RowOf(Ia, m, p), val |-> p] : p \in 0 .. Ia[m] - 1}
RefSorted == Ranked(RefEntries, ColMajor)

(* Whenever every row block and every column block ends within the matrix *)
(* (so no offset array is read past its end), csrcsc's three phases       *)
(* together produce exactly the transpose: ia_tr holds each column's      *)
(* start, and position q of ja_tr and a_tr holds the row and the value of *)
(* the q-th non-zero in column order, written once.  Block transposes,    *)
(* the index shift, the prefix sum, the zero-block skip and the merge's   *)
(* fill offsets must all agree for this.                                  *)
CscCorrect ==
    LET rbs == CscFillBlocks(Ia, m, CscRBlk)
        trs == TransposeBlocks(Ia, Ja, Av, m, n, rbs)
        iaT == IaTr(trs, n)
        cbs == CscFillBlocks(iaT, n, CscCBlk)
    IN Fits(rbs, m) /\ Fits(cbs, n) =>
        /\ iaT = [c \in 0 .. n |-> Cardinality({e \in RefEntries : e.col < c})]
        /\ MergeAll(iaT, trs, cbs)
              = {<<q - 1, RefSorted[q].row, RefSorted[q].val>> : q \in 1 .. Len(RefSorted)}

(* The row blocks of fill_blocks end within the m rows, so the driver's   *)
(* ia_ptr[rend] and the task's A_blk.offs[blk_size] stay inside ia; and   *)
(* then the column blocks end within the n rows of the transpose.         *)
CscBlocksInBounds ==
    LET rbs == CscFillBlocks(Ia, m, CscRBlk)
    IN /\ Fits(rbs, m)
       /\ Fits(CscFillBlocks(IaTr(TransposeBlocks(Ia, Ja, Av, m, n, rbs), n), n, CscCBlk), n)

(* spec.md: csrcsc(csrcsc(A)) == A up to the order within a row.  csrcsc  *)
(* of the m x n matrix, then of its n x m transpose (when every block of  *)
(* both calls fits), gives back ia, and in each row the same columns with *)
(* the same values.                                                       *)
(* The two results are bound by quantifiers over singletons, so that each *)
(* call is evaluated once.                                                *)
CscRoundTrip ==
    \A t1 \in {Csrcsc(Ia, Ja, Av, m, n)} :
    \A t2 \in {IF t1.fits THEN Csrcsc(t1.ia, t1.ja, t1.a, n, m) ELSE t1} :
        LET RowEntries(ia, ja, a, r) == {<<ja[p], a[p]>> : p \in ia[r] .. ia[r + 1] - 1}
        IN t2.fits =>
            /\ t2.ia = Ia
            /\ \A r \in 0 .. m - 1 : RowEntries(t2.ia, t2.ja, t2.a, r) = RowEntries(Ia, Ja, Av, r)
=============================================================================
