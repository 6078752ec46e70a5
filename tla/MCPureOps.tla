----------------------------- MODULE MCPureOps -----------------------------
(***************************************************************************)
(* Checks the pure computations of the file-handle layer and the kernels   *)
(* in one run, each over every small input of its own harness:             *)
(*   - is_overlap (MCIoOverlap);                                           *)
(*   - FlashFileHandle's read, sread and swrite (MCFlashFile);             *)
(*   - the column-major csrmm drivers (MCCsrmm);                           *)
(*   - flash::sort (MCSampleSort);                                         *)
(*   - gemm's blocking into GemmTasks (MCGemmTiling);                      *)
(*   - csrcsc's transpose and merge (MCCsrCsc);                            *)
(*   - one Lloyd's iteration of the k-means driver (MCKMeans).             *)
(* mode says which harness an initial state is an input of; the other      *)
(* harnesses' variables hold a fixed small input, for which their          *)
(* properties hold.                                                        *)
(***************************************************************************)
EXTENDS Naturals

CONSTANTS
    SectorLen, MaxChunk, Garbage, f1, f2,
    MaxNnzs, MinBlk, RBlkRm, CBlkRm, RBlkCm, CBlkCm,
    SqrtDiv, LogBase,
    GemmBlk, SecElems,
    CscMinBlk, CscRBlk, CscCBlk,
    Weighted

VARIABLES mode, t1, t2, t, bufAligned, path, m, k, ia, n, a, piv, unset, call,
          cm, cn, rowCols, points, centers, weights

vars == <<mode, t1, t2, t, bufAligned, path, m, k, ia, n, a, piv, unset, call,
          cm, cn, rowCols, points, centers, weights>>

IO == INSTANCE MCIoOverlap
FF == INSTANCE MCFlashFile
CS == INSTANCE MCCsrmm WITH Paths <- {"cm", "cm_im"}
SS == INSTANCE MCSampleSort
GM == INSTANCE MCGemmTiling
CC == INSTANCE MCCsrCsc WITH m <- cm, n <- cn
KM == INSTANCE MCKMeans

IoFixed ==
    /\ t1 = [fop |-> f1, write |-> TRUE, o |-> 0, l |-> 1, n |-> 1, s |-> 1]
    /\ t2 = t1
FileFixed == t = [o |-> 0, l |-> 1, n |-> 1, s |-> 1] /\ bufAligned = TRUE
CsrmmFixed == path = "cm" /\ m = 1 /\ k = 1 /\ ia = [i \in 0 .. 1 |-> 0]
SortFixed == n = 1 /\ a = [i \in 0 .. 0 |-> 0] /\ piv = <<>> /\ unset = <<0, 0>>
GemmFixed ==
    call = [ord |-> "R", ta |-> "N", tb |-> "N", mkn |-> [d \in 0 .. 2 |-> 1],
            lda |-> [d \in 0 .. 2 |-> 0], beta |-> 0]
CscFixed == cm = 1 /\ cn = 1 /\ rowCols = [r \in 0 .. 0 |-> {}]
KMeansFixed ==
    /\ points = [d \in 0 .. 0 |-> [i \in 0 .. 0 |-> KM!QInt(0)]]
    /\ centers = points
    /\ weights = [d \in {} |-> 0]

Init ==
    \/ mode = "is_overlap" /\ IO!Init /\ FileFixed /\ CsrmmFixed /\ SortFixed /\ GemmFixed /\ CscFixed /\ KMeansFixed
    \/ mode = "flash_file" /\ FF!Init /\ IoFixed /\ CsrmmFixed /\ SortFixed /\ GemmFixed /\ CscFixed /\ KMeansFixed
    \/ mode = "csrmm" /\ CS!Init /\ IoFixed /\ FileFixed /\ SortFixed /\ GemmFixed /\ CscFixed /\ KMeansFixed
    \/ mode = "sort" /\ SS!Init /\ IoFixed /\ FileFixed /\ CsrmmFixed /\ GemmFixed /\ CscFixed /\ KMeansFixed
    \/ mode = "gemm" /\ GM!Init /\ IoFixed /\ FileFixed /\ CsrmmFixed /\ SortFixed /\ CscFixed /\ KMeansFixed
    \/ mode = "csrcsc" /\ CC!Init /\ IoFixed /\ FileFixed /\ CsrmmFixed /\ SortFixed /\ GemmFixed /\ KMeansFixed
    \/ mode = "kmeans" /\ KM!Init /\ IoFixed /\ FileFixed /\ CsrmmFixed /\ SortFixed /\ GemmFixed /\ CscFixed

Next == UNCHANGED vars

Spec == Init /\ [][Next]_vars

\* IoExecutor::overlap asserts (io_executor.cpp:221) that is_overlap gives
\* the same answer whichever of the two tasks is passed first.
Symmetric == IO!Symmetric

\* is_overlap never misses a conflict between two accesses when one of
\* them is a single contiguous strip.
ContiguousSound == IO!ContiguousSound

\* FlashFileHandle::read returns exactly the requested bytes.
ReadCorrect == FF!ReadCorrect

\* FlashFileHandle::sread returns strip after strip, whatever the alignment.
SReadCorrect == FF!SReadCorrect

CsrmmResult == CS!CsrmmResult

\* flash::sort's blocking gives every split task a value, and when no block
\* takes SampleSegment's early return the output is the sorted input.
SortCorrectWhenSegmented == SS!SortCorrectWhenSegmented

\* gemm's tasks, through their packed buffers, add every product term into
\* C once, at the caller's positions, for every order and transpose.
GemmCovers == GM!GemmCovers

\* However the scheduler runs gemm's tasks, each element of C ends as beta
\* times its old value plus each of its product terms once, unscaled.
GemmValue == GM!GemmValue

\* csrcsc, whenever its row and column blocks fit the matrix, leaves in
\* ia_tr, ja_tr and a_tr the CSR form of the transpose: the blocks' column
\* counts summed, and each entry at its place in column-major order.
CscCorrect == CC!CscCorrect

\* spec.md: csrcsc applied twice gives back the matrix, up to the order of
\* the non-zeros within a row.
CscRoundTrip == CC!CscRoundTrip

\* lloyds_iter (unweighted, as main calls it) returns a residual no larger
\* than the k-means objective of the centers it was given.
KMeansDescent == KM!KMeansDescent
=============================================================================
