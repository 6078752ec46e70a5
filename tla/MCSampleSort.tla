---------------------------- MODULE MCSampleSort ----------------------------
(***************************************************************************)
(* Checks flash::sort over every small input.  The state is one call: the  *)
(* input a of n values, the pivots the random sampling and shuffle picked, *)
(* and what the uninitialised starts/ends entries hold (the -1 the code    *)
(* writes into the same arrays elsewhere, or 0); it never changes, so each *)
(* reachable state is one input.                                           *)
(***************************************************************************)
EXTENDS SampleSort

VARIABLES n, a, piv, unset

MaxN == 5
Values == 0 .. 2

Init ==
    /\ n \in 1 .. MaxN
    /\ a \in [0 .. n - 1 -> Values]
    /\ piv \in Pivots(SampleSplit(a, n), n)
    /\ unset \in {-1, 0} \X {-1, 0}

Next == UNCHANGED <<n, a, piv, unset>>

Spec == Init /\ [][Next]_<<n, a, piv, unset>>

\* Every block's first value is below the largest pivot, so SampleSegment
\* never takes its "unable to segment" return.
Segmented ==
    NPivots(n) >= 1 /\
    \A i \in 0 .. NBlks(n) - 1 :
        SampleSplit(a, n)[i * BlkSize(n)] < piv[NPivots(n) - 1]

(* flash::sort's contract: out_fptr ends up holding the n_vals input       *)
(* values in ascending order, each position written once.                  *)
SortCorrect == FlashSort(a, n, piv, unset) = Sorted(a, n)

(* The blocking of n_vals by n_blks and blk_size gives every split task at *)
(* least one value (SampleSplit samples rand() % arr_size), and whenever   *)
(* no block hits SampleSegment's early return, the bucket boundaries, the  *)
(* prefix sums of the bucket sizes and the merges put every value at its   *)
(* sorted position.                                                        *)
SortCorrectWhenSegmented ==
    /\ \A i \in 0 .. NBlks(n) - 1 : ArrSize(n, i) >= 1
    /\ Segmented => SortCorrect
=============================================================================
