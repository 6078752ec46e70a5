----------------------------- MODULE SampleSort -----------------------------
(***************************************************************************)
(* flash::sort (src/include/sort.tpp) with its three task classes          *)
(* (src/include/tasks/sort_task.h): a sample sort of n_vals values of      *)
(* in_fptr into out_fptr, run as three waves of tasks.                     *)
(*   1. SampleSplit sorts each block of blk_size values in place and       *)
(*      takes n_samples_per_blk random samples of it.                      *)
(*   2. The driver shuffles the samples, keeps n_pivots of them as sorted  *)
(*      pivots, and SampleSegment cuts each sorted block into n_pivots + 1 *)
(*      buckets, recording each bucket's first and last index (-1 for an  *)
(*      empty bucket) in starts and ends.                                  *)
(*   3. The driver sums the bucket sizes into output offsets, and          *)
(*      SampleMerge j copies bucket j of every block to its offset and     *)
(*      sorts it there.                                                    *)
(* Arrays are functions from C indices 0 .. len-1 to values; the           *)
(* comparator is <.  What the driver writes is a set of <<index, value>>.  *)
(* The tasks of a wave touch disjoint data, so their order does not        *)
(* matter; the dependency edges the driver adds between split and between *)
(* merge tasks only order them.                                            *)
(***************************************************************************)
EXTENDS Integers, SequencesExt

CONSTANTS
    SqrtDiv,   \* the 1000 of n_blks = ceil(sqrt(n_vals) / 1000)
    LogBase    \* the 10 of n_samples_per_blk = ceil(log10(n_vals))

ASSUME SqrtDiv \in Nat \ {0} /\ LogBase \in Nat \ {0, 1}

MinU(a, b) == IF a < b THEN a ELSE b

\* What a read outside the array returns: no value of the input.
Junk == -1

NBlks(n) == CHOOSE b \in 1 .. n : (b * SqrtDiv)^2 >= n /\ ((b - 1) * SqrtDiv)^2 < n

BlkSize(n) == (n + NBlks(n) - 1) \div NBlks(n)

NSamplesPerBlk(n) == CHOOSE e \in 0 .. n : LogBase^e >= n /\ (e = 0 \/ LogBase^(e - 1) < n)

NPivots(n) == NBlks(n) - 1

\* arr_size = std::min(n_vals - i * blk_size, blk_size) in unsigned arithmetic.
ArrSize(n, i) ==
    IF n >= i * BlkSize(n) THEN MinU(n - i * BlkSize(n), BlkSize(n)) ELSE BlkSize(n)

At(a, n, p) == IF p \in 0 .. n - 1 THEN a[p] ELSE Junk

\* __gnu_parallel::sort / std::sort of the first len values of f.
Sort0(f, len) ==
    LET s == SortSeq([j \in 1 .. len |-> f[j - 1]], <)
    IN [j \in 0 .. len - 1 |-> s[j + 1]]

\* Block i of array a as SampleSplit and SampleSegment see it.
Blk(a, n, i) == [j \in 0 .. ArrSize(n, i) - 1 |-> At(a, n, i * BlkSize(n) + j)]

\* The split wave: in_fptr with every block sorted in place.
SampleSplit(a, n) ==
    [p \in 0 .. n - 1 |->
        LET i == p \div BlkSize(n)
        IN Sort0(Blk(a, n, i), ArrSize(n, i))[p - i * BlkSize(n)]]

(* The pivots the driver can end up with: sample slot s of block           *)
(* s \div n_samples_per_blk holds any value of that block (rand() %        *)
(* arr_size), random_shuffle puts any n_pivots slots first, and those are  *)
(* sorted.                                                                 *)
Pivots(sa, n) ==
    LET spb   == NSamplesPerBlk(n)
        np    == NPivots(n)
        Slots == 0 .. NBlks(n) * spb - 1
        Vals(s) == {Blk(sa, n, s \div spb)[j] : j \in 0 .. ArrSize(n, s \div spb) - 1}
        Picks(src) == {v \in [0 .. np - 1 -> UNION {Vals(s) : s \in Slots}] :
                          \A q \in 0 .. np - 1 : v[q] \in Vals(src[q])}
    IN {Sort0(v, np) : v \in UNION {Picks(src) : src \in Injection(0 .. np - 1, Slots)}}

\* The first pivot index q >= from with x < pivots[q], or np if none.
NextPiv(x, piv, np, from) ==
    IF \E q \in from .. np - 1 : x < piv[q]
    THEN CHOOSE q \in from .. np - 1 : x < piv[q] /\ \A r \in from .. q - 1 : ~(x < piv[r])
    ELSE np

(* The scan of SampleSegment::execute from ptr_idx i with current pivot p: *)
(* a value below the pivot extends its bucket; otherwise the buckets it    *)
(* skips are marked empty and it opens the next bucket whose pivot exceeds *)
(* it, or the last bucket, which takes the rest of the block.              *)
RECURSIVE Scan(_, _, _, _, _, _, _, _)
Scan(blk, len, piv, np, i, p, st, en) ==
    IF i >= len THEN [p |-> p, st |-> st, en |-> en]
    ELSE IF blk[i] < piv[p]
    THEN Scan(blk, len, piv, np, i + 1, p, st, [en EXCEPT ![p] = @ + 1])
    ELSE LET q == NextPiv(blk[i], piv, np, p + 1)
             Skip(f) == [j \in DOMAIN f |-> IF p < j /\ j < q THEN -1 ELSE f[j]]
         IN IF q = np
            THEN [p |-> np, st |-> [Skip(st) EXCEPT ![np] = i],
                            en |-> [Skip(en) EXCEPT ![np] = len - 1]]
            ELSE Scan(blk, len, piv, np, i + 1, q, [Skip(st) EXCEPT ![q] = i],
                                                  [Skip(en) EXCEPT ![q] = i])

(* SampleSegment::execute on a sorted block: starts and ends per bucket.   *)
(* starts and ends come from new FBLAS_INT[] and are not initialised: an   *)
(* entry the task never assigns holds unset = <<start, end>>.  When the    *)
(* block's first value is not below any pivot, the task logs "unable to   *)
(* segment" and returns with the last bucket unassigned.                  *)
SampleSegment(blk, len, piv, np, unset) ==
    LET sp == NextPiv(blk[0], piv, np, 0)
        Fresh(u) == [j \in 0 .. np |-> IF j < sp THEN -1 ELSE IF j = sp THEN 0 ELSE u]
        r == Scan(blk, len, piv, np, 1, sp, Fresh(unset[1]), Fresh(unset[2]))
        Rest(f) == [j \in 0 .. np |-> IF j > r.p THEN -1 ELSE f[j]]
    IN IF sp = np
       THEN [st |-> [j \in 0 .. np |-> IF j < np THEN -1 ELSE unset[1]],
             en |-> [j \in 0 .. np |-> IF j < np THEN -1 ELSE unset[2]]]
       ELSE [st |-> Rest(r.st), en |-> Rest(r.en)]

\* Mutant: the bucket size without the + 1 of an inclusive range.
BucketSizeNoPlusOne(seg, j) ==
    IF seg.st[j] = -1 /\ seg.en[j] = -1 THEN 0 ELSE seg.en[j] - seg.st[j]

\* The driver's sizes[i][j]: 0 for a bucket marked empty.
BucketSize(seg, j) ==
    IF seg.st[j] = -1 /\ seg.en[j] = -1 THEN 0 ELSE seg.en[j] - seg.st[j] + 1

(* SampleMerge::execute: the non-empty pieces, in block order, copied one  *)
(* after the other and sorted.                                             *)
SampleMerge(pieces) == SortSeq(FlattenSeq(pieces), <)

(* flash::sort: the <<index, value>> pairs the merge tasks write to        *)
(* out_fptr, for input a, pivots piv and uninitialised entries unset.      *)
FlashSort(a, n, piv, unset) ==
    LET nb  == NBlks(n)
        bs  == BlkSize(n)
        np  == NPivots(n)
        sa  == SampleSplit(a, n)
        seg == [i \in 0 .. nb - 1 |-> SampleSegment(Blk(sa, n, i), ArrSize(n, i), piv, np, unset)]
        size == [i \in 0 .. nb - 1 |-> [j \in 0 .. np |-> BucketSize(seg[i], j)]]
        destSize == [j \in 0 .. np |-> SumFunctionOnSet([i \in 0 .. nb - 1 |-> size[i][j]], 0 .. nb - 1)]
        destOff  == [j \in 0 .. np |-> SumFunctionOnSet(destSize, 0 .. j - 1)]
        Piece(i, j) == [x \in 1 .. size[i][j] |-> At(sa, n, i * bs + seg[i].st[j] + x - 1)]
        out(j) == SampleMerge([i \in 1 .. nb |-> Piece(i - 1, j)])
    IN UNION {{<<destOff[j] + x - 1, out(j)[x]>> : x \in 1 .. Len(out(j))} : j \in 0 .. np}

\* Reference: out_fptr holding the input in ascending order.
Sorted(a, n) == {<<p, Sort0(a, n)[p]>> : p \in 0 .. n - 1}
=============================================================================
