----------------------------- MODULE IoOverlap -----------------------------
(***************************************************************************)
(* The conflict test of the I/O executor (src/src/scheduler/io_executor.cpp *)
(* lines 10-156) as pure operators over I/O tasks, and the reference       *)
(* definition of a conflict that spec.md section 4.2 states: two accesses  *)
(* to the same file, one of them a write, whose byte ranges share a sector.*)
(*                                                                         *)
(* An I/O task is a record                                                 *)
(*   [fop, write, o, l, n, s]                                              *)
(* for tsk.fptr.fop, tsk.is_write, tsk.fptr.foffset and the StrideInfo     *)
(* len_per_stride, n_strides and stride.  Strip k covers the bytes         *)
(* o + k*s .. o + k*s + l - 1.                                             *)
(***************************************************************************)
EXTENDS Integers

\* SECTOR_LEN, a build-time constant that is not defined in the repository.
CONSTANT SectorLen

ASSUME SectorLen \in Nat \ {0}

\* ROUND_UP, ROUND_DOWN (include/utils.h) and IS_ALIGNED for SECTOR_LEN.
RoundUp(x) == ((x \div SectorLen) + (IF x % SectorLen # 0 THEN 1 ELSE 0)) * SectorLen
RoundDown(x) == (x \div SectorLen) * SectorLen
IsAligned(x) == x % SectorLen = 0

\* strip_overlap: the two half-open ranges, widened to whole sectors, meet.
StripOverlap(start1, end1, start2, end2) ==
    ~(RoundUp(end2) <= RoundDown(start1) \/ RoundUp(end1) <= RoundDown(start2))

(***************************************************************************)
(* same_stride_overlap, called with o1 <= o2.  It compares strip 0 of the  *)
(* first access with strip 0 of the second, then strip 1 of the first with *)
(* strip 0 of the second, then the gap after strip 0 of the first.  The    *)
(* unsigned delta o2 - (o1 + l1) is only reached when o2 >= o1 + l1 (else  *)
(* the first test holds), so it never wraps.                               *)
(***************************************************************************)
SameStrideOverlap(o1, l1, n1, o2, l2, n2, s) ==
    IF IsAligned(o1) /\ IsAligned(o2) /\ IsAligned(l1) /\ IsAligned(l2)
         /\ IsAligned(s)
    THEN FALSE
    ELSE \/ StripOverlap(o1, o1 + l1, o2, o2 + l2)
         \/ StripOverlap(o1 + s, o1 + s + l1, o2, o2 + l2)
         \/ /\ o2 - (o1 + l1) < SectorLen
            /\ ~(IsAligned(o1) /\ IsAligned(o2) /\ IsAligned(s))

\* Mutant: strip k_low + 1 is not tested.
StridedVsStripLowOnly(t1, t2) ==
    LET kStart == t1.o + ((t2.o - t1.o) \div t1.s) * t1.s
    IN /\ StripOverlap(t1.o, t1.o + t1.n * t1.s, t2.o, t2.o + t2.l)
       /\ \/ t2.o <= t1.o
          \/ StripOverlap(kStart, kStart + t1.l, t2.o, t2.o + t2.l)

\* The branch of is_overlap for a strided access t1 against a single strip t2.
StridedVsStrip(t1, t2) ==
    LET e2     == t2.o + t2.l
        kLow   == (t2.o - t1.o) \div t1.s
        kStart == t1.o + kLow * t1.s
    IN /\ StripOverlap(t1.o, t1.o + t1.n * t1.s, t2.o, e2)
       /\ \/ t2.o <= t1.o
          \/ StripOverlap(kStart, kStart + t1.l, t2.o, e2)
          \/ StripOverlap(kStart + t1.s, kStart + t1.s + t1.l, t2.o, e2)

\* Mutant: equal strides are passed to same_stride_overlap unswapped.
IsOverlapNoSwap(t1, t2) ==
    /\ t1.fop = t2.fop
    /\ t1.write \/ t2.write
    /\ CASE t1.n = 1 /\ t2.n = 1 ->
              StripOverlap(t1.o, t1.o + t1.l, t2.o, t2.o + t2.l)
         [] t1.n = 1 -> StridedVsStrip(t2, t1)
         [] t2.n = 1 -> StridedVsStrip(t1, t2)
         [] t1.s = t2.s ->
              SameStrideOverlap(t1.o, t1.l, t1.n, t2.o, t2.l, t2.n, t1.s)
         [] OTHER ->
              StripOverlap(t1.o, t1.o + t1.n * t1.s, t2.o, t2.o + t2.n * t2.s)

(***************************************************************************)
(* is_overlap.  The swaps of the code become the choice of which task is   *)
(* passed first: the strided one before a single strip, and for equal      *)
(* strides the one with the lower offset.  For different strides only the *)
(* bounding ranges are compared; an overlap there ends the process with    *)
(* GLOG_FATAL, which the OTHER arm reports as a conflict.                  *)
(***************************************************************************)
IsOverlap(t1, t2) ==
    /\ t1.fop = t2.fop
    /\ t1.write \/ t2.write
    /\ CASE t1.n = 1 /\ t2.n = 1 ->
              StripOverlap(t1.o, t1.o + t1.l, t2.o, t2.o + t2.l)
         [] t1.n = 1 -> StridedVsStrip(t2, t1)
         [] t2.n = 1 -> StridedVsStrip(t1, t2)
         [] t1.s = t2.s /\ t2.o < t1.o ->
              SameStrideOverlap(t2.o, t2.l, t2.n, t1.o, t1.l, t1.n, t1.s)
         [] t1.s = t2.s ->
              SameStrideOverlap(t1.o, t1.l, t1.n, t2.o, t2.l, t2.n, t1.s)
         [] OTHER ->
              StripOverlap(t1.o, t1.o + t1.n * t1.s, t2.o, t2.o + t2.n * t2.s)

(***************************************************************************)
(* Reference: the sectors an access touches, and a conflict as spec.md     *)
(* section 4.2 defines it.                                                 *)
(***************************************************************************)
Sectors(t) ==
    UNION {(RoundDown(t.o + k * t.s) \div SectorLen)
             .. ((RoundUp(t.o + k * t.s + t.l) \div SectorLen) - 1) : k \in 0 .. t.n - 1}

RefOverlap(t1, t2) ==
    /\ t1.fop = t2.fop
    /\ t1.write \/ t2.write
    /\ Sectors(t1) \cap Sectors(t2) # {}
=============================================================================
