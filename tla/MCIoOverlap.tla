---------------------------- MODULE MCIoOverlap ----------------------------
(***************************************************************************)
(* Checks is_overlap over every pair of small I/O tasks.  The state is the *)
(* pair of tasks that two I/O threads have announced in thread_tsks; it    *)
(* never changes, so each reachable state is one input of the predicate.   *)
(***************************************************************************)
EXTENDS IoOverlap

CONSTANTS f1, f2

VARIABLES t1, t2

\* Offsets and lengths range over two to three sectors of SectorLen bytes.
MaxOffset == 5
MaxLen == 3
MaxStrides == 3
MaxStride == 4

\* Accesses the kernels issue: 0 < len_per_stride <= stride (StrideInfo).
\* A single strip's stride is never read, so it is fixed to its length.
TasksOf(files, writes) ==
    {[fop |-> f, write |-> w, o |-> o, l |-> l, n |-> 1, s |-> l] :
        f \in files, w \in writes, o \in 0 .. MaxOffset, l \in 1 .. MaxLen}
    \cup
    {t \in [fop : files, write : writes, o : 0 .. MaxOffset, l : 1 .. MaxLen,
             n : 2 .. MaxStrides, s : 1 .. MaxStride] : t.l <= t.s}

\* overlap() is only asked about a write (io_thread_fn checks is_writes of
\* its own task first), so the first task is a write to f1.
Init ==
    /\ t1 \in TasksOf({f1}, {TRUE})
    /\ t2 \in TasksOf({f1, f2}, BOOLEAN)

Next == UNCHANGED <<t1, t2>>

Spec == Init /\ [][Next]_<<t1, t2>>

\* IoExecutor::overlap asserts (io_executor.cpp:221) that is_overlap gives
\* the same answer whichever of the two tasks is passed first.
Symmetric == IsOverlap(t1, t2) = IsOverlap(t2, t1)

\* When one of the accesses is a single contiguous strip, is_overlap never
\* misses a conflict: two such accesses that share a sector of the file
\* are reported as overlapping.  (The converse fails: the test of strip
\* k_low + 1 also reports a strip past the last one, a harmless deferral.)
ContiguousSound ==
    (t1.n = 1 \/ t2.n = 1) => (RefOverlap(t1, t2) => IsOverlap(t1, t2))

\* spec.md section 4.2: overlap between two strided patterns is computed
\* exactly, so no two threads write a common sector at once: two writes
\* that share a sector are never reported disjoint by is_overlap.
WritesSound ==
    (t1.write /\ t2.write /\ RefOverlap(t1, t2)) => IsOverlap(t1, t2)
=============================================================================
