---------------------------- MODULE MCFlashFile ----------------------------
(***************************************************************************)
(* Checks FlashFileHandle's read, write, sread and swrite over every small *)
(* access.  The state is one call's arguments; it never changes, so each   *)
(* reachable state is one input.  The file's byte p holds p, the caller's  *)
(* byte j holds 100 + j, so a byte in the wrong place, a stale byte and    *)
(* uninitialised memory (Garbage) are all told apart.                      *)
(***************************************************************************)
EXTENDS FlashFile

VARIABLES t, bufAligned

MaxOffset == 3
MaxLen == 7       \* >= 3 * SectorLen, so swrite's edge-sector path runs
MaxStrides == 3
MaxStride == 8
FileLen == RoundUp(MaxOffset + (MaxStrides - 1) * MaxStride + MaxLen)

File == [p \in 0 .. FileLen - 1 |-> p]
Src(a) == [j \in 0 .. a.n * a.l - 1 |-> 100 + j]

\* StrideInfo as the kernels build it: 0 < len_per_stride <= stride; a
\* single strip's stride is never read, so it is fixed to its length.
Accesses ==
    {a \in [o : 0 .. MaxOffset, l : 1 .. MaxLen, n : 1 .. MaxStrides, s : 1 .. MaxStride] :
        a.l <= a.s /\ (a.n = 1 => a.s = a.l)}

Init == t \in Accesses /\ bufAligned \in BOOLEAN
Next == UNCHANGED <<t, bufAligned>>
Spec == Init /\ [][Next]_<<t, bufAligned>>

\* FlashFileHandle::read returns exactly the requested bytes, through the
\* bounce buffer and the MAX_CHUNK_SIZE split as well as without them.
ReadCorrect ==
    t.n = 1 => Read(File, t, bufAligned) = Gathered(File, t)

\* FlashFileHandle::sread returns strip after strip, whatever the alignment.
SReadCorrect ==
    SRead(File, t, bufAligned) = Gathered(File, t)

\* spec.md section 4.1: a write must read-modify-write the partial sectors
\* at its edges, so FlashFileHandle::write changes exactly the bytes it is
\* given and leaves every other byte of the file as it was.
WriteCorrect ==
    t.n = 1 =>
        WriteOut(File, t, WriteBuf(File, t, Src(t), bufAligned)) = Intended(File, t, Src(t))

=============================================================================
