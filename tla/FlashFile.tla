----------------------------- MODULE FlashFile -----------------------------
(***************************************************************************)
(* The byte-level I/O of FlashFileHandle (src/src/file_handles/           *)
(* flash_file_handle.cpp): read, write, sread and swrite over a file that  *)
(* is opened with O_DIRECT, so every request to the device starts and ends *)
(* on a sector boundary and unaligned accesses go through a bounce buffer. *)
(*                                                                         *)
(* A file and a memory buffer are functions from byte positions to values. *)
(* alloc_aligned returns memory whose content is never written before it   *)
(* is used unless the code fills it; its bytes are Garbage.                *)
(*                                                                         *)
(* Each write is split where the executor can interleave another thread:  *)
(* XBuf builds the bounce buffer (the device reads of the sectors that are *)
(* only partly written, then the memcpy of the caller's data) and XOut     *)
(* writes the buffer back.  The whole call is XOut(file, XBuf(file)).      *)
(* An access t is a record [o, l, n, s] as in IoOverlap: fptr.foffset and  *)
(* the StrideInfo; read and write take the single strip [o, l].  The       *)
(* zero-length early returns are left out: kernels never issue them.       *)
(***************************************************************************)
EXTENDS IoOverlap, Sequences

CONSTANTS
    Garbage,    \* the content of memory from alloc_aligned
    MaxChunk    \* MAX_CHUNK_SIZE, a multiple of SECTOR_LEN

ASSUME MaxChunk \in Nat \ {0} /\ MaxChunk % SectorLen = 0

MinOf(a, b) == IF a < b THEN a ELSE b

\* A request of execute_io: offsets[i], sizes[i], and bufs[i] as an offset
\* into the buffer the call fills or drains.
Req(off, size, boff) == [off |-> off, size |-> size, boff |-> boff]

\* alloc_aligned(&p, n, ...): n bytes of unspecified content.
Alloc(n) == [i \in 0 .. n - 1 |-> Garbage]

(***************************************************************************)
(* execute_io with is_write = false and true, once every batch of          *)
(* submit_and_reap has completed.  The requests of one call never overlap, *)
(* so their order does not matter.                                         *)
(***************************************************************************)
PRead(file, buf, reqs) ==
    [i \in DOMAIN buf |->
        IF \E r \in reqs : r.boff <= i /\ i < r.boff + r.size
        THEN LET r == CHOOSE q \in reqs : q.boff <= i /\ i < q.boff + q.size
             IN file[r.off + i - r.boff]
        ELSE buf[i]]

PWrite(file, buf, reqs) ==
    [p \in DOMAIN file |->
        IF \E r \in reqs : r.off <= p /\ p < r.off + r.size
        THEN LET r == CHOOSE q \in reqs : q.off <= p /\ p < q.off + q.size
             IN buf[r.boff + p - r.off]
        ELSE file[p]]

\* memcpy(dst + doff, src + soff, len)
Memcpy(dst, doff, src, soff, len) ==
    [i \in DOMAIN dst |->
        IF doff <= i /\ i < doff + len THEN src[soff + i - doff] ELSE dst[i]]

\* ROUND_UP(X, Y) for another Y than SECTOR_LEN.
RoundUpTo(x, y) == ((x \div y) + (IF x % y # 0 THEN 1 ELSE 0)) * y

\* The requests read and write build for len bytes at start: one request,
\* or MAX_CHUNK_SIZE pieces when it is larger.
\* Mutant: n_requests rounded down, dropping a last partial chunk.
ChunksRoundDown(start, len) ==
    {Req(start + i * MaxChunk, MinOf(MaxChunk, len - i * MaxChunk), i * MaxChunk) :
        i \in 0 .. (len \div MaxChunk) - 1}

Chunks(start, len) ==
    {Req(start + i * MaxChunk, MinOf(MaxChunk, len - i * MaxChunk), i * MaxChunk) :
        i \in 0 .. (RoundUpTo(len, MaxChunk) \div MaxChunk) - 1}

(***************************************************************************)
(* FlashFileHandle::read: the sector-rounded range is read into a bounce   *)
(* buffer unless buf, offset and len are all aligned, then copied out.     *)
(***************************************************************************)
Read(file, t, bufAligned) ==
    LET start == RoundDown(t.o)
        rlen  == RoundUp(t.o + t.l) - start
    IN IF ~bufAligned \/ start # t.o \/ rlen # t.l
       THEN Memcpy(Alloc(t.l), 0, PRead(file, Alloc(rlen), Chunks(start, rlen)),
                   t.o - start, t.l)
       ELSE PRead(file, Alloc(t.l), Chunks(start, rlen))

(***************************************************************************)
(* FlashFileHandle::write.  The bounce buffer spans the sector-rounded     *)
(* range; the first sector is fetched when the offset is unaligned, the    *)
(* last one when the end is unaligned, the range is longer than a sector   *)
(* and a bounce buffer was allocated.                                      *)
(***************************************************************************)
WriteAlloc(t, bufAligned) == ~(bufAligned /\ IsAligned(t.o) /\ IsAligned(t.l))
WriteLen(t) == RoundUp(t.o + t.l) - RoundDown(t.o)

WriteFetchReqs(t, bufAligned) ==
    (IF ~IsAligned(t.o) THEN {Req(RoundDown(t.o), SectorLen, 0)} ELSE {})
    \cup
    (IF WriteLen(t) > SectorLen /\ ~IsAligned(t.o + t.l) /\ WriteAlloc(t, bufAligned)
     THEN {Req(RoundUp(t.o + t.l) - SectorLen, SectorLen, WriteLen(t) - SectorLen)}
     ELSE {})

WriteBuf(file, t, src, bufAligned) ==
    IF WriteAlloc(t, bufAligned)
    THEN Memcpy(PRead(file, Alloc(WriteLen(t)), WriteFetchReqs(t, bufAligned)),
                t.o - RoundDown(t.o), src, 0, t.l)
    ELSE src

WriteOut(file, t, wbuf) == PWrite(file, wbuf, Chunks(RoundDown(t.o), WriteLen(t)))

(***************************************************************************)
(* The per-stride layout that sread and swrite build when some parameter   *)
(* is unaligned: strip i is widened to sectors (starts[i], ends[i]) and    *)
(* the widened strips are packed one after another in the bounce buffer   *)
(* (buf_offsets[i]); strip i's data starts buf_deltas[i] bytes into its    *)
(* piece.                                                                  *)
(***************************************************************************)
StripStart(t, i) == RoundDown(t.o + t.s * i)
StripEnd(t, i) == RoundUp(t.o + t.s * i + t.l)
StripSize(t, i) == StripEnd(t, i) - StripStart(t, i)

RECURSIVE StripBufOff(_, _)
StripBufOff(t, i) == IF i = 0 THEN 0 ELSE StripBufOff(t, i - 1) + StripSize(t, i - 1)

StripReqs(t) == {Req(StripStart(t, i), StripSize(t, i), StripBufOff(t, i)) : i \in 0 .. t.n - 1}
\* Mutant: buf_deltas left out.
StripDestNoDelta(t) == [i \in 0 .. t.n - 1 |-> StripBufOff(t, i)]

StripDest(t) == [i \in 0 .. t.n - 1 |-> StripBufOff(t, i) + t.o + t.s * i - StripStart(t, i)]

\* The fast path of sread and swrite: one request per strip, straight
\* to or from the caller's buffer.
AllAligned(t, bufAligned) ==
    bufAligned /\ IsAligned(t.l) /\ IsAligned(t.o) /\ IsAligned(t.s)
AlignedReqs(t) == {Req(t.o + t.s * i, t.l, i * t.l) : i \in 0 .. t.n - 1}

\* FlashFileHandle::sread.
SRead(file, t, bufAligned) ==
    IF AllAligned(t, bufAligned)
    THEN PRead(file, Alloc(t.n * t.l), AlignedReqs(t))
    ELSE LET rb == PRead(file, Alloc(StripBufOff(t, t.n)), StripReqs(t))
         IN [j \in 0 .. t.n * t.l - 1 |-> rb[StripDest(t)[j \div t.l] + (j % t.l)]]

\* The memcpy loop that dirties a bounce buffer: strip k of the caller's
\* buffer goes to dest[k], in the order k = 0, 1, ...
RECURSIVE CopyIn(_, _, _, _, _)
CopyIn(buf, src, lps, dest, k) ==
    IF k = 0 THEN buf
    ELSE Memcpy(CopyIn(buf, src, lps, dest, k - 1), dest[k - 1], src, (k - 1) * lps, lps)

MergeRequired(t) == \E i \in 0 .. t.n - 2 : StripEnd(t, i) > StripStart(t, i + 1)

SWriteFetchReqs(t) ==
    IF t.l >= 3 * SectorLen
    THEN UNION {{Req(StripStart(t, i), SectorLen, StripBufOff(t, i)),
                 Req(StripEnd(t, i) - SectorLen, SectorLen,
                     StripBufOff(t, i) + StripSize(t, i) - SectorLen)} : i \in 0 .. t.n - 1}
    ELSE StripReqs(t)

\* The loop over strides 1 .. n_strides - 1 that builds the blocks;
\* merges[m] .. merges[m + 1] - 1 are the strides of block m (0-based).
RECURSIVE MergeLoop(_, _, _)
MergeLoop(t, i, acc) ==
    IF i >= t.n THEN acc
    ELSE MergeLoop(t, i + 1,
           IF StripStart(t, i) < acc.mEnds[Len(acc.mEnds)]
           THEN [acc EXCEPT !.merges[Len(acc.merges)] = @ + 1,
                            !.mEnds[Len(acc.mEnds)] = StripEnd(t, i)]
           ELSE [merges |-> Append(acc.merges, i + 1),
                 mStarts |-> Append(acc.mStarts, StripStart(t, i)),
                 mEnds |-> Append(acc.mEnds, StripEnd(t, i))])

Blocks(t) ==
    MergeLoop(t, 1, [merges |-> <<0, 1>>, mStarts |-> <<StripStart(t, 0)>>,
                     mEnds |-> <<StripEnd(t, 0)>>])

\* m_offs[m]: blocks are packed one after another (blocks numbered from 1).
RECURSIVE BlockOff(_, _)
BlockOff(b, m) ==
    IF m = 1 THEN 0 ELSE BlockOff(b, m - 1) + b.mEnds[m - 1] - b.mStarts[m - 1]

BlockReqs(t) ==
    LET b == Blocks(t)
    IN {Req(b.mStarts[m], b.mEnds[m] - b.mStarts[m], BlockOff(b, m)) : m \in 1 .. Len(b.mStarts)}

\* Where strip i of the caller's buffer lands: block m holds the strides
\* merges[m] .. merges[m + 1] - 1, at (offset + i * stride) - m_starts[m].
BlockDest(t) ==
    LET b == Blocks(t)
        BlockOf(i) == CHOOSE m \in 1 .. Len(b.mStarts) : b.merges[m] <= i /\ i < b.merges[m + 1]
    IN [i \in 0 .. t.n - 1 |->
          BlockOff(b, BlockOf(i)) + (t.o + i * t.s) - b.mStarts[BlockOf(i)]]

\* The device requests of swrite's final write-back.
SWriteReqs(t, bufAligned) ==
    CASE AllAligned(t, bufAligned) -> AlignedReqs(t)
      [] MergeRequired(t)          -> BlockReqs(t)
      [] OTHER                     -> StripReqs(t)

\* swrite's buffer after the reads and the memcpy loop.
SWriteBuf(file, t, src, bufAligned) ==
    CASE AllAligned(t, bufAligned) -> src
      [] MergeRequired(t) ->
            LET b == Blocks(t)
                size == BlockOff(b, Len(b.mStarts) + 1)
            IN CopyIn(PRead(file, Alloc(size), BlockReqs(t)), src, t.l, BlockDest(t), t.n)
      [] OTHER ->
            CopyIn(PRead(file, Alloc(StripBufOff(t, t.n)), SWriteFetchReqs(t)),
                   src, t.l, StripDest(t), t.n)

SWriteOut(file, t, wbuf, bufAligned) == PWrite(file, wbuf, SWriteReqs(t, bufAligned))

(***************************************************************************)
(* What a completed call should leave: the bytes of strip i hold the       *)
(* caller's bytes i * lps .. i * lps + lps - 1, and every other byte of    *)
(* the file is unchanged; a read returns those bytes.                      *)
(***************************************************************************)
Covers(t, p) == \E i \in 0 .. t.n - 1 : t.o + i * t.s <= p /\ p < t.o + i * t.s + t.l
SrcIndex(t, p) ==
    LET i == CHOOSE k \in 0 .. t.n - 1 : t.o + k * t.s <= p /\ p < t.o + k * t.s + t.l
    IN i * t.l + p - (t.o + i * t.s)

Intended(file, t, src) ==
    [p \in DOMAIN file |-> IF Covers(t, p) THEN src[SrcIndex(t, p)] ELSE file[p]]

Gathered(file, t) ==
    [j \in 0 .. t.n * t.l - 1 |-> file[t.o + (j \div t.l) * t.s + (j % t.l)]]

=============================================================================
