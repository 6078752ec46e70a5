--------------------------- MODULE MCIoExecutor ---------------------------
(***************************************************************************)
(* Instances of IoExecutor: two I/O threads, one file of 8 bytes with      *)
(* 2-byte sectors, and blocks of neighbouring matrices whose byte ranges   *)
(* are disjoint but share sectors, so every write is a read-modify-write   *)
(* that a concurrent write of the same sector can undo.  A second instance *)
(* writes two row blocks of one matrix.                                    *)
(***************************************************************************)
EXTENDS IoExecutor

CONSTANTS fa, w1, w2, w3, r1, Old

MCFileLen == 8
MCInitFile == [p \in 0 .. MCFileLen - 1 |-> Old]

Strip(w, o, l) == [fop |-> fa, write |-> w, o |-> o, l |-> l, n |-> 1, s |-> l]

\* w1: bytes 0-2; w2: bytes 3-4; w3: bytes 5 and 7 (two strides of 2);
\* r1 reads bytes 1-4.  w1/w2 share sector 1 and w2/w3 share sector 2.
MCAcc ==
    w1 :> Strip(TRUE, 0, 3) @@ w2 :> Strip(TRUE, 3, 2)
    @@ w3 :> [fop |-> fa, write |-> TRUE, o |-> 5, l |-> 1, n |-> 2, s |-> 2]
    @@ r1 :> Strip(FALSE, 1, 4)

MCTasks == {w1, w2, w3, r1}
MCOrder == <<w1, r1, w2, w3>>
MCBufAl == [k \in MCTasks |-> k # w2]

\* Two row blocks of one row-major matrix of 5 rows of 3 bytes, written as
\* strided accesses with stride = len_per_stride = 3: wa holds rows 0-2
\* (bytes 0-8) and wb rows 3-4 (bytes 9-14); they share sector 4.
MCRowFileLen == 16
MCRowInitFile == [p \in 0 .. MCRowFileLen - 1 |-> Old]
MCRowAcc ==
    w1 :> [fop |-> fa, write |-> TRUE, o |-> 0, l |-> 3, n |-> 3, s |-> 3]
    @@ w2 :> [fop |-> fa, write |-> TRUE, o |-> 9, l |-> 3, n |-> 2, s |-> 3]
MCRowTasks == {w1, w2}
MCRowOrder == <<w1, w2>>

=============================================================================
