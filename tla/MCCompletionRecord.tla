------------------------- MODULE MCCompletionRecord -------------------------
(***************************************************************************)
(* A kernel of four tasks: 0, 1 and 2 are roots, 3 waits on 2 and 1 (in    *)
(* that add_parent order), as a gemm's second inner block waits on its     *)
(* first.  The record starts at StartSize: 2 stands for a kernel whose ids *)
(* stay below twice the start size, 1 for one whose ids reach past it.     *)
(***************************************************************************)
EXTENDS CompletionRecord

MCParents == [id \in 0 .. 3 |-> IF id = 3 THEN <<2, 1>> ELSE <<>>]
=============================================================================
