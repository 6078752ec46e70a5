------------------------------ MODULE MCKMeans ------------------------------
(***************************************************************************)
(* One call of lloyds_iter over every small input: 1-3 points and 1-2     *)
(* centers of dimension 1 (coordinates 0-2) or 2 (coordinates 0-1), read  *)
(* from the files as integers; with Weighted, every weight vector of 1s   *)
(* and 2s.  The state is the call; it never changes.                      *)
(***************************************************************************)
EXTENDS KMeans

CONSTANT Weighted   \* the weighted argument of lloyds_iter

VARIABLES points, centers, weights

kmVars == <<points, centers, weights>>

\* The vectors of dimension dims with coordinates in vals.
Vectors(dims, vals) == {[i \in 0 .. dims - 1 |-> QInt(v[i])] : v \in [0 .. dims - 1 -> vals]}

Coords(dims) == IF dims = 1 THEN 0 .. 2 ELSE 0 .. 1

Init ==
    \E dims \in 1 .. 2, np \in 1 .. 3, nc \in 1 .. 2 :
        /\ points \in [0 .. np - 1 -> Vectors(dims, Coords(dims))]
        /\ centers \in [0 .. nc - 1 -> Vectors(dims, Coords(dims))]
        /\ weights \in IF Weighted THEN [0 .. np - 1 -> 1 .. 2] ELSE {[d \in {} |-> 0]}

Next == UNCHANGED kmVars

Spec == Init /\ [][Next]_kmVars

(* lloyds_iter never makes the clustering worse: the residual it returns  *)
(* (the points' weighted distances to the new centers of the clusters     *)
(* they were assigned to) is at most the objective of the centers it was  *)
(* given.  Needs the assignment to pick each point's nearest center       *)
(* (mkl_imin over distsq_points_to_centers) and the update to put each    *)
(* center at the weighted mean of its cluster.                            *)
KMeansDescent ==
    LET r == LloydsIter(points, centers, PointsL2sq(points), Weighted, weights)
    IN QLeq(r.residual, Cost(points, centers, Weighted, weights))
=============================================================================
