------------------------------- MODULE KMeans -------------------------------
(***************************************************************************)
(* One Lloyd's iteration of the k-means driver (src/drivers/               *)
(* in_mem_kmeans.cpp, lloyds_iter and its helpers).  Points and centers   *)
(* are functions 0 .. n - 1 -> vectors 0 .. ndims - 1 -> values.  FPTYPE  *)
(* arithmetic is taken exact: a value is a rational [n, d] with d > 0, so  *)
(* a center that is a mean of points is represented without rounding.      *)
(***************************************************************************)
EXTENDS Integers, FiniteSets, Folds

\* Exact rationals, kept in lowest terms.
RECURSIVE Gcd(_, _)
Gcd(a, b) == IF b = 0 THEN a ELSE Gcd(b, a % b)
QNorm(num, den) ==
    LET g == Gcd(IF num < 0 THEN -num ELSE num, den)
    IN [n |-> num \div g, d |-> den \div g]
QInt(i) == [n |-> i, d |-> 1]
QAdd(a, b) == QNorm(a.n * b.d + b.n * a.d, a.d * b.d)
QMul(a, b) == QNorm(a.n * b.n, a.d * b.d)
QDivInt(a, k) == QNorm(a.n, a.d * k)
QLeq(a, b) == a.n * b.d <= b.n * a.d
QAbs(a) == [n |-> IF a.n < 0 THEN -a.n ELSE a.n, d |-> a.d]
QSum(f(_), S) == MapThenFoldSet(QAdd, QInt(0), f, LAMBDA s : CHOOSE x \in s : TRUE, S)

\* mkl_dot (cblas_?dot) of two vectors.
Dot(x, y) == QSum(LAMBDA i : QMul(x[i], y[i]), DOMAIN x)

\* distsq: |p1|^2 + |p2|^2 - 2 p1.p2.
DistSq(p1, p2) == QAdd(QAdd(Dot(p1, p1), Dot(p2, p2)), QMul(QInt(-2), Dot(p1, p2)))

(* distsq_points_to_centers: the three mkl_gemm calls, -2 * centers^T *    *)
(* points, then + centers_l2sq * ones^T, then + ones * points_l2sq^T;      *)
(* dist[c][d] is element c + d * ncenters of dist_matrix.                  *)
DistMatrix(points, centers, pointsL2sq) ==
    LET centersL2sq == [c \in DOMAIN centers |-> Dot(centers[c], centers[c])]
    IN [c \in DOMAIN centers |-> [d \in DOMAIN points |->
          QAdd(QAdd(QMul(QInt(-2), Dot(centers[c], points[d])), centersL2sq[c]), pointsL2sq[d])]]

(* closest_centers: center_index[d] = mkl_imin(ncenters, column d), the    *)
(* index (cblas_i?amin) of the first entry of least absolute value.        *)
ClosestCenters(points, centers, pointsL2sq) ==
    LET dist == DistMatrix(points, centers, pointsL2sq)
        Closest(d) == CHOOSE c \in DOMAIN centers :
                        \A c2 \in DOMAIN centers :
                          /\ c2 < c => ~QLeq(QAbs(dist[c2][d]), QAbs(dist[c][d]))
                          /\ QLeq(QAbs(dist[c][d]), QAbs(dist[c2][d]))
    IN [d \in DOMAIN points |-> Closest(d)]

\* closest_points[c]: the points pushed onto center c's vector.
ClosestPoints(assign, centers) == [c \in DOMAIN centers |-> {d \in DOMAIN assign : assign[d] = c}]

\* The per-point coefficient: weights[d] when weighted, else 1.0.
Coef(weighted, weights, d) == IF weighted THEN QInt(weights[d]) ELSE QInt(1)

\* Mutant: the memset of centers dropped; the axpys add onto the old centers.
NewCentersNoReset(points, centers, cp, weighted, weights) ==
    [c \in DOMAIN centers |-> [i \in DOMAIN centers[c] |->
        QAdd(centers[c][i],
             QSum(LAMBDA d : QMul(QDivInt(Coef(weighted, weights, d), Cardinality(cp[c])), points[d][i]),
                  cp[c]))]]

(* memset(centers, 0) and, for every center, one mkl_axpy per point of     *)
(* its cluster with alpha = weights[d] / size (weighted) or 1.0 / size.    *)
(* A center with no point stays 0.                                         *)
NewCenters(points, centers, cp, weighted, weights) ==
    [c \in DOMAIN centers |-> [i \in DOMAIN centers[c] |->
        QSum(LAMBDA d : QMul(QDivInt(Coef(weighted, weights, d), Cardinality(cp[c])), points[d][i]),
             cp[c])]]

\* The residual loop: sum over the points of coefficient * distsq to the
\* new center of the cluster the point was assigned to.
Residual(points, newCenters, assign, weighted, weights) ==
    QSum(LAMBDA d : QMul(Coef(weighted, weights, d), DistSq(points[d], newCenters[assign[d]])),
         DOMAIN points)

(* lloyds_iter: assignment, cluster lists, center update and residual, in  *)
(* that order; the result is the updated centers and the residual.         *)
LloydsIter(points, centers, pointsL2sq, weighted, weights) ==
    LET assign == ClosestCenters(points, centers, pointsL2sq)
        cp     == ClosestPoints(assign, centers)
        nc     == NewCenters(points, centers, cp, weighted, weights)
    IN [centers |-> nc, residual |-> Residual(points, nc, assign, weighted, weights)]

\* main: points_l2sq[p] = mkl_dot(point p, point p).
PointsL2sq(points) == [d \in DOMAIN points |-> Dot(points[d], points[d])]

\* Reference: the k-means objective of centers, each point at its nearest.
Cost(points, centers, weighted, weights) ==
    LET Nearest(d) == CHOOSE v \in {DistSq(points[d], centers[c]) : c \in DOMAIN centers} :
                        \A c \in DOMAIN centers : QLeq(v, DistSq(points[d], centers[c]))
    IN QSum(LAMBDA d : QMul(Coef(weighted, weights, d), Nearest(d)), DOMAIN points)
=============================================================================
