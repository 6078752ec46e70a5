---------------------------- MODULE SparseMatrix ----------------------------
(***************************************************************************)
(* CSR matrices by definition, for the sparse kernels' models: a matrix    *)
(* of m rows and n columns given by the set of columns of each row, its    *)
(* row offsets ia[0..m] and its column indices ja (sorted in each row).    *)
(* A non-zero is named by its position p in ja and a.                      *)
(***************************************************************************)
EXTENDS Naturals, FiniteSets

\* The elements of S in the strict total order lt, as a sequence.
Ranked(S, lt(_, _)) ==
    [q \in 1 .. Cardinality(S) |-> CHOOSE x \in S : Cardinality({y \in S : lt(y, x)}) = q - 1]

\* The row of non-zero p in row offsets ia of m rows.
RowOf(ia, m, p) == CHOOSE r \in 0 .. m - 1 : ia[r] <= p /\ p < ia[r + 1]

\* The CSR arrays of the matrix whose row r has the columns rowCols[r].
CsrOf(m, rowCols) ==
    LET RECURSIVE Off(_)
        Off(r) == IF r = 0 THEN 0 ELSE Off(r - 1) + Cardinality(rowCols[r - 1])
        ia == [r \in 0 .. m |-> Off(r)]
    IN [ia |-> ia,
        ja |-> [p \in 0 .. ia[m] - 1 |->
                  LET r == RowOf(ia, m, p) IN Ranked(rowCols[r], <)[p - ia[r] + 1]]]

\* The matrices of 1 .. maxM rows and 1 .. maxN columns with at most
\* maxRow non-zeros per row, as [m, n, rows].
Matrices(maxM, maxN, maxRow) ==
    UNION {{[m |-> m, n |-> n, rows |-> rc] :
              rc \in [0 .. m - 1 -> {s \in SUBSET (0 .. n - 1) : Cardinality(s) <= maxRow}]} :
             m \in 1 .. maxM, n \in 1 .. maxN}
=============================================================================
