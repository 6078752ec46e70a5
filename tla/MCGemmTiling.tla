---------------------------- MODULE MCGemmTiling ----------------------------
(***************************************************************************)
(* Every call of gemm within the bounds, as one unchanging variable call:  *)
(* the order, both transposes, m, k and n, the three leading dimensions    *)
(* (0 for the default, or one more than the stored column count).  beta   *)
(* = 2 stands for any caller's beta other than 0 and 1: GemmValue tells    *)
(* apart a scaling by it and none.                                         *)
(***************************************************************************)
EXTENDS GemmTiling, FiniteSetsExt

VARIABLE call

MaxDim == 5

\* A call: a shape, and per matrix the default leading dimension or a padded one.
Calls ==
    {[ord |-> sh.ord, ta |-> sh.ta, tb |-> sh.tb, mkn |-> sh.mkn, beta |-> 2,
      lda |-> [mat \in Dims |-> IF pad[mat] THEN StoredCols(sh, mat) + 1 ELSE 0]] :
        sh \in [ord : {"R", "C"}, ta : {"N", "T"}, tb : {"N", "T"}, mkn : [Dims -> 1 .. MaxDim]],
        pad \in [Dims -> BOOLEAN]}

Init == call \in Calls

Next == UNCHANGED call

Spec == Init /\ [][Next]_call

Tasks == GemmTasks(call)

RECURSIVE Ancestors(_)
Ancestors(t) == UNION {{p} \cup Ancestors(CHOOSE u \in Tasks : u.id = p) : p \in t.parents}

(* gemm's blocking covers the product exactly: the tasks' mkl_gemm calls, *)
(* read through the packed buffers the cache fetches, add every product   *)
(* op(A)(x, z) * op(B)(z, y) into C(x, y) once and at the caller's own    *)
(* positions, for either order, either transpose and padded leading       *)
(* dimensions, and no task reads or writes past its buffer.               *)
GemmCovers ==
    /\ UNION {Products(call, t) : t \in Tasks} = RefProducts(call)
    /\ MapThenSumSet(LAMBDA t : t.num[0] * t.num[1] * t.num[2], Tasks)
           = call.mkn[0] * call.mkn[1] * call.mkn[2]

(* The values an element of C can end with when gemm's tasks are handed  *)
(* to the scheduler (sched.add_task) and run on its compute threads.       *)
(* left: the element's writers still to run; terms[t]: writer t's products *)
(* at the element; anc[t]: t's ancestors.  A task runs once every parent   *)
(* is complete.  Two writers of which neither precedes the other may run   *)
(* at once; both then read the old value and the later store wins.         *)
RECURSIVE Finals(_, _, _, _)
Finals(v, left, terms, anc) ==
    IF left = {} THEN {v} ELSE
    LET ready == {t \in left : \A u \in left : u.id \notin anc[t]}
        pairs == {q \in ready \X ready : q[1] # q[2]}
    IN UNION ({Finals(GemmExec(t, terms[t], v), left \ {t}, terms, anc) : t \in ready}
              \cup {Finals(GemmExec(q[2], terms[q[2]], v), left \ {q[1], q[2]}, terms, anc) : q \in pairs})

(* gemm's contract (BLAS ?gemm): C = alpha * op(A) * op(B) + beta * C.   *)
(* However the scheduler runs the tasks the add_parent chains allow, each  *)
(* element of C ends with its initial value scaled by the caller's beta    *)
(* exactly once, and each of its product terms added exactly once, by one  *)
(* task, and never scaled by beta.  The chain over the inner block l, the  *)
(* beta reset for l > 0 and each task's C block must agree for this.  The  *)
(* per-task sets are bound by quantifiers over singletons so that each is  *)
(* evaluated once.                                                         *)
GemmValue ==
    \A prods \in {[t \in Tasks |-> Products(call, t)]} :
    \A cw \in {[t \in Tasks |-> CWrites(call, t)]} :
    \A anc \in {[t \in Tasks |-> Ancestors(t)]} :
    \A refs \in {RefProducts(call)} :
    \A p \in UNION {cw[t] : t \in Tasks} :
        LET At(S) == {<<x[2], x[3]>> : x \in {y \in S : y[1] = p}}
            writers == {t \in Tasks : p \in cw[t]}
            ref == At(refs)
        IN \A v \in Finals([c0 |-> 0, adds |-> {}], writers, [t \in writers |-> At(prods[t])], anc) :
            /\ v.c0 = 1
            /\ \A x \in v.adds : x[3] = 0
            /\ {x[2] : x \in v.adds} = ref
            /\ Cardinality(v.adds) = Cardinality(ref)
=============================================================================
