--------------------------- MODULE MCBofScheduler ---------------------------
(***************************************************************************)
(* Workloads for BofScheduler.  Keys a, b, c, d are buffers of one unit;   *)
(* the cache holds two or three.                                           *)
(***************************************************************************)
EXTENDS BofScheduler

CONSTANTS a, b, c, d, t1, t2, t3, t4, t5, w1

MCKeys == {a, b, c, d}
MCBufSize == [k \in MCKeys |-> 1]
MCNextTask == [t \in Tasks |-> NoTask]
MCThreads == {w1}
(* max_in_mem_tsks = N_COMPUTE_THR * 4 with one compute thread. *)
MCMaxInMem == 4

(* A gemm-like DAG (src/src/blas/gemm.cpp) with A-block a, B-block b and  *)
(* C-blocks c and d:                                                       *)
(*   t1: c := a * .   (beta = 0: c is write-only)                          *)
(*   t2: c += b * .   reads and writes c, after t1                         *)
(*   t3: d := a * b   (d write-only)                                       *)
(*   t4: reads both results, after t2 and t3                               *)
GemmTasks == {t1, t2, t3, t4}
GemmReads == (t1 :> {a}) @@ (t2 :> {b, c}) @@ (t3 :> {a, b}) @@ (t4 :> {c, d})
GemmWrites == (t1 :> {c}) @@ (t2 :> {c}) @@ (t3 :> {d}) @@ (t4 :> {})
GemmParents == (t1 :> {}) @@ (t2 :> {t1}) @@ (t3 :> {}) @@ (t4 :> {t2, t3})

(* Two tasks overwrite the same output block c write-only, one after the  *)
(* other (as kmeans_task.h and csrmm_task.h with beta = 0 declare their   *)
(* output), and an unrelated task t3 competes for the cache.              *)
RewriteTasks == {t1, t2, t3}
RewriteReads == (t1 :> {a}) @@ (t2 :> {b}) @@ (t3 :> {b, d})
RewriteWrites == (t1 :> {c}) @@ (t2 :> {c}) @@ (t3 :> {})
RewriteParents == (t1 :> {}) @@ (t2 :> {t1}) @@ (t3 :> {})

(* A result block c is written by t1, evicted by an unrelated task t3     *)
(* that needs two blocks, and read back with a by t2 (a gemv after a      *)
(* gemm); t2's ask of two blocks evicts t3's clean blocks, so real memory *)
(* has room while c's write-back may still be in flight.                  *)
RereadTasks == {t1, t2, t3}
RereadReads == (t1 :> {a}) @@ (t2 :> {a, c}) @@ (t3 :> {b, d})
RereadWrites == (t1 :> {c}) @@ (t2 :> {}) @@ (t3 :> {})
RereadParents == (t1 :> {}) @@ (t2 :> {t1}) @@ (t3 :> {})

(* Two independent tasks in a cache of two units: t1 reads block d; t2    *)
(* reads a and writes c, the whole cache.                                  *)
PairTasks == {t1, t2}
PairReads == (t1 :> {d}) @@ (t2 :> {a})
PairWrites == (t1 :> {}) @@ (t2 :> {c})
PairParents == (t1 :> {}) @@ (t2 :> {})

(* Five independent tasks reading the same block, as a map over one      *)
(* input: all are ready in the same pass of the dispatcher.               *)
FanTasks == {t1, t2, t3, t4, t5}
FanReads == [t \in FanTasks |-> {a}]
FanWrites == [t \in FanTasks |-> {}]
FanParents == [t \in FanTasks |-> {}]
=============================================================================
