------------------------------ MODULE DagExec ------------------------------
(***************************************************************************)
(* What the scheduler and its cache promise a kernel (spec.md section 7,   *)
(* "Ordering guarantees" and "Propagation"), with no memory budget, no     *)
(* cache and no I/O: a task starts only after every parent has returned,   *)
(* runs once, and its writes become the value of its write keys; each key  *)
(* has one logical value at all times, which only a task's return changes; *)
(* the file may lag behind it, and catches up one key at a time; the       *)
(* flush returns only after every task has returned and the file holds     *)
(* every key's value.                                                      *)
(***************************************************************************)
CONSTANTS Tasks, Keys, Writes, Parents, InitVal

VARIABLES
    st,        \* st[t]: "idle", "running" or "done"
    val,       \* the logical value of each key: the last task that wrote it
    stored,    \* the value the file holds for each key
    flushed    \* flush_cache has returned

avars == <<st, val, stored, flushed>>

Init ==
    /\ st = [t \in Tasks |-> "idle"]
    /\ val = [k \in Keys |-> InitVal]
    /\ stored = [k \in Keys |-> InitVal]
    /\ flushed = FALSE

Start(t) ==
    /\ st[t] = "idle"
    /\ \A p \in Parents[t] : st[p] = "done"
    /\ st' = [st EXCEPT ![t] = "running"]
    /\ UNCHANGED <<val, stored, flushed>>

Finish(t) ==
    /\ st[t] = "running"
    /\ st' = [st EXCEPT ![t] = "done"]
    /\ val' = [k \in Keys |-> IF k \in Writes[t] THEN t ELSE val[k]]
    /\ UNCHANGED <<stored, flushed>>

\* A write-back of key k reaches the file.
Store(k) ==
    /\ stored' = [stored EXCEPT ![k] = val[k]]
    /\ UNCHANGED <<st, val, flushed>>

Flush ==
    /\ ~flushed
    /\ \A t \in Tasks : st[t] = "done"
    /\ stored = val
    /\ flushed' = TRUE
    /\ UNCHANGED <<st, val, stored>>

Next ==
    \/ \E t \in Tasks : Start(t) \/ Finish(t)
    \/ \E k \in Keys : Store(k)
    \/ Flush

\* Every task whose parents have returned is eventually run to its end.
Spec ==
    /\ Init /\ [][Next]_avars
    /\ \A t \in Tasks : WF_avars(Start(t)) /\ WF_avars(Finish(t))
=============================================================================
