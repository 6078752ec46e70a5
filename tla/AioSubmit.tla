----------------------------- MODULE AioSubmit -----------------------------
(***************************************************************************)
(* submit_and_reap (src/src/file_handles/flash_file_handle.cpp 28-76): one *)
(* batch of n_requests iocbs is submitted with io_submit and reaped with   *)
(* io_getevents(ctx, n, n, evts, nullptr), and the whole batch is tried    *)
(* again, up to n_retries times, when either returns fewer than n.         *)
(*                                                                         *)
(* The device side is the thread's io_context: the iocbs it has accepted   *)
(* and not completed (a count per iocb, since an iocb can be accepted      *)
(* again while it is still in flight), and the completion events that      *)
(* have not been reaped.  Linux's io_submit accepts a prefix of the array  *)
(* and returns its length (an error accepts none); io_getevents with a     *)
(* null timeout blocks for n events unless a signal interrupts it, and     *)
(* then returns the events it has already taken.                           *)
(***************************************************************************)
EXTENDS Naturals

CONSTANTS
    NReq,       \* n_requests of the batch
    NRetries    \* n_retries (5)

Reqs == 1 .. NReq

VARIABLES
    pc,         \* "submit", "reap", "returned" or "fatal"
    tries,      \* n_tries
    inflight,   \* iocb -> how many accepted copies of it are not complete
    ring        \* completion events not yet reaped

vars == <<pc, tries, inflight, ring>>

Init ==
    /\ pc = "submit"
    /\ tries = 0
    /\ inflight = [r \in Reqs |-> 0]
    /\ ring = 0

\* Mutant: the loop does not stop at n_retries.
SubmitUnbounded ==
    /\ pc = "submit"
    /\ \E k \in 0 .. NReq :
          /\ inflight' = [r \in Reqs |-> IF r <= k THEN inflight[r] + 1 ELSE inflight[r]]
          /\ IF k = NReq
             THEN pc' = "reap" /\ UNCHANGED tries
             ELSE tries' = tries + 1 /\ UNCHANGED pc
    /\ UNCHANGED ring

Submit ==
    /\ pc = "submit"
    /\ tries < NRetries
    /\ \E k \in 0 .. NReq :
          /\ inflight' = [r \in Reqs |-> IF r <= k THEN inflight[r] + 1 ELSE inflight[r]]
          /\ IF k = NReq
             THEN pc' = "reap" /\ UNCHANGED tries
             ELSE tries' = tries + 1 /\ UNCHANGED pc
    /\ UNCHANGED ring

\* The device completes one accepted iocb and queues its event.
Complete(r) ==
    /\ inflight[r] > 0
    /\ inflight' = [inflight EXCEPT ![r] = @ - 1]
    /\ ring' = ring + 1
    /\ UNCHANGED <<pc, tries>>

\* io_getevents returns n events and the loop breaks.
GetEvents ==
    /\ pc = "reap"
    /\ ring >= NReq
    /\ ring' = ring - NReq
    /\ pc' = "returned"
    /\ UNCHANGED <<tries, inflight>>

\* io_getevents is interrupted by a signal after taking j < n events:
\* n_tries++ and the loop goes round to io_submit.
Interrupted ==
    /\ pc = "reap"
    /\ \E j \in 0 .. NReq - 1 : j <= ring /\ ring' = ring - j
    /\ tries' = tries + 1
    /\ pc' = "submit"
    /\ UNCHANGED inflight

\* The loop ends with n_tries = n_retries: GLOG_FATAL.
Exhausted ==
    /\ pc = "submit"
    /\ tries = NRetries
    /\ pc' = "fatal"
    /\ UNCHANGED <<tries, inflight, ring>>

Next ==
    \/ Submit \/ GetEvents \/ Interrupted \/ Exhausted
    \/ \E r \in Reqs : Complete(r)

\* The device completes every accepted iocb, and the calling thread runs;
\* nothing forces a signal, so a blocked io_getevents may wait for good.
Fairness ==
    /\ \A r \in Reqs : WF_vars(Complete(r))
    /\ WF_vars(Submit \/ Exhausted)
    /\ WF_vars(GetEvents)

Spec == Init /\ [][Next]_vars /\ Fairness

TypeOK ==
    /\ pc \in {"submit", "reap", "returned", "fatal"}
    /\ tries \in 0 .. NRetries
    /\ inflight \in [Reqs -> 0 .. NRetries]
    /\ ring \in 0 .. NRetries * NReq

NoReturnInFlight ==
    pc = "returned" => \A r \in Reqs : inflight[r] = 0
=============================================================================
