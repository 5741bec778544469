----------------------------- MODULE EventClaim ------------------------------
(***************************************************************************)
(* What the table processed_stripe_events promises: an event is worked on  *)
(* by one request at a time, a request may give it up, and once a request  *)
(* finished it nobody works on it again.  Mail is queued only on finishing.*)
(***************************************************************************)
EXTENDS Naturals

CONSTANTS Events, Handlers

VARIABLES holders, done, jobs

vars == <<holders, done, jobs>>

Init ==
    /\ holders = [e \in Events |-> {}]
    /\ done = {}
    /\ jobs = [e \in Events |-> 0]

Claim(e, h) ==
    /\ e \notin done
    /\ holders[e] = {}
    /\ holders' = [holders EXCEPT ![e] = {h}]
    /\ UNCHANGED <<done, jobs>>

\* The event asks for nothing.
Ignore(e) ==
    /\ e \notin done
    /\ holders[e] = {}
    /\ done' = done \cup {e}
    /\ UNCHANGED <<holders, jobs>>

Finish(e, h) ==
    /\ holders[e] = {h}
    /\ holders' = [holders EXCEPT ![e] = {}]
    /\ done' = done \cup {e}
    /\ \E sent \in {0, 1} : jobs' = [jobs EXCEPT ![e] = @ + sent]

\* A failed request gives up its event, a crash all of them.
Release(S) ==
    /\ holders' = [e \in Events |-> IF e \in S THEN {} ELSE holders[e]]
    /\ UNCHANGED <<done, jobs>>

Next ==
    \/ \E e \in Events, h \in Handlers : Claim(e, h) \/ Finish(e, h)
    \/ \E e \in Events : Ignore(e)
    \/ \E S \in SUBSET Events : Release(S)

Spec == Init /\ [][Next]_vars
==============================================================================
