---------------------------- MODULE BillingProofs ----------------------------
(***************************************************************************)
(* What holds of billing and the webhook together, for any users, cards,   *)
(* subscriptions, requests and faults: the webhook's guarantees, although  *)
(* billing writes the same rows; that nobody gets another's plan; and that *)
(* the plan follows the subscription, with events in order and one request *)
(* of a user at a time.                                                    *)
(***************************************************************************)
EXTENDS Billing, SequenceTheorems, TLAPS

------------------------------------------------------------------------------
(* The webhook by itself *)

LEMMA NewPlanType == ASSUME NEW p PROVE newPlan(p) \in Plan
BY DEF newPlan, planFromPriceId, Plan

LEMMA NewPriceType ==
    ASSUME NEW p \in Payload, NEW old \in Price \cup {NoPrice}
    PROVE  newPriceId(p, old) \in Price \cup {NoPrice}
BY DEF newPriceId, Payload

LEMMA InitInv == Init => IInv
BY FaultsAssumption DEF Init, NothingSent, IInv, TypeOK, RequestInv, HolderInv, EventInv,
    ExclusiveProcessing, OneMailJobPerEvent, MailFollowsUpdate, Holds, Active,
    Holding, Labels, Plan, Blank, Payload, EventTypes

\* Any event may be sent, not only one of Payloads.
LEMMA EmitInv ==
    ASSUME IInv, NEW e \in Events, NEW p \in Payload, Emit(e, p)
    PROVE  IInv'
<1> USE DEF IInv, Emit, table, accounts, history, doubts, attempt, found, requests
<1>1. TypeOK'
  BY DEF TypeOK
<1>2. RequestInv'
  BY DEF TypeOK, RequestInv, Active
<1>3. HolderInv'
  BY DEF TypeOK, HolderInv
<1>4. EventInv'
  BY DEF TypeOK, EventInv
<1>5. ExclusiveProcessing' /\ OneMailJobPerEvent' /\ MailFollowsUpdate'
  BY DEF ExclusiveProcessing, OneMailJobPerEvent, MailFollowsUpdate, Holds
<1> QED
  BY <1>1, <1>2, <1>3, <1>4, <1>5

LEMMA StepInv == IInv /\ [Next]_vars => IInv'
<1> SUFFICES ASSUME IInv, [Next]_vars PROVE IInv'
    OBVIOUS
<1> USE FaultsAssumption, DaysAssumption, NoEventAssumption, RetentionAssumption,
        PayloadsAssumption
<1> USE DEF IInv, Fault, NoFault, Goto, stripeVars, table, accounts, history, doubts, attempt, found, requests
<1>1. ASSUME NEW e \in Events, NEW p \in Payloads, Emit(e, p) PROVE IInv'
  BY <1>1, EmitInv
<1>2. ASSUME NEW e \in Events, NEW h \in Handlers, Deliver(e, h) PROVE IInv'
  <2> USE <1>2 DEF Deliver
  <2>1. TypeOK'
    BY DEF TypeOK, Labels, Holding
  <2>2. RequestInv'
    BY DEF TypeOK, RequestInv, EventInv, Active
  <2>3. HolderInv'
    BY DEF TypeOK, HolderInv, Holding
  <2>4. EventInv'
    BY DEF TypeOK, EventInv
  <2>5. ExclusiveProcessing' /\ OneMailJobPerEvent' /\ MailFollowsUpdate'
    BY DEF TypeOK, ExclusiveProcessing, OneMailJobPerEvent, MailFollowsUpdate, Holds, Holding
  <2> QED
    BY <2>1, <2>2, <2>3, <2>4, <2>5
<1>3. ASSUME NEW h \in Handlers, TimeOut(h) PROVE IInv'
  <2> USE <1>3 DEF TimeOut
  <2>1. TypeOK'
    BY DEF TypeOK
  <2>2. RequestInv'
    BY DEF TypeOK, RequestInv, Active
  <2> QED
    BY <2>1, <2>2 DEF HolderInv, EventInv, ExclusiveProcessing, OneMailJobPerEvent, MailFollowsUpdate, Holds
<1>4. ASSUME NEW h \in Handlers, RegisterDuplicate(h) PROVE IInv'
  <2> USE <1>4 DEF RegisterDuplicate
  <2>1. TypeOK'
    BY DEF TypeOK, Labels, Holding
  <2>2. RequestInv'
    BY DEF TypeOK, RequestInv, Active
  <2>3. HolderInv'
    BY DEF TypeOK, HolderInv, Holding
  <2>4. EventInv'
    BY DEF TypeOK, EventInv
  <2>5. ExclusiveProcessing' /\ OneMailJobPerEvent' /\ MailFollowsUpdate'
    BY DEF TypeOK, ExclusiveProcessing, OneMailJobPerEvent, MailFollowsUpdate, Holds, Holding
  <2> QED
    BY <2>1, <2>2, <2>3, <2>4, <2>5
<1>5. ASSUME NEW h \in Handlers, RegisterNew(h) PROVE IInv'
  <2> USE <1>5 DEF RegisterNew, InsertRow, Complete
  <2>0. event[h] \in Events /\ event[h] \notin completed
    BY DEF TypeOK, RequestInv, EventInv, Active
  <2>1. TypeOK'
    BY <2>0 DEF TypeOK, Labels, Holding
  <2>2. RequestInv'
    BY <2>0 DEF TypeOK, RequestInv, Active
  <2>3. HolderInv'
    BY <2>0 DEF TypeOK, HolderInv, RequestInv, Active, Holding
  <2>4. EventInv'
    BY <2>0 DEF TypeOK, EventInv, RequestInv, Active
  <2>5. ExclusiveProcessing'
    BY <2>0 DEF TypeOK, ExclusiveProcessing, HolderInv, Holds, Holding
  <2>6. OneMailJobPerEvent' /\ MailFollowsUpdate'
    BY DEF OneMailJobPerEvent, MailFollowsUpdate
  <2> QED
    BY <2>1, <2>2, <2>3, <2>4, <2>5, <2>6
<1>6. ASSUME NEW h \in Handlers, RegisterFails(h) PROVE IInv'
  <2> USE <1>6 DEF RegisterFails, InsertRow
  <2>0. event[h] \in Events
    BY DEF TypeOK, RequestInv, Active
  <2>1. TypeOK'
    BY <2>0 DEF TypeOK, Labels, Holding
  <2>2. RequestInv'
    BY <2>0 DEF TypeOK, RequestInv, Active
  <2>3. HolderInv'
    BY <2>0 DEF TypeOK, HolderInv, Holding
  <2>4. EventInv'
    BY <2>0 DEF TypeOK, EventInv, RequestInv, Active
  <2>5. ExclusiveProcessing' /\ OneMailJobPerEvent' /\ MailFollowsUpdate'
    BY DEF TypeOK, ExclusiveProcessing, OneMailJobPerEvent, MailFollowsUpdate, Holds, Holding
  <2> QED
    BY <2>1, <2>2, <2>3, <2>4, <2>5
<1>7. ASSUME NEW h \in Handlers, FindUser(h) PROVE IInv'
  <2> USE <1>7 DEF FindUser, Complete, UsersToUpdate, findByStripeCustomerId
  <2>0. event[h] \in Events
    BY DEF TypeOK, RequestInv, Active
  <2>1. TypeOK'
    BY <2>0 DEF TypeOK, Labels, Holding
  <2>2. RequestInv'
    BY <2>0 DEF TypeOK, RequestInv, Active
  <2>3. HolderInv'
    BY <2>0 DEF TypeOK, HolderInv, Holding, ExclusiveProcessing, Holds
  <2>4. EventInv'
    BY <2>0 DEF TypeOK, EventInv, HolderInv, Holding
  <2>5. ExclusiveProcessing' /\ OneMailJobPerEvent' /\ MailFollowsUpdate'
    BY DEF TypeOK, ExclusiveProcessing, OneMailJobPerEvent, MailFollowsUpdate, Holds, Holding
  <2> QED
    BY <2>1, <2>2, <2>3, <2>4, <2>5
<1>8. ASSUME NEW h \in Handlers, FindUserFails(h) PROVE IInv'
  <2> USE <1>8 DEF FindUserFails
  <2>1. TypeOK'
    BY DEF TypeOK, Labels, Holding
  <2>2. RequestInv'
    BY DEF TypeOK, RequestInv, Active
  <2>3. HolderInv'
    BY DEF TypeOK, HolderInv, Holding
  <2>4. EventInv'
    BY DEF TypeOK, EventInv
  <2>5. ExclusiveProcessing' /\ OneMailJobPerEvent' /\ MailFollowsUpdate'
    BY DEF TypeOK, ExclusiveProcessing, OneMailJobPerEvent, MailFollowsUpdate, Holds, Holding
  <2> QED
    BY <2>1, <2>2, <2>3, <2>4, <2>5
<1>9. ASSUME NEW h \in Handlers, UpdateUser(h) PROVE IInv'
  <2> USE <1>9 DEF UpdateUser, WriteUser, Complete
  <2>0. event[h] \in Events /\ payload[event[h]] \in Payload
    BY DEF TypeOK, RequestInv, Active
  <2>1. TypeOK'
    <3>1. plan' \in [Users -> Plan]
      BY <2>0, NewPlanType DEF TypeOK
    <3>2. stripePriceId' \in [Users -> Price \cup {NoPrice}]
      BY <2>0, NewPriceType DEF TypeOK
    <3> QED
      BY <2>0, <3>1, <3>2 DEF TypeOK, Labels, Holding
  <2>2. RequestInv'
    BY <2>0 DEF TypeOK, RequestInv, Active
  <2>3. HolderInv'
    BY <2>0 DEF TypeOK, HolderInv, Holding, ExclusiveProcessing, Holds
  <2>4. EventInv'
    BY <2>0 DEF TypeOK, EventInv, HolderInv, Holding
  <2>5. ExclusiveProcessing' /\ OneMailJobPerEvent' /\ MailFollowsUpdate'
    BY DEF TypeOK, ExclusiveProcessing, OneMailJobPerEvent, MailFollowsUpdate, Holds, Holding
  <2> QED
    BY <2>1, <2>2, <2>3, <2>4, <2>5
<1>10. ASSUME NEW h \in Handlers, UpdateUserFails(h) PROVE IInv'
  <2> USE <1>10 DEF UpdateUserFails, WriteUser
  <2>0. event[h] \in Events /\ payload[event[h]] \in Payload
    BY DEF TypeOK, RequestInv, Active
  <2>1. TypeOK'
    <3>1. plan' \in [Users -> Plan]
      BY <2>0, NewPlanType DEF TypeOK
    <3>2. stripePriceId' \in [Users -> Price \cup {NoPrice}]
      BY <2>0, NewPriceType DEF TypeOK
    <3> QED
      BY <2>0, <3>1, <3>2 DEF TypeOK, Labels, Holding
  <2>2. RequestInv'
    BY <2>0 DEF TypeOK, RequestInv, Active
  <2>3. HolderInv'
    BY <2>0 DEF TypeOK, HolderInv, Holding, ExclusiveProcessing, Holds
  <2>4. EventInv'
    BY <2>0 DEF TypeOK, EventInv, HolderInv, Holding
  <2>5. ExclusiveProcessing' /\ OneMailJobPerEvent' /\ MailFollowsUpdate'
    BY DEF TypeOK, ExclusiveProcessing, OneMailJobPerEvent, MailFollowsUpdate, Holds, Holding
  <2> QED
    BY <2>1, <2>2, <2>3, <2>4, <2>5
<1>11. ASSUME NEW h \in Handlers, Notify(h) PROVE IInv'
  <2> USE <1>11 DEF Notify, Complete
  <2>0. event[h] \in Events /\ jobs[event[h]] = 0 /\ writes[event[h]] > 0
    BY DEF TypeOK, RequestInv, Active, HolderInv, Holding, EventInv
  <2>1. TypeOK'
    BY <2>0 DEF TypeOK, Labels, Holding
  <2>2. RequestInv'
    BY <2>0 DEF TypeOK, RequestInv, Active
  <2>3. HolderInv'
    BY <2>0 DEF TypeOK, HolderInv, Holding, ExclusiveProcessing, Holds
  <2>4. EventInv'
    BY <2>0 DEF TypeOK, EventInv, HolderInv, Holding
  <2>5. ExclusiveProcessing'
    BY DEF TypeOK, ExclusiveProcessing, Holds, Holding
  <2>6. OneMailJobPerEvent' /\ MailFollowsUpdate'
    BY <2>0 DEF TypeOK, OneMailJobPerEvent, MailFollowsUpdate
  <2> QED
    BY <2>1, <2>2, <2>3, <2>4, <2>5, <2>6
<1>12. ASSUME NEW h \in Handlers, Unregister(h) PROVE IInv'
  <2> USE <1>12 DEF Unregister
  <2>0. event[h] \in Events /\ event[h] \notin completed
    BY DEF TypeOK, RequestInv, Active, HolderInv, Holding
  <2>1. TypeOK'
    BY <2>0 DEF TypeOK, Labels, Holding
  <2>2. RequestInv'
    BY <2>0 DEF TypeOK, RequestInv, Active
  <2>3. HolderInv'
    BY <2>0 DEF TypeOK, HolderInv, Holding, ExclusiveProcessing, Holds
  <2>4. EventInv'
    BY <2>0 DEF TypeOK, EventInv
  <2>5. ExclusiveProcessing' /\ OneMailJobPerEvent' /\ MailFollowsUpdate'
    BY DEF TypeOK, ExclusiveProcessing, OneMailJobPerEvent, MailFollowsUpdate, Holds, Holding
  <2> QED
    BY <2>1, <2>2, <2>3, <2>4, <2>5
<1>13. ASSUME NEW h \in Handlers, Respond(h) PROVE IInv'
  <2> USE <1>13 DEF Respond, Free
  <2>0. event[h] \in Events
    BY DEF TypeOK, RequestInv, Active
  <2>1. TypeOK'
    BY <2>0 DEF TypeOK, Labels, Holding, Plan
  <2>2. RequestInv'
    BY <2>0 DEF TypeOK, RequestInv, Active
  <2>3. HolderInv'
    BY <2>0 DEF TypeOK, HolderInv, Holding
  <2>4. EventInv'
    BY <2>0 DEF TypeOK, EventInv, RequestInv, Active
  <2>5. ExclusiveProcessing' /\ OneMailJobPerEvent' /\ MailFollowsUpdate'
    BY DEF TypeOK, ExclusiveProcessing, OneMailJobPerEvent, MailFollowsUpdate, Holds, Holding
  <2> QED
    BY <2>1, <2>2, <2>3, <2>4, <2>5
<1>14. CASE Crash
  <2> USE <1>14 DEF Crash
  <2>1. TypeOK'
    BY DEF TypeOK, Labels, Plan
  <2>2. RequestInv' /\ HolderInv' /\ ExclusiveProcessing'
    BY DEF RequestInv, Active, HolderInv, Holding, ExclusiveProcessing, Holds
  <2>3. EventInv' /\ OneMailJobPerEvent' /\ MailFollowsUpdate'
    BY DEF EventInv, OneMailJobPerEvent, MailFollowsUpdate
  <2> QED
    BY <2>1, <2>2, <2>3
<1>15. CASE Midnight
  <2> USE <1>15 DEF Midnight
  <2>1. TypeOK'
    BY DEF TypeOK
  <2>2. RequestInv'
    BY DEF TypeOK, RequestInv, Active
  <2>3. EventInv'
    BY DEF TypeOK, EventInv
  <2> QED
    BY <2>1, <2>2, <2>3 DEF HolderInv, ExclusiveProcessing, Holds, OneMailJobPerEvent, MailFollowsUpdate
<1>16. CASE deleteOlderThan
  <2> USE <1>16 DEF deleteOlderThan, Expired
  <2>1. TypeOK'
    BY DEF TypeOK
  <2>2. RequestInv'
    BY DEF RequestInv, Active
  <2>3. HolderInv'
    BY DEF TypeOK, HolderInv, RequestInv, Active, Holding
  <2>4. EventInv'
    BY DEF TypeOK, EventInv
  <2> QED
    BY <2>1, <2>2, <2>3, <2>4 DEF ExclusiveProcessing, Holds, OneMailJobPerEvent, MailFollowsUpdate
<1>17. ASSUME NEW u \in Users, DeleteUser(u) PROVE IInv'
  BY <1>17 DEF DeleteUser, TypeOK, RequestInv, Active, HolderInv, EventInv,
      ExclusiveProcessing, Holds, OneMailJobPerEvent, MailFollowsUpdate
<1>18. CASE UNCHANGED vars
  BY <1>18 DEF vars, TypeOK, RequestInv, Active, HolderInv, EventInv,
      ExclusiveProcessing, Holds, OneMailJobPerEvent, MailFollowsUpdate
<1> QED
  BY <1>1, <1>2, <1>3, <1>4, <1>5, <1>6, <1>7, <1>8, <1>9, <1>10, <1>11, <1>12,
     <1>13, <1>14, <1>15, <1>16, <1>17, <1>18 DEF Next, Handle

\* The webhook's bookkeeping stays consistent, and with it the guarantees below.
THEOREM Invariance == Spec => []IInv
BY InitInv, StepInv, PTL DEF Spec

\* Every variable keeps its type: plans come from prices, never a price as a plan.
THEOREM TypeCorrect == Spec => []TypeOK
<1>1. IInv => TypeOK
  BY DEF IInv
<1> QED
  BY <1>1, Invariance, PTL

\* Two deliveries of one event are never processed at the same time.
THEOREM Exclusive == Spec => []ExclusiveProcessing
<1>1. IInv => ExclusiveProcessing
  BY DEF IInv
<1> QED
  BY <1>1, Invariance, PTL

\* An event puts at most one mail job in the queue, ever.
THEOREM OneMail == Spec => []OneMailJobPerEvent
<1>1. IInv => OneMailJobPerEvent
  BY DEF IInv
<1> QED
  BY <1>1, Invariance, PTL

\* The mail of an event is only queued after its plan update was committed.
THEOREM MailAfterUpdate == Spec => []MailFollowsUpdate
<1>1. IInv => MailFollowsUpdate
  BY DEF IInv
<1> QED
  BY <1>1, Invariance, PTL

\* The events whose effects a step changes belong to the request that takes it.
LEMMA OnlyHoldersAct ==
    ASSUME IInv, [Next]_vars, NEW e \in completed
    PROVE  writes'[e] = writes[e] /\ jobs'[e] = jobs[e]
<1> USE DEF IInv, stripeVars, table, accounts, history, doubts, attempt, found, requests
<1>0. e \in Events
  BY DEF TypeOK
<1>1. ASSUME NEW h \in Handlers, Handle(h) PROVE writes'[e] = writes[e] /\ jobs'[e] = jobs[e]
  <2>1. CASE pc[h] \in Holding
    <3>1. event[h] # e
      BY <2>1 DEF HolderInv
    <3> QED
      BY <1>0, <1>1, <3>1 DEF TypeOK, Handle, RegisterDuplicate, RegisterNew, RegisterFails,
          FindUser, FindUserFails, UpdateUser, UpdateUserFails, WriteUser, Notify,
          Unregister, Respond
  <2>2. CASE pc[h] \notin Holding
    BY <1>1, <2>2 DEF Holding, Handle, RegisterDuplicate, RegisterNew, RegisterFails,
        FindUser, FindUserFails, UpdateUser, UpdateUserFails, Notify, Unregister, Respond
  <2> QED
    BY <2>1, <2>2
<1> QED
  BY <1>1 DEF Next, Emit, Deliver, TimeOut, Crash, Midnight, deleteOlderThan, DeleteUser, vars

\* A finished event never writes an account or sends mail again.
THEOREM Final == Spec => CompletedIsFinal
<1>1. IInv /\ [Next]_vars => [\A e \in completed : writes'[e] = writes[e] /\ jobs'[e] = jobs[e]]_vars
  BY OnlyHoldersAct
<1> QED
  BY <1>1, Invariance, PTL DEF Spec, CompletedIsFinal

------------------------------------------------------------------------------
(* The webhook implements EventClaim *)

LEMMA HoldersStay ==
    ASSUME TypeOK, NEW h \in Handlers, NEW label, Goto(h, label), UNCHANGED event,
           (label \in Holding) <=> (pc[h] \in Holding)
    PROVE  UNCHANGED holdersOf
<1>1. \A g \in Handlers, e \in Events : Holds(g, e)' <=> Holds(g, e)
  BY DEF TypeOK, Goto, Holds
<1> QED
  BY <1>1 DEF holdersOf

LEMMA HolderComes ==
    ASSUME TypeOK, NEW h \in Handlers, event[h] \in Events, NEW label \in Holding,
           Goto(h, label), UNCHANGED event, holdersOf[event[h]] = {}
    PROVE  holdersOf' = [holdersOf EXCEPT ![event[h]] = {h}]
<1>1. \A g \in Handlers, e \in Events :
          Holds(g, e)' <=> IF g = h THEN e = event[h] ELSE Holds(g, e)
  BY DEF TypeOK, Goto, Holds
<1>2. \A g \in Handlers : ~Holds(g, event[h])
  BY DEF holdersOf
<1>3. \A e \in Events : {g \in Handlers : Holds(g, e)'} =
          IF e = event[h] THEN {h} ELSE {g \in Handlers : Holds(g, e)}
  <2> SUFFICES ASSUME NEW e \in Events
               PROVE  {g \in Handlers : Holds(g, e)'} =
                          IF e = event[h] THEN {h} ELSE {g \in Handlers : Holds(g, e)}
    OBVIOUS
  <2>1. CASE e = event[h]
    BY <1>1, <1>2, <2>1
  <2>2. CASE e # event[h]
    <3>1. ~Holds(h, e)
      BY <2>2 DEF Holds
    <3> QED
      BY <1>1, <2>2, <3>1
  <2> QED
    BY <2>1, <2>2
<1> QED
  BY <1>3 DEF holdersOf

LEMMA HolderGoes ==
    ASSUME TypeOK, ExclusiveProcessing, NEW h \in Handlers, event[h] \in Events,
           pc[h] \in Holding, NEW label, label \notin Holding,
           Goto(h, label), UNCHANGED event
    PROVE  /\ holdersOf[event[h]] = {h}
           /\ holdersOf' = [holdersOf EXCEPT ![event[h]] = {}]
<1>1. Holds(h, event[h])
  BY DEF Holds
<1>2. \A g \in Handlers : Holds(g, event[h]) <=> g = h
  BY <1>1 DEF ExclusiveProcessing
<1>3. holdersOf[event[h]] = {h}
  BY <1>2 DEF holdersOf
<1>4. \A g \in Handlers, e \in Events : Holds(g, e)' <=> Holds(g, e) /\ g # h
  BY DEF TypeOK, Goto, Holds
<1>5. \A e \in Events : {g \in Handlers : Holds(g, e)'} =
          IF e = event[h] THEN {} ELSE {g \in Handlers : Holds(g, e)}
  <2> SUFFICES ASSUME NEW e \in Events
               PROVE  {g \in Handlers : Holds(g, e)'} =
                          IF e = event[h] THEN {} ELSE {g \in Handlers : Holds(g, e)}
    OBVIOUS
  <2>1. CASE e = event[h]
    BY <1>2, <1>4, <2>1
  <2>2. CASE e # event[h]
    <3>1. ~Holds(h, e)
      BY <2>2 DEF Holds
    <3> QED
      BY <1>4, <2>2, <3>1
  <2> QED
    BY <2>1, <2>2
<1> QED
  BY <1>3, <1>5 DEF holdersOf

\* Carrying an event through to the end is Finish, with or without a mail job.
LEMMA FinishStep ==
    ASSUME IInv, NEW h \in Handlers, pc[h] \in Holding, Complete(h), UNCHANGED event,
           UNCHANGED jobs \/ jobs' = [jobs EXCEPT ![event[h]] = @ + 1]
    PROVE  Claim!Next
<1>1. event[h] \in Events
  BY DEF IInv, RequestInv, Active, Holding
<1>2. holdersOf[event[h]] = {h} /\ holdersOf' = [holdersOf EXCEPT ![event[h]] = {}]
  BY <1>1, HolderGoes DEF IInv, Complete, Holding
<1>3. \E sent \in {0, 1} : jobs' = [jobs EXCEPT ![event[h]] = @ + sent]
  BY <1>1 DEF IInv, TypeOK
<1>4. Claim!Finish(event[h], h)
  BY <1>2, <1>3 DEF Claim!Finish, Complete
<1> QED
  BY <1>1, <1>4 DEF Claim!Next

LEMMA ClaimStep == IInv /\ [Next]_vars => [Claim!Next]_(Claim!vars)
<1> SUFFICES ASSUME IInv, [Next]_vars PROVE [Claim!Next]_(Claim!vars)
    OBVIOUS
<1> USE DEF IInv, stripeVars, table, accounts, history, doubts, attempt, found, requests
<1>1. ASSUME UNCHANGED <<pc, event, completed, jobs>> PROVE UNCHANGED Claim!vars
  BY <1>1 DEF Claim!vars, holdersOf, Holds
<1>2. ASSUME NEW e \in Events, NEW h \in Handlers, Deliver(e, h) PROVE UNCHANGED Claim!vars
  <2>1. \A g \in Handlers, f \in Events : Holds(g, f)' <=> Holds(g, f)
    BY <1>2 DEF Deliver, Goto, Holds, Holding, TypeOK
  <2> QED
    BY <1>2, <2>1 DEF Deliver, Claim!vars, holdersOf
<1>3. ASSUME NEW h \in Handlers, Respond(h) PROVE UNCHANGED Claim!vars
  <2>1. \A g \in Handlers, f \in Events : Holds(g, f)' <=> Holds(g, f)
    BY <1>3 DEF Respond, Free, Goto, Holds, Holding, TypeOK
  <2> QED
    BY <1>3, <2>1 DEF Respond, Claim!vars, holdersOf
<1>4. ASSUME NEW h \in Handlers,
             RegisterDuplicate(h) \/ RegisterFails(h) \/ FindUserFails(h) \/ UpdateUserFails(h)
      PROVE  UNCHANGED Claim!vars
  <2>1. PICK label : Goto(h, label) /\ ((label \in Holding) <=> (pc[h] \in Holding))
    BY <1>4 DEF RegisterDuplicate, RegisterFails, FindUserFails, UpdateUserFails, Holding
  <2>2. UNCHANGED <<event, completed, jobs>>
    BY <1>4 DEF RegisterDuplicate, RegisterFails, FindUserFails, UpdateUserFails
  <2> QED
    BY <2>1, <2>2, HoldersStay DEF Claim!vars
<1>5. ASSUME NEW h \in Handlers, RegisterNew(h) PROVE Claim!Next
  <2>1. event[h] \in Events /\ event[h] \notin completed
    BY <1>5, RetentionAssumption, DaysAssumption
    DEF TypeOK, RequestInv, EventInv, Active, RegisterNew, InsertRow
  <2>2. holdersOf[event[h]] = {}
    BY <1>5, <2>1 DEF holdersOf, HolderInv, Holds, RegisterNew, InsertRow
  <2>3. CASE NeedsUser(payload[event[h]])
    <3>1. holdersOf' = [holdersOf EXCEPT ![event[h]] = {h}]
      BY <1>5, <2>1, <2>2, <2>3, HolderComes DEF RegisterNew, Holding
    <3>2. Claim!Claim(event[h], h)
      BY <1>5, <2>1, <2>2, <2>3, <3>1 DEF RegisterNew, Claim!Claim
    <3> QED
      BY <2>1, <3>2 DEF Claim!Next
  <2>4. CASE ~NeedsUser(payload[event[h]])
    <3>1. UNCHANGED holdersOf
      BY <1>5, <2>4, HoldersStay DEF RegisterNew, Complete, Holding
    <3>2. Claim!Ignore(event[h])
      BY <1>5, <2>1, <2>2, <2>4, <3>1 DEF RegisterNew, Complete, Claim!Ignore
    <3> QED
      BY <2>1, <3>2 DEF Claim!Next
  <2> QED
    BY <2>3, <2>4
<1>6. ASSUME NEW h \in Handlers, FindUser(h) PROVE [Claim!Next]_(Claim!vars)
  <2>1. CASE Goto(h, "update") /\ UNCHANGED completed
    BY <1>6, <2>1, HoldersStay DEF FindUser, Holding, Claim!vars
  <2>2. CASE Complete(h)
    BY <1>6, <2>2, FinishStep DEF FindUser, Holding
  <2> QED
    BY <1>6, <2>1, <2>2 DEF FindUser
<1>7. ASSUME NEW h \in Handlers, UpdateUser(h) PROVE [Claim!Next]_(Claim!vars)
  <2>1. CASE SendsMail(payload[event[h]], read[h])
    BY <1>7, <2>1, HoldersStay DEF UpdateUser, Holding, Claim!vars
  <2>2. CASE ~SendsMail(payload[event[h]], read[h])
    BY <1>7, <2>2, FinishStep DEF UpdateUser, Holding
  <2> QED
    BY <2>1, <2>2
<1>8. ASSUME NEW h \in Handlers, Notify(h) PROVE Claim!Next
  BY <1>8, FinishStep DEF Notify, Holding
<1>9. ASSUME NEW h \in Handlers, Unregister(h) PROVE Claim!Next
  <2>1. event[h] \in Events
    BY <1>9 DEF Unregister, RequestInv, Active
  <2>2. holdersOf' = [holdersOf EXCEPT ![event[h]] = {}]
    BY <1>9, <2>1, HolderGoes DEF Unregister, Holding
  <2>3. Claim!Release({event[h]})
    BY <1>9, <2>1, <2>2 DEF Unregister, Claim!Release, holdersOf
  <2> QED
    BY <2>1, <2>3 DEF Claim!Next
<1>10. ASSUME Crash PROVE Claim!Next
  <2>1. holdersOf' = [e \in Events |-> {}]
    BY <1>10 DEF Crash, holdersOf, Holds, Holding
  <2>2. Claim!Release(Events)
    BY <1>10, <2>1 DEF Crash, Claim!Release
  <2> QED
    BY <2>2 DEF Claim!Next
<1> QED
  BY <1>1, <1>2, <1>3, <1>4, <1>5, <1>6, <1>7, <1>8, <1>9, <1>10
  DEF Next, Handle, Emit, TimeOut, Midnight, deleteOlderThan, DeleteUser, vars

\* The table of processed events gives each event one owner at a time and at
\* most one ending, through every failure, crash, redelivery and clean-up.
THEOREM Refinement == Spec => ClaimSpec
<1>1. Init => Claim!Init
  BY DEF Init, NothingSent, Claim!Init, holdersOf, Holds, Holding
<1> QED
  BY <1>1, ClaimStep, Invariance, PTL DEF Spec, ClaimSpec, Claim!Spec

------------------------------------------------------------------------------
(* What redelivery promises under every fault *)

\* A step that leaves the requests, the table and the history alone.
LEMMA DoubtStutter ==
    ASSUME DoubtInv,
           UNCHANGED <<stripeVars, registered, day, pc, event, writes, completed, doubts>>
    PROVE  DoubtInv'
BY DEF DoubtInv, RowInv, WriteInv, BurnedOnlyInDoubt, AppliedAgainOnlyInDoubt, Holds,
    stripeVars, doubts

LEMMA DoubtEmit ==
    ASSUME IInv, DoubtInv, NEW e \in Events, NEW p, Emit(e, p)
    PROVE  DoubtInv'
<1> USE DEF Emit, table, requests, attempt, history, doubts
<1>1. TypeOK
  BY DEF IInv
<1>2. RowInv'
  BY <1>1 DEF DoubtInv, RowInv, BurnedOnlyInDoubt, TypeOK, Holds
<1>3. WriteInv'
  BY <1>1 DEF DoubtInv, WriteInv, AppliedAgainOnlyInDoubt, TypeOK
<1> QED
  BY <1>2, <1>3 DEF DoubtInv

\* What a step of a request does to the rows: its own event ends up finished, in
\* doubt, without a row, or with the request still at it.
LEMMA RowStep ==
    ASSUME IInv, DoubtInv, NEW h \in Handlers, Handle(h)
    PROVE  RowInv'
<1> USE DEF Goto, stripeVars, table, accounts, history, doubts, attempt, found, requests
<1>0. /\ pc \in [Handlers -> Labels] /\ outbox \in [Events -> {"unsent", "pending", "delivered"}]
      /\ event \in [Handlers -> Events \cup {NoEvent}]
      /\ registered \subseteq Events /\ completed \subseteq Events /\ doubted \subseteq Events
  BY DEF IInv, TypeOK
<1>1. RowInv /\ event[h] \in Events
  <2>1. Active(h)
    BY DEF Active, Handle, RegisterDuplicate, RegisterNew, RegisterFails, FindUser,
        FindUserFails, UpdateUser, UpdateUserFails, Notify, Unregister, Respond
  <2> QED
    BY <2>1 DEF DoubtInv, IInv, RequestInv
<1>2. CASE Respond(h)
  <2> USE <1>2 DEF Respond, Free
  <2>1. \A g \in Handlers : g # h => pc'[g] = pc[g] /\ event'[g] = event[g]
    BY <1>0
  <2>2. pc'[h] = "idle"
    BY <1>0
  <2>3. \A e \in Events : outbox'[e] = "delivered" => e \in completed \cup doubted
    BY <1>0, <1>1 DEF RowInv, BurnedOnlyInDoubt
  <2>4. \A g \in Handlers : pc'[g] = "ack" => event'[g] \in completed \cup doubted
    BY <1>1, <2>1, <2>2 DEF RowInv
  <2>5. \A g \in Handlers, e \in Events : Holds(g, e) => Holds(g, e)'
    BY <2>1 DEF Holds, Holding
  <2> QED
    BY <1>0, <1>1, <2>3, <2>4, <2>5 DEF RowInv, BurnedOnlyInDoubt
<1>3. ASSUME ~Respond(h) PROVE RowInv'
  <2>1. /\ UNCHANGED <<outbox, event>>
        /\ completed \subseteq completed' /\ doubted \subseteq doubted'
        /\ registered' \subseteq registered \cup {event[h]}
        /\ \A g \in Handlers : g # h => pc'[g] = pc[g]
    BY <1>0, <1>3 DEF Handle, RegisterDuplicate, RegisterNew, RegisterFails, FindUser,
        FindUserFails, UpdateUser, UpdateUserFails, Notify, Unregister, InsertRow, Complete
  <2> DEFINE Held == \E g \in Handlers : g # h /\ Holds(g, event[h])
  <2>2. /\ pc'[h] = "ack" => event[h] \in completed' \cup doubted'
        /\ event[h] \in registered' =>
               event[h] \in completed' \cup doubted' \/ pc'[h] \in Holding \/ Held
    <3> USE <1>0, <1>1
    <3>0. event[h] \in registered =>
              event[h] \in completed \cup doubted \/ pc[h] \in Holding \/ Held
      BY DEF RowInv, Holds
    <3> HIDE DEF Held
    <3>1. CASE RegisterDuplicate(h)
      <4>1. event[h] \in completed \cup doubted \/ Held
        BY <3>0, <3>1 DEF RegisterDuplicate, Holding
      <4>2. Held => event[h] \in doubted'
        BY <3>1 DEF Held, RegisterDuplicate
      <4> QED
        BY <2>1, <4>1, <4>2
    <3>2. CASE RegisterNew(h)
      BY <3>2 DEF RegisterNew, InsertRow, Complete, Holding
    <3>3. CASE RegisterFails(h)
      BY <3>0, <3>3 DEF RegisterFails, InsertRow, Holding
    <3>4. CASE FindUser(h)
      BY <3>4 DEF FindUser, Complete, Holding
    <3>5. CASE FindUserFails(h)
      BY <3>5 DEF FindUserFails, Holding
    <3>6. CASE UpdateUser(h)
      BY <3>6 DEF UpdateUser, Complete, Holding
    <3>7. CASE UpdateUserFails(h)
      BY <3>7 DEF UpdateUserFails, Holding
    <3>8. CASE Notify(h)
      BY <3>8 DEF Notify, Complete, Holding
    <3>9. CASE Unregister(h)
      BY <3>9 DEF Unregister
    <3> QED
      BY <1>3, <3>1, <3>2, <3>3, <3>4, <3>5, <3>6, <3>7, <3>8, <3>9 DEF Handle
  <2>3. BurnedOnlyInDoubt'
    BY <1>1, <2>1 DEF RowInv, BurnedOnlyInDoubt
  <2>4. \A g \in Handlers : pc'[g] = "ack" => event'[g] \in completed' \cup doubted'
    BY <1>1, <2>1, <2>2 DEF RowInv
  <2>5. ASSUME NEW e \in registered'
        PROVE  e \in completed' \cup doubted' \/ \E g \in Handlers : Holds(g, e)'
    <3>1. CASE e = event[h]
      BY <2>1, <2>2, <3>1 DEF Holds
    <3>2. CASE e # event[h]
      <4>1. e \in completed \cup doubted \/ \E g \in Handlers : Holds(g, e)
        BY <1>1, <2>1, <3>2 DEF RowInv
      <4> QED
        BY <2>1, <3>2, <4>1 DEF Holds
    <3> QED
      BY <3>1, <3>2
  <2> QED
    BY <2>3, <2>4, <2>5 DEF RowInv
<1> QED
  BY <1>2, <1>3

\* What it does to the writes: a request that could insert the row found none
\* because no update of the event stands, or the update was not acknowledged.
LEMMA WriteStep ==
    ASSUME IInv, DoubtInv, NEW h \in Handlers, Handle(h)
    PROVE  WriteInv'
<1> USE DEF Goto, stripeVars, table, accounts, history, doubts, attempt, found, requests
<1> USE RetentionAssumption, DaysAssumption
<1>0. /\ pc \in [Handlers -> Labels]
      /\ event \in [Handlers -> Events \cup {NoEvent}]
      /\ outbox \in [Events -> {"unsent", "pending", "delivered"}]
      /\ emittedAt \in [Events -> Nat] /\ since \in [Handlers -> Nat] /\ day \in Nat
      /\ writes \in [Events -> Nat] /\ unacked \in [Events -> Nat]
  BY DEF IInv, TypeOK
<1>1. /\ WriteInv /\ event[h] \in Events /\ outbox[event[h]] # "unsent"
      /\ day <= emittedAt[event[h]] + RetryDays + 1
  <2>1. Active(h)
    BY DEF Active, Handle, RegisterDuplicate, RegisterNew, RegisterFails, FindUser,
        FindUserFails, UpdateUser, UpdateUserFails, Notify, Unregister, Respond
  <2> QED
    BY <1>0, <2>1 DEF DoubtInv, IInv, RequestInv
<1>2. pc[h] \in Holding => event[h] \in registered
  BY DEF IInv, HolderInv
<1>3. \A g \in Handlers : pc[g] \in Holding /\ pc[h] \in Holding /\ event[g] = event[h] => g = h
  BY <1>1 DEF IInv, ExclusiveProcessing, Holds
<1> USE <1>0, <1>1, <1>2, <1>3
<1>4. CASE RegisterDuplicate(h)
  BY <1>4 DEF RegisterDuplicate, WriteInv, AppliedAgainOnlyInDoubt
<1>5. CASE RegisterNew(h)
  BY <1>5 DEF RegisterNew, InsertRow, Complete, WriteInv, AppliedAgainOnlyInDoubt
<1>6. CASE RegisterFails(h)
  BY <1>6 DEF RegisterFails, InsertRow, WriteInv, AppliedAgainOnlyInDoubt
<1>7. CASE FindUser(h)
  BY <1>7 DEF FindUser, Complete, WriteInv, AppliedAgainOnlyInDoubt
<1>8. CASE FindUserFails(h)
  BY <1>8 DEF FindUserFails, WriteInv, AppliedAgainOnlyInDoubt
<1>9. CASE UpdateUser(h)
  BY <1>9 DEF UpdateUser, WriteUser, Complete, WriteInv, AppliedAgainOnlyInDoubt, Holding
<1>10. CASE UpdateUserFails(h)
  <2>1. /\ UNCHANGED <<registered, event, outbox, emittedAt, day>>
        /\ pc' = [pc EXCEPT ![h] = "unregister"] /\ pc[h] = "update"
        /\ \/ UNCHANGED <<writes, unacked>>
           \/ /\ writes' = [writes EXCEPT ![event[h]] = @ + 1]
              /\ unacked' = [unacked EXCEPT ![event[h]] = @ + 1]
    BY <1>10 DEF UpdateUserFails, WriteUser
  <2>2. \A e \in Events :
            \/ writes'[e] = writes[e] /\ unacked'[e] = unacked[e]
            \/ e = event[h] /\ writes'[e] = writes[e] + 1 /\ unacked'[e] = unacked[e] + 1
    BY <2>1
  <2>3. AppliedAgainOnlyInDoubt'
    BY <2>2 DEF WriteInv, AppliedAgainOnlyInDoubt
  <2>4. ASSUME NEW g \in Handlers, pc'[g] \in {"find", "update", "unregister"}
        PROVE  writes'[event'[g]] <= unacked'[event'[g]]
    <3>1. pc[g] \in {"find", "update", "unregister"}
      BY <2>1, <2>4
    <3>2. event[g] \in Events
      BY <3>1 DEF IInv, RequestInv, Active
    <3>3. writes[event[g]] <= unacked[event[g]]
      BY <3>1 DEF WriteInv
    <3> QED
      BY <2>1, <2>2, <3>2, <3>3
  <2>5. ASSUME NEW e \in Events
        PROVE  /\ outbox'[e] = "unsent" => writes'[e] = 0
               /\ writes'[e] > unacked'[e] =>
                      e \in registered' \/ day' > emittedAt'[e] + RetentionDays
    BY <2>1, <2>2 DEF WriteInv
  <2> QED
    BY <2>3, <2>4, <2>5 DEF WriteInv
<1>11. CASE Notify(h)
  BY <1>11 DEF Notify, Complete, WriteInv, AppliedAgainOnlyInDoubt
<1>12. CASE Unregister(h)
  BY <1>12 DEF Unregister, WriteInv, AppliedAgainOnlyInDoubt
<1>13. CASE Respond(h)
  BY <1>13 DEF Respond, Free, WriteInv, AppliedAgainOnlyInDoubt
<1> QED
  BY <1>4, <1>5, <1>6, <1>7, <1>8, <1>9, <1>10, <1>11, <1>12, <1>13 DEF Handle

LEMMA DoubtStep ==
    ASSUME IInv, DoubtInv, [Next]_vars
    PROVE  DoubtInv'
<1> USE DEF stripeVars, table, accounts, history, doubts, attempt, found, requests
<1>0. TypeOK /\ EventInv
  BY DEF IInv
<1>1. ASSUME NEW e \in Events, NEW p \in Payloads, Emit(e, p) PROVE DoubtInv'
  BY <1>1, DoubtEmit
<1>2. ASSUME NEW e \in Events, NEW h \in Handlers, Deliver(e, h) PROVE DoubtInv'
  <2>1. /\ pc'[h] = "register" /\ pc[h] = "idle"
        /\ \A g \in Handlers : g # h => pc'[g] = pc[g] /\ event'[g] = event[g]
        /\ UNCHANGED <<outbox, emittedAt, registered, day, writes, completed, unacked, doubted>>
    BY <1>0, <1>2 DEF Deliver, Goto, TypeOK
  <2>2. \A g \in Handlers, d \in Events : Holds(g, d) => Holds(g, d)'
    BY <2>1 DEF Holds, Holding
  <2>3. RowInv'
    BY <1>0, <2>1, <2>2 DEF DoubtInv, RowInv, BurnedOnlyInDoubt, TypeOK
  <2>4. WriteInv'
    BY <2>1 DEF DoubtInv, WriteInv, AppliedAgainOnlyInDoubt
  <2> QED
    BY <2>3, <2>4 DEF DoubtInv
<1>3. ASSUME NEW h \in Handlers, Handle(h) PROVE DoubtInv'
  BY <1>3, RowStep, WriteStep DEF DoubtInv
<1>4. CASE Crash
  <2> USE <1>4 DEF Crash
  <2>1. RowInv'
    BY <1>0 DEF DoubtInv, RowInv, BurnedOnlyInDoubt, TypeOK
  <2>2. WriteInv'
    BY DEF DoubtInv, WriteInv, AppliedAgainOnlyInDoubt
  <2> QED
    BY <2>1, <2>2 DEF DoubtInv
<1>5. CASE Midnight
  <2> USE <1>5 DEF Midnight
  <2>1. RowInv'
    BY DEF DoubtInv, RowInv, BurnedOnlyInDoubt, Holds
  <2>2. WriteInv'
    BY <1>0, DaysAssumption DEF DoubtInv, WriteInv, AppliedAgainOnlyInDoubt, TypeOK
  <2> QED
    BY <2>1, <2>2 DEF DoubtInv
<1>6. CASE deleteOlderThan
  <2> USE <1>6 DEF deleteOlderThan
  <2>1. RowInv'
    BY DEF DoubtInv, RowInv, BurnedOnlyInDoubt, Holds
  <2>2. \A e \in registered : Expired(e) => day > emittedAt[e] + RetentionDays
    BY <1>0, DaysAssumption DEF Expired, EventInv, TypeOK
  <2>3. WriteInv'
    BY <2>2 DEF DoubtInv, WriteInv, AppliedAgainOnlyInDoubt
  <2> QED
    BY <2>1, <2>3 DEF DoubtInv
<1>7. ASSUME NEW h \in Handlers, TimeOut(h) PROVE DoubtInv'
  BY <1>7, DoubtStutter DEF TimeOut
<1>8. ASSUME NEW u \in Users, DeleteUser(u) PROVE DoubtInv'
  BY <1>8, DoubtStutter DEF DeleteUser
<1>9. CASE UNCHANGED vars
  BY <1>9, DoubtStutter DEF vars
<1> QED
  BY <1>1, <1>2, <1>3, <1>4, <1>5, <1>6, <1>7, <1>8, <1>9 DEF Next

LEMMA Doubts == Spec => []DoubtInv
<1>1. Init => DoubtInv
  BY DEF Init, NothingSent, DoubtInv, RowInv, WriteInv, BurnedOnlyInDoubt,
      AppliedAgainOnlyInDoubt
<1>2. IInv /\ DoubtInv /\ [Next]_vars => DoubtInv'
  BY DoubtStep
<1> QED
  BY <1>1, <1>2, Invariance, PTL DEF Spec

\* An event that Stripe stops sending was processed, or its row was left in doubt by a
\* crash, a lost answer of the insert, a failed compensation or a time-out: no other
\* failure burns it, whatever else fails.
THEOREM NotBurned == Spec => []BurnedOnlyInDoubt
<1>1. DoubtInv => BurnedOnlyInDoubt
  BY DEF DoubtInv, RowInv
<1> QED
  BY <1>1, Doubts, PTL

\* A plan change is applied once, and once more for every update whose commit was
\* reported to the handler as a failure, under all the faults.
THEOREM AppliedOnce == Spec => []AppliedAgainOnlyInDoubt
<1>1. DoubtInv => AppliedAgainOnlyInDoubt
  BY DEF DoubtInv, WriteInv
<1> QED
  BY <1>1, Doubts, PTL

------------------------------------------------------------------------------
(* What redelivery promises when calls are rejected but every answer arrives *)

\* The database rejects calls and Redis refuses jobs; nothing times out, no process
\* dies, no committed write is reported as failed, and the compensation works.
OnlyRejections == FaultKinds \subseteq {"rejected", "queue"}

\* A step that leaves the requests, the table and the history alone.
LEMMA RedeliveryStutter ==
    ASSUME RedeliveryInv,
           UNCHANGED <<outbox, registered, awaiting, pc, event, writes, completed>>
    PROVE  RedeliveryInv'
BY DEF RedeliveryInv, Active, Holds

LEMMA RedeliveryEmit ==
    ASSUME IInv, RedeliveryInv, NEW e \in Events, NEW p, Emit(e, p)
    PROVE  RedeliveryInv'
<1>1. TypeOK /\ RequestInv
  BY DEF IInv
<1>2. \A h \in Handlers : Active(h) => event[h] # e
  BY <1>1 DEF RequestInv, Emit
<1> QED
  BY <1>1, <1>2 DEF Emit, RedeliveryInv, TypeOK, Active, Holds, RequestInv,
      table, accounts, requests, attempt, found, history, doubts

LEMMA RedeliveryStep ==
    ASSUME OnlyRejections, IInv, RedeliveryInv, [Next]_vars
    PROVE  RedeliveryInv'
<1> USE NoEventAssumption DEF Fault, NoFault, Goto, stripeVars, table, accounts, history, doubts,
        attempt, found, requests
<1>0. TypeOK /\ RequestInv /\ HolderInv /\ EventInv
  BY DEF IInv
<1> DEFINE Row(e) == e \in completed \/ \E h \in Handlers : Holds(h, e)
           Written(e) == e \in completed \/ \E h \in Handlers : pc[h] = "notify" /\ event[h] = e
<1>1. ASSUME NEW e \in Events, NEW p \in Payloads, Emit(e, p) PROVE RedeliveryInv'
  BY <1>1, RedeliveryEmit
<1>2. ASSUME NEW e \in Events, NEW h \in Handlers, Deliver(e, h) PROVE RedeliveryInv'
  <2> USE <1>2 DEF Deliver
  <2>1. \A g \in Handlers : Active(g) => event[g] # e
    BY DEF RedeliveryInv
  <2>2. \A g \in Handlers : g # h => pc'[g] = pc[g] /\ event'[g] = event[g] /\ awaiting'[g] = awaiting[g]
    BY <1>0 DEF TypeOK
  <2>3. pc'[h] = "register" /\ event'[h] = e /\ awaiting'[h]
    BY <1>0 DEF TypeOK
  <2>4. \A d \in registered : Row(d)'
    BY <2>2 DEF RedeliveryInv, Holds, Holding
  <2>5. \A d \in Events : writes[d] > 0 => Written(d)'
    BY <2>2 DEF RedeliveryInv
  <2> QED
    BY <2>1, <2>2, <2>3, <2>4, <2>5 DEF RedeliveryInv, Active
<1>3. ASSUME NEW h \in Handlers, TimeOut(h) PROVE RedeliveryInv'
  BY <1>3 DEF TimeOut, OnlyRejections
<1>4. ASSUME NEW h \in Handlers, Handle(h), pc[h] \notin {"ack", "nack"} PROVE RedeliveryInv'
  <2>1. /\ event[h] \in Events /\ Active(h)
        /\ pc[h] \in Holding => event[h] \notin completed
    BY <1>0, <1>4 DEF RequestInv, HolderInv, Active, Handle, RegisterDuplicate, RegisterNew,
        RegisterFails, FindUser, FindUserFails, UpdateUser, UpdateUserFails, Notify,
        Unregister, Respond
  <2>2. \A g \in Handlers : g # h => pc'[g] = pc[g] /\ (Active(g) => event[g] # event[h])
    BY <1>0, <1>4, <2>1 DEF RedeliveryInv, TypeOK, Handle, RegisterDuplicate, RegisterNew,
        RegisterFails, FindUser, FindUserFails, UpdateUser, UpdateUserFails, Notify,
        Unregister, Respond, Complete
  <2>3. UNCHANGED <<outbox, event, awaiting>>
    BY <1>4 DEF Handle, RegisterDuplicate, RegisterNew, RegisterFails, FindUser,
        FindUserFails, UpdateUser, UpdateUserFails, Notify, Unregister, Respond
  <2>4. /\ pc'[h] # "idle"
        /\ completed \subseteq completed'
        /\ pc'[h] = "ack" => event[h] \in completed'
        /\ \A e \in Events : e # event[h] =>
               /\ writes'[e] = writes[e]
               /\ e \in registered' => e \in registered
        /\ event[h] \in registered' => event[h] \in completed' \/ pc'[h] \in Holding
        /\ writes'[event[h]] > 0 => event[h] \in completed' \/ pc'[h] = "notify"
        /\ writes'[event[h]] <= 1
    <3> USE <2>1, <2>2
    <3>0. /\ pc \in [Handlers -> Labels] /\ writes \in [Events -> Nat]
          /\ registered \subseteq Events /\ completed \subseteq Events
      BY <1>0 DEF TypeOK
    <3>1. /\ event[h] \in registered => event[h] \in completed \/ pc[h] \in Holding
          /\ writes[event[h]] > 0 => event[h] \in completed \/ pc[h] = "notify"
          /\ writes[event[h]] <= 1
      BY <3>0 DEF RedeliveryInv, Holds, Holding, Active
    <3>2. CASE RegisterDuplicate(h)
      BY <3>0, <3>1, <3>2 DEF RegisterDuplicate, Holding
    <3>3. CASE RegisterNew(h)
      BY <3>0, <3>1, <3>3 DEF RegisterNew, InsertRow, Complete, Holding
    <3>4. CASE RegisterFails(h)
      BY <3>0, <3>1, <3>4 DEF RegisterFails, OnlyRejections, Holding
    <3>5. CASE FindUser(h)
      BY <3>0, <3>1, <3>5 DEF FindUser, Complete, Holding
    <3>6. CASE FindUserFails(h)
      BY <3>0, <3>1, <3>6 DEF FindUserFails, Holding
    <3>7. CASE UpdateUser(h)
      BY <3>0, <3>1, <3>7 DEF UpdateUser, WriteUser, Complete, Holding
    <3>8. CASE UpdateUserFails(h)
      BY <3>0, <3>1, <3>8 DEF UpdateUserFails, OnlyRejections, Holding
    <3>9. CASE Notify(h)
      BY <3>0, <3>1, <3>9 DEF Notify, Complete, Holding
    <3>10. CASE Unregister(h)
      BY <3>0, <3>1, <3>10 DEF Unregister, OnlyRejections, Holding
    <3> QED
      BY <1>4, <3>2, <3>3, <3>4, <3>5, <3>6, <3>7, <3>8, <3>9, <3>10 DEF Handle, Respond
  <2>5. \A g \in Handlers : Active(g)' <=> Active(g)
    BY <2>1, <2>2, <2>4 DEF Active
  <2>6. \A g \in Handlers : pc'[g] = "ack" => event[g] \in completed'
    BY <2>1, <2>2, <2>4 DEF RedeliveryInv, Active
  <2>7. ASSUME NEW e \in registered' PROVE Row(e)'
    <3>1. CASE e = event[h]
      BY <2>3, <2>4, <3>1 DEF Holds
    <3>2. CASE e # event[h]
      <4>1. e \in Events /\ e \in registered
        BY <1>0, <1>4, <2>1, <2>4, <3>2 DEF TypeOK, Handle, RegisterDuplicate, RegisterNew,
            RegisterFails, InsertRow, FindUser, FindUserFails, UpdateUser, UpdateUserFails,
            Notify, Unregister, Respond, OnlyRejections
      <4>2. CASE e \in completed
        BY <2>4, <4>2
      <4>3. ASSUME NEW g \in Handlers, Holds(g, e) PROVE Row(e)'
        <5>1. g # h
          BY <3>2, <4>3 DEF Holds
        <5> QED
          BY <2>2, <2>3, <4>3, <5>1 DEF Holds
      <4> QED
        BY <4>1, <4>2, <4>3 DEF RedeliveryInv
    <3> QED
      BY <3>1, <3>2
  <2>8. ASSUME NEW e \in Events, writes'[e] > 0 PROVE Written(e)'
    <3>1. CASE e = event[h]
      BY <2>3, <2>4, <2>8, <3>1
    <3>2. CASE e # event[h]
      <4>1. Written(e)
        BY <2>4, <2>8, <3>2 DEF RedeliveryInv
      <4> QED
        BY <2>2, <2>3, <2>4, <3>2, <4>1
    <3> QED
      BY <3>1, <3>2
  <2>9. \A e \in Events : writes'[e] <= 1
    BY <2>4 DEF RedeliveryInv
  <2>10. \A e \in Events : outbox'[e] = "delivered" => e \in completed'
    BY <2>3, <2>4 DEF RedeliveryInv
  <2> QED
    BY <2>3, <2>5, <2>6, <2>7, <2>8, <2>9, <2>10 DEF RedeliveryInv
<1>5. ASSUME NEW h \in Handlers, Respond(h) PROVE RedeliveryInv'
  <2> USE <1>5 DEF Respond, Free
  <2>1. event[h] \in Events /\ Active(h)
    BY <1>0 DEF RequestInv, Active
  <2>2. \A g \in Handlers : g # h => /\ pc'[g] = pc[g] /\ event'[g] = event[g]
                                     /\ awaiting'[g] = awaiting[g]
    BY <1>0 DEF TypeOK
  <2>3. pc'[h] = "idle"
    BY <1>0 DEF TypeOK
  <2>4. \A g \in Handlers : Active(g)' => g # h /\ Active(g) /\ event[g] # event[h]
    BY <2>1, <2>2, <2>3 DEF RedeliveryInv, Active
  <2>5. \A e \in Events : e # event[h] => outbox'[e] = outbox[e]
    BY <1>0 DEF TypeOK
  <2>6. \A e \in Events : outbox'[e] = "delivered" => e \in completed
    BY <1>0, <2>1, <2>5 DEF RedeliveryInv, TypeOK
  <2>7. \A e \in registered : Row(e)'
    BY <2>2 DEF RedeliveryInv, Holds, Holding
  <2>8. \A e \in Events : writes[e] > 0 => Written(e)'
    BY <2>2 DEF RedeliveryInv
  <2>9. \A g \in Handlers : Active(g)' =>
           /\ awaiting'[g] /\ outbox'[event'[g]] = "pending"
           /\ pc'[g] = "ack" => event'[g] \in completed
    BY <1>0, <2>2, <2>4, <2>5 DEF RedeliveryInv, RequestInv, Active
  <2>10. \A f, g \in Handlers : Active(f)' /\ Active(g)' /\ event'[f] = event'[g] => f = g
    BY <2>2, <2>4 DEF RedeliveryInv
  <2> QED
    BY <2>6, <2>7, <2>8, <2>9, <2>10 DEF RedeliveryInv
<1>6. CASE Crash
  BY <1>6 DEF Crash, OnlyRejections
<1>7. CASE Midnight
  BY <1>7, RedeliveryStutter DEF Midnight
<1>8. CASE deleteOlderThan
  BY <1>8 DEF deleteOlderThan, RedeliveryInv, Active, Holds
<1>9. ASSUME NEW u \in Users, DeleteUser(u) PROVE RedeliveryInv'
  BY <1>9, RedeliveryStutter DEF DeleteUser
<1>10. CASE UNCHANGED vars
  BY <1>10, RedeliveryStutter DEF vars
<1>11. ASSUME NEW h \in Handlers, Handle(h) PROVE RedeliveryInv'
  <2>1. CASE pc[h] \in {"ack", "nack"}
    BY <1>5, <1>11, <2>1 DEF Handle, RegisterDuplicate, RegisterNew, RegisterFails, FindUser,
        FindUserFails, UpdateUser, UpdateUserFails, Notify, Unregister
  <2> QED
    BY <1>4, <1>11, <2>1
<1> QED
  BY <1>1, <1>2, <1>3, <1>6, <1>7, <1>8, <1>9, <1>10, <1>11 DEF Next

LEMMA Redelivery == ASSUME OnlyRejections PROVE Spec => []RedeliveryInv
<1>1. Init => RedeliveryInv
  BY DEF Init, NothingSent, RedeliveryInv, Active, Holds
<1>2. IInv /\ RedeliveryInv /\ [Next]_vars => RedeliveryInv'
  BY RedeliveryStep
<1> QED
  BY <1>1, <1>2, Invariance, PTL DEF Spec

------------------------------------------------------------------------------
(* Types *)

LEMMA PriceType == \A wanted : priceIdForPlan(wanted) \in Price
BY DEF priceIdForPlan, Price

LEMMA InvoiceType ==
    ASSUME NEW c \in Customers \cup {NoCustomer}, NEW price \in Price \cup {NoPrice}
    PROVE  InvoicePaid(c, price) \in Payload
BY DEF InvoicePaid, Payload, EventTypes

LEMMA UpdatedType ==
    ASSUME BillingTypeOK, NEW s \in Subscriptions, NEW price \in Price \cup {NoPrice}
    PROVE  SubscriptionUpdated(s, price) \in Payload
<1>1. subCustomer[s] \in Customers \cup {NoCustomer}
  BY DEF BillingTypeOK
<1>2. (~cancelling'[s]) \in BOOLEAN
  OBVIOUS
<1> QED
  BY <1>1, <1>2, Zenon DEF SubscriptionUpdated, Payload, EventTypes

LEMMA DeletedType ==
    ASSUME BillingTypeOK, NEW s \in Subscriptions
    PROVE  SubscriptionDeleted(s) \in Payload
BY DEF BillingTypeOK, SubscriptionDeleted, Payload, EventTypes

LEMMA SendOne ==
    ASSUME upcoming \in Seq(Payload), NEW p \in Payload, Send(<<p>>)
    PROVE  upcoming' \in Seq(Payload)
BY DEF Send

LEMMA SendTwo ==
    ASSUME upcoming \in Seq(Payload), NEW p \in Payload, NEW r \in Payload, Send(<<p, r>>)
    PROVE  upcoming' \in Seq(Payload)
BY DEF Send

------------------------------------------------------------------------------
(* The webhook among the billing requests *)

\* Billing writes accounts and counts its faults, and leaves the rest to the webhook.
LEMMA AccountsInv ==
    ASSUME IInv, UNCHANGED webhookVars,
           users' \subseteq Users,
           plan' \in [Users -> Plan],
           stripePriceId' \in [Users -> Price \cup {NoPrice}],
           stripeCustomerId' \in [Users -> Customers \cup {NoCustomer}],
           faults' \in 0..MaxFaults
    PROVE  IInv'
<1> USE DEF IInv, webhookVars, stripeVars, table, requests, attempt, found, history, doubts
<1>1. TypeOK'
  BY DEF TypeOK
<1> QED
  BY <1>1 DEF RequestInv, Active, HolderInv, EventInv, ExclusiveProcessing, Holds,
      OneMailJobPerEvent, MailFollowsUpdate

\* What a step does to the webhook's state.
WebhookPart ==
    \/ Next
    \/ \E e \in Events, p \in Payload : Emit(e, p)
    \/ /\ UNCHANGED webhookVars
       /\ users' \subseteq Users
       /\ plan' \in [Users -> Plan]
       /\ stripePriceId' \in [Users -> Price \cup {NoPrice}]
       /\ stripeCustomerId' \in [Users -> Customers \cup {NoCustomer}]
       /\ faults' \in 0..MaxFaults

LEMMA StepsOfTheWebhook ==
    ASSUME IInv, BillingInv, [BillingNext]_billing
    PROVE  WebhookPart
<1> USE DEF IInv, TypeOK, BillingInv
<1>0. ASSUME UNCHANGED vars PROVE WebhookPart
  BY <1>0 DEF WebhookPart, vars, webhookVars, accounts
<1>1. ASSUME NEW o \in Slots, NEW u \in Users, NEW wanted \in Plan, Signup(o, u, wanted)
      PROVE  WebhookPart
  BY <1>1 DEF WebhookPart, Signup
<1>2. ASSUME NEW o \in Slots, LinkCustomer(o) PROVE WebhookPart
  <2>1. opUser[o] \in Users /\ opCustomer[o] \in Customers
    BY <1>2 DEF LinkCustomer, SlotInv
  <2> QED
    BY <1>2, <2>1 DEF WebhookPart, LinkCustomer
<1>3. ASSUME NEW o \in Slots, SavePriceId(o) PROVE WebhookPart
  BY <1>3, PriceType DEF WebhookPart, SavePriceId
<1>4. ASSUME NEW o \in Slots, OpFails(o) PROVE WebhookPart
  BY <1>4, FaultsAssumption DEF WebhookPart, OpFails, Fault, accounts
<1>5. CASE EmitNext
  <2>1. PICK e \in Events : Emit(e, Head(upcoming))
    BY <1>5 DEF EmitNext
  <2>2. Head(upcoming) \in Payload
    BY <1>5 DEF EmitNext, BillingTypeOK
  <2> QED
    BY <2>1, <2>2 DEF WebhookPart
<1>6. ASSUME NEW o \in Slots, Serve(o) PROVE WebhookPart
  BY <1>0, <1>2, <1>3, <1>6 DEF Serve, FindById, CreateCustomer, AttachPaymentMethod,
      RetrieveCustomer, CreateSubscription, getActiveSubscription, CancelAtPeriodEnd,
      UpdateSubscription, UpdateRefused
<1>7. ASSUME NEW e \in Events, NEW h \in Handlers, DeliverNext(e, h) PROVE WebhookPart
  BY <1>7 DEF DeliverNext, WebhookPart, Next
<1>8. ASSUME NEW h \in Handlers, Handle(h) PROVE WebhookPart
  BY <1>8 DEF WebhookPart, Next
<1> QED
  BY <1>0, <1>1, <1>4, <1>5, <1>6, <1>7, <1>8
     DEF BillingNext, billing, Request, ConfirmCard, Renew, End

LEMMA WebhookStep ==
    ASSUME IInv, BillingInv, [BillingNext]_billing
    PROVE  IInv'
BY StepsOfTheWebhook, StepInv, EmitInv, AccountsInv DEF WebhookPart

LEMMA RedeliveryWhileBilling ==
    ASSUME OnlyRejections, IInv, BillingInv, RedeliveryInv, [BillingNext]_billing
    PROVE  RedeliveryInv'
<1>1. CASE UNCHANGED webhookVars
  BY <1>1, RedeliveryStutter DEF webhookVars, stripeVars, table, requests, attempt, history, doubts
<1> QED
  BY <1>1, StepsOfTheWebhook, RedeliveryStep, RedeliveryEmit DEF WebhookPart

LEMMA DoubtWhileBilling ==
    ASSUME IInv, BillingInv, DoubtInv, [BillingNext]_billing
    PROVE  DoubtInv'
<1>1. CASE UNCHANGED webhookVars
  BY <1>1, DoubtStutter DEF webhookVars, requests, attempt, table, history
<1> QED
  BY <1>1, StepsOfTheWebhook, DoubtStep, DoubtEmit DEF WebhookPart

------------------------------------------------------------------------------
(* Billing's own invariant *)

\* The steps of the webhook and of Stripe's deliveries.
LEMMA WebhookKeepsBilling ==
    ASSUME IInv, BillingInv, UNCHANGED billingVars,
           NEW h \in Handlers, Handle(h) \/ \E e \in Events : Deliver(e, h)
    PROVE  BillingInv'
<1> USE DEF BillingInv, billingVars, stripeState, subscriptionVars, opVars, opData
<1>1. BillingTypeOK' /\ SlotInv'
  BY DEF BillingTypeOK, SlotInv
<1>2. UNCHANGED <<stripeCustomerId, payload>>
  BY DEF Handle, RegisterDuplicate, RegisterNew, RegisterFails, FindUser, FindUserFails,
      UpdateUser, UpdateUserFails, Notify, Unregister, Respond, Deliver, accounts, stripeVars
<1>3. LinkInv'
  BY <1>2 DEF LinkInv
<1>4. \A g \in Handlers : g # h => pc'[g] = pc[g] /\ event'[g] = event[g] /\ user'[g] = user[g]
  BY DEF IInv, TypeOK, Goto, Complete, Handle, RegisterDuplicate, RegisterNew, RegisterFails,
      FindUser, FindUserFails, UpdateUser, UpdateUserFails, Notify, Unregister, Respond, Free,
      Deliver, attempt, found
<1>5. ASSUME pc'[h] \in {"find", "update"} PROVE event'[h] = event[h]
  BY <1>5 DEF IInv, TypeOK, Goto, Complete, Handle, RegisterDuplicate, RegisterNew,
      RegisterFails, FindUser, FindUserFails, UpdateUser, UpdateUserFails, Notify, Unregister,
      Respond, Free, Deliver, attempt
<1>6. ASSUME pc'[h] = "find" PROVE payload[event[h]].customer \in Customers
  <2>1. RegisterNew(h) /\ NeedsUser(payload[event[h]])
    BY <1>6 DEF IInv, TypeOK, Goto, Complete, Handle, RegisterDuplicate, RegisterNew,
        RegisterFails, FindUser, FindUserFails, UpdateUser, UpdateUserFails, Notify,
        Unregister, Respond, Free, Deliver
  <2>2. payload[event[h]] \in Payload
    BY <2>1 DEF RegisterNew, IInv, TypeOK, RequestInv, Active
  <2> QED
    BY <2>1, <2>2 DEF NeedsUser, Payload
<1>7. ASSUME pc'[h] = "update"
      PROVE  /\ payload[event[h]].customer \in Customers
             /\ user'[h] \in Users /\ owner[payload[event[h]].customer] = user'[h]
  <2>1. FindUser(h) /\ user'[h] \in UsersToUpdate(payload[event[h]])
    BY <1>7 DEF IInv, TypeOK, Goto, Complete, Handle, RegisterDuplicate, RegisterNew,
        RegisterFails, FindUser, FindUserFails, UpdateUser, UpdateUserFails, Notify,
        Unregister, Respond, Free, Deliver
  <2>2. payload[event[h]].customer \in Customers
    BY <2>1 DEF FindUser, CreditInv
  <2>3. user'[h] \in users /\ stripeCustomerId[user'[h]] = payload[event[h]].customer
    BY <2>1 DEF UsersToUpdate, findByStripeCustomerId
  <2>4. user'[h] \in Users
    BY <2>3 DEF IInv, TypeOK
  <2> QED
    BY <2>2, <2>3, <2>4, NoCustomerAssumption DEF LinkInv
<1>8. CreditInv'
  BY <1>2, <1>4, <1>5, <1>6, <1>7 DEF CreditInv
<1> QED
  BY <1>1, <1>3, <1>8

\* A step that leaves the handlers, what they handle and the customers alone.
LEMMA CreditStutter ==
    ASSUME CreditInv, UNCHANGED <<pc, event, user, payload, owner>>
    PROVE  CreditInv'
BY DEF CreditInv

\* The response leaves nothing of a request, nor anything of another.
LEMMA DoneInv ==
    ASSUME BillingTypeOK, SlotInv, NEW o \in Slots, Done(o), UNCHANGED owner
    PROVE  /\ SlotInv'
           /\ opPc' \in [Slots -> {"idle", "read", "create", "link", "attach", "retrieve",
                                   "subscribe", "list", "modify", "save"}]
           /\ opKind' \in [Slots -> Ops]
           /\ opUser' \in [Slots -> Users \cup {NoUser}]
           /\ opPlan' \in [Slots -> Plan]
           /\ opCustomer' \in [Slots -> Customers \cup {NoCustomer}]
           /\ opPrice' \in [Slots -> Price \cup {NoPrice}]
           /\ opSub' \in [Slots -> Subscriptions \cup {NoSubscription}]
BY DEF BillingTypeOK, SlotInv, Done, OpGoto, Ops, Plan

LEMMA BillingStep ==
    ASSUME IInv, BillingInv, [BillingNext]_billing
    PROVE  BillingInv'
<1> USE DEF BillingInv, OpGoto, stripeState, subscriptionVars, opVars, opData, vars,
        webhookVars, requests, attempt, found, stripeVars, accounts, table, history, doubts
<1>0. /\ stripeCustomerId \in [Users -> Customers \cup {NoCustomer}]
      /\ stripePriceId \in [Users -> Price \cup {NoPrice}]
      /\ users \subseteq Users
  BY DEF IInv, TypeOK
<1>1. ASSUME NEW o \in Slots, NEW u \in Users, NEW wanted \in Plan, Signup(o, u, wanted)
      PROVE  BillingInv'
  <2> USE <1>1 DEF Signup, Begin
  <2>1. BillingTypeOK'
    BY DEF BillingTypeOK, Ops
  <2>2. SlotInv'
    BY DEF BillingTypeOK, SlotInv
  <2> QED
    BY <2>1, <2>2, CreditStutter DEF LinkInv
<1>2. ASSUME NEW o \in Slots, NEW kind \in Ops, NEW u \in Users, NEW wanted \in Plan,
             Request(o, kind, u, wanted)
      PROVE  BillingInv'
  <2> USE <1>2 DEF Request, Begin
  <2>1. BillingTypeOK'
    BY DEF BillingTypeOK, Ops
  <2>2. SlotInv'
    BY DEF BillingTypeOK, SlotInv
  <2> QED
    BY <2>1, <2>2, CreditStutter DEF LinkInv
<1>3. ASSUME NEW o \in Slots, FindById(o) PROVE BillingInv'
  <2> USE <1>3 DEF FindById
  <2>1. CASE Done(o)
    BY <2>1, DoneInv, CreditStutter DEF BillingTypeOK, LinkInv
  <2>2. CASE ~Done(o)
    <3>1. opUser[o] \in Users
      BY DEF SlotInv
    <3>2. BillingTypeOK'
      BY <1>0, <2>2, <3>1 DEF BillingTypeOK
    <3>3. SlotInv'
      BY <1>0, <2>2, <3>1 DEF BillingTypeOK, SlotInv, LinkInv
    <3> QED
      BY <3>2, <3>3, CreditStutter DEF LinkInv
  <2> QED
    BY <2>1, <2>2
<1>4. ASSUME NEW o \in Slots, CreateCustomer(o) PROVE BillingInv'
  <2> USE <1>4 DEF CreateCustomer
  <2>1. opUser[o] \in Users
    BY DEF SlotInv
  <2>2. \A c \in Customers : owner[c] # NoUser => owner'[c] = owner[c]
    BY DEF BillingTypeOK
  <2>3. BillingTypeOK'
    BY <2>1 DEF BillingTypeOK
  <2>4. SlotInv'
    BY <2>1, <2>2, NoUserAssumption DEF BillingTypeOK, SlotInv
  <2>5. LinkInv'
    BY <1>0, <2>2, NoUserAssumption DEF LinkInv
  <2>6. CreditInv'
    BY <2>2, NoUserAssumption DEF CreditInv
  <2> QED
    BY <2>3, <2>4, <2>5, <2>6
<1>5. ASSUME NEW o \in Slots, LinkCustomer(o) PROVE BillingInv'
  <2> USE <1>5 DEF LinkCustomer
  <2>1. opUser[o] \in Users /\ opCustomer[o] \in Customers /\ owner[opCustomer[o]] = opUser[o]
    BY DEF SlotInv
  <2>2. LinkInv'
    BY <1>0, <2>1 DEF LinkInv
  <2>3. CASE Done(o)
    BY <2>2, <2>3, DoneInv, CreditStutter DEF BillingTypeOK
  <2>4. CASE ~Done(o)
    <3>1. BillingTypeOK'
      BY <2>4 DEF BillingTypeOK
    <3>2. SlotInv'
      BY <2>1, <2>4 DEF BillingTypeOK, SlotInv
    <3> QED
      BY <2>2, <3>1, <3>2, CreditStutter
  <2> QED
    BY <2>3, <2>4
<1>6. ASSUME NEW o \in Slots, AttachPaymentMethod(o) PROVE BillingInv'
  <2> USE <1>6 DEF AttachPaymentMethod
  <2>1. BillingTypeOK'
    BY DEF BillingTypeOK, SlotInv
  <2>2. SlotInv'
    BY DEF BillingTypeOK, SlotInv
  <2> QED
    BY <2>1, <2>2, CreditStutter DEF LinkInv
<1>7. ASSUME NEW o \in Slots, RetrieveCustomer(o) PROVE BillingInv'
  <2> USE <1>7 DEF RetrieveCustomer
  <2>1. CASE Done(o)
    BY <2>1, DoneInv, CreditStutter DEF BillingTypeOK, LinkInv
  <2>2. CASE ~Done(o)
    <3>1. BillingTypeOK'
      BY <2>2 DEF BillingTypeOK
    <3>2. SlotInv'
      BY <2>2 DEF BillingTypeOK, SlotInv
    <3> QED
      BY <3>1, <3>2, CreditStutter DEF LinkInv
  <2> QED
    BY <2>1, <2>2
<1>8. ASSUME NEW o \in Slots, CreateSubscription(o) PROVE BillingInv'
  <2> USE <1>8 DEF CreateSubscription
  <2>1. opUser[o] \in Users /\ opCustomer[o] \in Customers
    BY DEF SlotInv
  <2>2. upcoming' \in Seq(Payload)
    BY <2>1, PriceType, InvoiceType, SendOne DEF BillingTypeOK
  <2>3. BillingTypeOK'
    BY <2>1, <2>2, PriceType DEF BillingTypeOK
  <2>4. SlotInv'
    BY DEF BillingTypeOK, SlotInv
  <2> QED
    BY <2>3, <2>4, CreditStutter DEF LinkInv
<1>9. ASSUME NEW o \in Slots, getActiveSubscription(o) PROVE BillingInv'
  <2> USE <1>9 DEF getActiveSubscription
  <2>1. CASE Done(o)
    BY <2>1, DoneInv, CreditStutter DEF BillingTypeOK, LinkInv
  <2>2. CASE ~Done(o)
    <3>1. BillingTypeOK'
      BY <2>2 DEF BillingTypeOK
    <3>2. SlotInv'
      BY <2>2 DEF BillingTypeOK, SlotInv
    <3> QED
      BY <3>1, <3>2, CreditStutter DEF LinkInv
  <2> QED
    BY <2>1, <2>2
<1>10. ASSUME NEW o \in Slots, CancelAtPeriodEnd(o) PROVE BillingInv'
  <2> USE <1>10 DEF CancelAtPeriodEnd
  <2>1. opSub[o] \in Subscriptions
    BY DEF SlotInv
  <2>2. subPrice[opSub[o]] \in Price \cup {NoPrice}
    BY <2>1 DEF BillingTypeOK
  <2>3. upcoming' \in Seq(Payload)
    BY <2>1, <2>2, UpdatedType, SendOne DEF BillingTypeOK
  <2>4. cancelling' \in [Subscriptions -> BOOLEAN]
    BY <2>1 DEF BillingTypeOK
  <2> QED
    BY <2>3, <2>4, DoneInv, CreditStutter DEF BillingTypeOK, LinkInv
<1>11. ASSUME NEW o \in Slots, UpdateSubscription(o) PROVE BillingInv'
  <2> USE <1>11 DEF UpdateSubscription
  <2> DEFINE s == opSub[o]
             new == priceIdForPlan(opPlan[o])
  <2>1. s \in Subscriptions /\ new \in Price \cup {NoPrice}
    BY PriceType DEF SlotInv
  <2>2. subPrice[s] \in Price \cup {NoPrice} /\ subCustomer[s] \in Customers \cup {NoCustomer}
    BY <2>1 DEF BillingTypeOK
  <2>3. SubscriptionUpdated(s, new) \in Payload
    BY <2>1, UpdatedType
  <2>4. /\ InvoicePaid(subCustomer[s], new) \in Payload
        /\ InvoicePaid(subCustomer[s], subPrice[s]) \in Payload
    BY <2>1, <2>2, InvoiceType
  <2>5. upcoming \in Seq(Payload)
    BY DEF BillingTypeOK
  <2>6. ASSUME UNCHANGED upcoming PROVE upcoming' \in Seq(Payload)
    BY <2>5, <2>6
  <2>7. ASSUME Send(<<SubscriptionUpdated(s, new)>>) PROVE upcoming' \in Seq(Payload)
    BY <2>3, <2>5, <2>7, SendOne
  <2>8. ASSUME NEW first \in FirstLines,
               LET invoice == InvoicePaid(subCustomer[s],
                                  IF first = "charge" THEN new ELSE subPrice[s])
               IN  \/ Send(<<SubscriptionUpdated(s, new), invoice>>)
                   \/ Send(<<invoice, SubscriptionUpdated(s, new)>>)
        PROVE  upcoming' \in Seq(Payload)
    <3> DEFINE invoice == InvoicePaid(subCustomer[s],
                              IF first = "charge" THEN new ELSE subPrice[s])
    <3>1. invoice \in Payload
      BY <2>4
    <3>2. CASE Send(<<SubscriptionUpdated(s, new), invoice>>)
      BY <2>3, <2>5, <3>1, <3>2, SendTwo
    <3>3. CASE Send(<<invoice, SubscriptionUpdated(s, new)>>)
      BY <2>3, <2>5, <3>1, <3>3, SendTwo
    <3> QED
      BY <2>8, <3>2, <3>3
  <2>9. upcoming' \in Seq(Payload)
    BY <2>6, <2>7, <2>8
  <2>10. BillingTypeOK'
    BY <2>1, <2>9 DEF BillingTypeOK
  <2>11. SlotInv'
    BY DEF BillingTypeOK, SlotInv
  <2> QED
    BY <2>10, <2>11, CreditStutter DEF LinkInv
<1>12. ASSUME NEW o \in Slots, UpdateRefused(o) PROVE BillingInv'
  BY <1>12, DoneInv, CreditStutter DEF UpdateRefused, BillingTypeOK, LinkInv
<1>13. ASSUME NEW o \in Slots, SavePriceId(o) PROVE BillingInv'
  BY <1>13, DoneInv, CreditStutter DEF SavePriceId, BillingTypeOK, LinkInv
<1>14. ASSUME NEW o \in Slots, OpFails(o) PROVE BillingInv'
  BY <1>14, DoneInv, CreditStutter DEF OpFails, BillingTypeOK, LinkInv
<1>15. ASSUME NEW c \in Customers, ConfirmCard(c) PROVE BillingInv'
  <2>1. BillingTypeOK'
    BY <1>15 DEF ConfirmCard, BillingTypeOK
  <2> QED
    BY <1>15, <2>1, CreditStutter DEF ConfirmCard, SlotInv, LinkInv
<1>16. ASSUME NEW s \in Subscriptions, Renew(s) PROVE BillingInv'
  <2>1. upcoming' \in Seq(Payload)
    BY <1>16, InvoiceType, SendOne DEF Renew, BillingTypeOK
  <2> QED
    BY <1>16, <2>1, CreditStutter DEF Renew, BillingTypeOK, SlotInv, LinkInv
<1>17. ASSUME NEW s \in Subscriptions, End(s) PROVE BillingInv'
  <2>1. upcoming' \in Seq(Payload)
    BY <1>17, DeletedType, SendOne DEF End, BillingTypeOK
  <2> QED
    BY <1>17, <2>1, CreditStutter DEF End, BillingTypeOK, SlotInv, LinkInv
<1>18. CASE EmitNext
  <2> USE <1>18 DEF EmitNext, Emit
  <2>1. PICK e \in Events : Emit(e, Head(upcoming))
    OBVIOUS
  <2>2. \A h \in Handlers : pc[h] \in {"find", "update"} => event[h] \in Events /\ event[h] # e
    BY <2>1 DEF IInv, RequestInv, Active
  <2>3. CreditInv'
    BY <2>1, <2>2 DEF CreditInv, IInv, TypeOK
  <2>4. upcoming' \in Seq(Payload)
    BY DEF BillingTypeOK
  <2> QED
    BY <2>1, <2>3, <2>4 DEF BillingTypeOK, SlotInv, LinkInv
<1>19. CASE UNCHANGED billing
  BY <1>19, CreditStutter DEF billing, billingVars, BillingTypeOK, SlotInv, LinkInv
<1>20. ASSUME NEW h \in Handlers, UNCHANGED billingVars,
              Handle(h) \/ \E e \in Events : DeliverNext(e, h)
       PROVE  BillingInv'
  BY <1>20, WebhookKeepsBilling DEF DeliverNext
<1> QED
  BY <1>1, <1>2, <1>3, <1>4, <1>5, <1>6, <1>7, <1>8, <1>9, <1>10, <1>11, <1>12, <1>13, <1>14,
     <1>15, <1>16, <1>17, <1>18, <1>19, <1>20 DEF BillingNext, Serve

------------------------------------------------------------------------------
(* The plan follows the subscription *)

\* The steps that write what billing reads of an account, or the users of customers.
LEMMA AccountSteps ==
    ASSUME IInv, BillingInv, [BillingNext]_billing
    PROVE  \/ \E o \in Slots, u \in Users, wanted \in Plan : Signup(o, u, wanted)
           \/ \E o \in Slots : CreateCustomer(o) \/ LinkCustomer(o)
           \/ UNCHANGED <<users, owner, stripeCustomerId>>
<1> USE DEF billing, billingVars, stripeState, vars, accounts, webhookVars
<1>1. ASSUME NEW o \in Slots, Serve(o), ~CreateCustomer(o), ~LinkCustomer(o)
      PROVE  UNCHANGED <<users, owner, stripeCustomerId>>
  BY <1>1 DEF Serve, FindById, AttachPaymentMethod, RetrieveCustomer, CreateSubscription,
      getActiveSubscription, CancelAtPeriodEnd, UpdateSubscription, UpdateRefused, SavePriceId
<1>2. ASSUME NEW h \in Handlers, Handle(h) \/ \E e \in Events : DeliverNext(e, h),
             UNCHANGED billingVars
      PROVE  UNCHANGED <<users, owner, stripeCustomerId>>
  BY <1>2 DEF DeliverNext, Deliver, Handle, RegisterDuplicate, RegisterNew, RegisterFails,
      FindUser, FindUserFails, UpdateUser, UpdateUserFails, Notify, Unregister, Respond
<1>3. ASSUME \/ \E o \in Slots : OpFails(o)
             \/ \E o \in Slots, kind \in Ops, u \in Users, wanted \in Plan : Request(o, kind, u, wanted)
             \/ \E c \in Customers : ConfirmCard(c)
             \/ \E s \in Subscriptions : Renew(s) \/ End(s)
             \/ EmitNext
             \/ UNCHANGED billing
      PROVE  UNCHANGED <<users, owner, stripeCustomerId>>
  BY <1>3 DEF OpFails, Request, ConfirmCard, Renew, End, EmitNext, Emit
<1> QED
  BY <1>1, <1>2, <1>3 DEF BillingNext

\* Nobody leaves, and neither a customer nor a user's link to one is ever taken back.
LEMMA LinksStay ==
    ASSUME IInv, BillingInv, CustomerInv, [BillingNext]_billing
    PROVE  /\ users \subseteq users'
           /\ \A c \in Customers : owner[c] # NoUser => owner'[c] = owner[c]
           /\ \A u \in Users : stripeCustomerId[u] # NoCustomer =>
                  stripeCustomerId'[u] = stripeCustomerId[u]
<1> USE DEF webhookVars, stripeState, accounts, BillingInv, BillingTypeOK
<1>0. TypeOK
  BY DEF IInv
<1>1. ASSUME NEW o \in Slots, CreateCustomer(o)
      PROVE  /\ UNCHANGED <<users, stripeCustomerId>>
             /\ \A c \in Customers : owner[c] # NoUser => owner'[c] = owner[c]
  BY <1>1 DEF CreateCustomer, vars
<1>2. ASSUME NEW o \in Slots, LinkCustomer(o)
      PROVE  /\ UNCHANGED <<users, owner>>
             /\ \A u \in Users : stripeCustomerId[u] # NoCustomer =>
                    stripeCustomerId'[u] = stripeCustomerId[u]
  BY <1>0, <1>2 DEF LinkCustomer, CustomerInv, SlotInv, TypeOK
<1>3. ASSUME NEW o \in Slots, NEW u \in Users, NEW wanted \in Plan, Signup(o, u, wanted)
      PROVE  UNCHANGED <<owner, stripeCustomerId>> /\ users \subseteq users'
  BY <1>3 DEF Signup
<1> QED
  BY <1>1, <1>2, <1>3, AccountSteps

LEMMA StaysLinked ==
    ASSUME IInv, BillingInv, CustomerInv, [BillingNext]_billing, NEW c, Linked(c)
    PROVE  Linked(c)' /\ owner'[c] = owner[c]
<1>1. c \in Customers /\ owner[c] \in users /\ owner[c] \in Users /\ stripeCustomerId[owner[c]] = c
  BY DEF Linked, IInv, TypeOK
<1>2. owner[c] # NoUser /\ c # NoCustomer
  BY <1>1, NoUserAssumption, NoCustomerAssumption
<1> QED
  BY <1>1, <1>2, LinksStay DEF Linked

\* A request goes on with the customer it read or linked.
LEMMA CustomerStep ==
    ASSUME IInv, BillingInv, CustomerInv, OneRequestPerUser, [BillingNext]_billing
    PROVE  CustomerInv'
<1> USE DEF OpGoto, BillingInv, SlotInv, BillingTypeOK, opData
<1>0. /\ stripeCustomerId \in [Users -> Customers \cup {NoCustomer}] /\ users \subseteq Users
  BY DEF IInv, TypeOK
<1>1. users \subseteq users'
  BY LinksStay
<1>2. ASSUME NEW o \in Slots, UNCHANGED stripeCustomerId,
             \A p \in Slots : p # o => /\ opPc'[p] = opPc[p] /\ opUser'[p] = opUser[p]
                                       /\ opCustomer'[p] = opCustomer[p],
             opPc'[o] # "idle" => opUser'[o] \in users',
             opPc'[o] \in {"create", "link"} => stripeCustomerId[opUser'[o]] = NoCustomer,
             opPc'[o] \in {"attach", "retrieve", "subscribe"} =>
                 opCustomer'[o] = stripeCustomerId[opUser'[o]]
      PROVE  CustomerInv'
  BY <1>1, <1>2 DEF CustomerInv
<1>3. ASSUME NEW o \in Slots, Done(o), UNCHANGED stripeCustomerId PROVE CustomerInv'
  BY <1>2, <1>3 DEF Done
<1>4. ASSUME UNCHANGED <<opVars, stripeCustomerId>> PROVE CustomerInv'
  BY <1>1, <1>4 DEF CustomerInv, opVars
<1>5. ASSUME NEW o \in Slots, NEW u \in Users, NEW wanted \in Plan, Signup(o, u, wanted)
      PROVE  CustomerInv'
  BY <1>2, <1>4, <1>5 DEF Signup, Begin
<1>6. ASSUME NEW o \in Slots, NEW kind \in Ops, NEW u \in Users, NEW wanted \in Plan,
             Request(o, kind, u, wanted)
      PROVE  CustomerInv'
  BY <1>1, <1>2, <1>6 DEF Request, Begin, vars, accounts
<1>7. ASSUME NEW o \in Slots, FindById(o) PROVE CustomerInv'
  <2>1. UNCHANGED stripeCustomerId /\ opPc[o] = "read"
    BY <1>7 DEF FindById, vars, accounts
  <2>2. CASE Done(o)
    BY <1>3, <2>1, <2>2
  <2>3. CASE ~Done(o)
    BY <1>1, <1>2, <1>7, <2>1, <2>3 DEF FindById, CustomerInv
  <2> QED
    BY <2>2, <2>3
<1>8. ASSUME NEW o \in Slots, CreateCustomer(o) PROVE CustomerInv'
  BY <1>1, <1>2, <1>8 DEF CreateCustomer, CustomerInv, vars, accounts
<1>9. ASSUME NEW o \in Slots, LinkCustomer(o) PROVE CustomerInv'
  <2>1. \A p \in Slots : p # o =>
            /\ opPc'[p] = opPc[p] /\ opUser'[p] = opUser[p] /\ opCustomer'[p] = opCustomer[p]
            /\ opPc[p] # "idle" => opUser[p] # opUser[o]
    BY <1>9 DEF LinkCustomer, Done, OneRequestPerUser
  <2>2. \A p \in Slots : p # o /\ opPc[p] # "idle" =>
            stripeCustomerId'[opUser[p]] = stripeCustomerId[opUser[p]]
    BY <1>0, <1>9, <2>1 DEF LinkCustomer
  <2>3. opPc'[o] # "idle" => /\ opPc'[o] = "attach" /\ opUser'[o] = opUser[o]
                             /\ stripeCustomerId'[opUser[o]] = opCustomer'[o]
    BY <1>0, <1>9 DEF LinkCustomer, Done
  <2> QED
    BY <1>1, <1>9, <2>1, <2>2, <2>3 DEF CustomerInv, LinkCustomer
<1>10. ASSUME NEW o \in Slots,
              \/ AttachPaymentMethod(o) \/ RetrieveCustomer(o) \/ CreateSubscription(o)
              \/ getActiveSubscription(o) \/ UpdateSubscription(o)
       PROVE  CustomerInv'
  <2>1. UNCHANGED stripeCustomerId
    BY <1>10 DEF AttachPaymentMethod, RetrieveCustomer, CreateSubscription,
        getActiveSubscription, UpdateSubscription, vars, accounts
  <2>2. CASE Done(o)
    BY <1>3, <2>1, <2>2
  <2>3. CASE ~Done(o)
    BY <1>1, <1>2, <1>10, <2>1, <2>3 DEF AttachPaymentMethod, RetrieveCustomer,
        CreateSubscription, getActiveSubscription, UpdateSubscription, CustomerInv
  <2> QED
    BY <2>2, <2>3
<1>11. ASSUME NEW o \in Slots,
              CancelAtPeriodEnd(o) \/ UpdateRefused(o) \/ SavePriceId(o) \/ OpFails(o)
       PROVE  CustomerInv'
  BY <1>3, <1>11 DEF CancelAtPeriodEnd, UpdateRefused, SavePriceId, OpFails, vars, accounts
<1>12. ASSUME \/ \E c \in Customers : ConfirmCard(c)
              \/ \E s \in Subscriptions : Renew(s) \/ End(s)
              \/ EmitNext
              \/ UNCHANGED billing
       PROVE  CustomerInv'
  BY <1>4, <1>12 DEF ConfirmCard, Renew, End, EmitNext, Emit, billing, billingVars, vars, accounts
<1>13. ASSUME NEW h \in Handlers, Handle(h) \/ \E e \in Events : DeliverNext(e, h),
              UNCHANGED billingVars
       PROVE  CustomerInv'
  <2>1. UNCHANGED stripeCustomerId
    BY <1>13 DEF DeliverNext, Deliver, Handle, RegisterDuplicate, RegisterNew, RegisterFails,
        FindUser, FindUserFails, UpdateUser, UpdateUserFails, Notify, Unregister, Respond, accounts
  <2> QED
    BY <1>4, <1>13, <2>1 DEF billingVars
<1> QED
  BY <1>5, <1>6, <1>7, <1>8, <1>9, <1>10, <1>11, <1>12, <1>13 DEF BillingNext, Serve

LEMMA PaidPrices ==
    /\ \A wanted : priceIdForPlan(wanted) \in PaidPrice
    /\ \A price \in PaidPrice : /\ planFromPriceId(price) \in PaidPlan
                                /\ price \in Price /\ price # NoPrice
BY DEF priceIdForPlan, PaidPrice, planFromPriceId, PaidPlan, Price, NoPrice

\* What a request subscribes is linked.
LEMMA SubscriberLinked ==
    ASSUME IInv, BillingInv, CustomerInv, NEW o \in Slots, opPc[o] = "subscribe"
    PROVE  Linked(opCustomer[o]) /\ owner[opCustomer[o]] = opUser[o] /\ opUser[o] \in Users
BY DEF BillingInv, SlotInv, CustomerInv, Linked

LEMMA SubscriptionStep ==
    ASSUME IInv, BillingInv, CustomerInv, SubscriptionInv, [BillingNext]_billing
    PROVE  SubscriptionInv'
<1> USE DEF BillingInv, BillingTypeOK
<1>1. \A c : Linked(c) => Linked(c)'
  BY StaysLinked
<1>2. ASSUME NEW s \in Subscriptions, \A t \in Subscriptions : t # s =>
                 /\ status'[t] = status[t] /\ subCustomer'[t] = subCustomer[t]
                 /\ subPrice'[t] = subPrice[t] /\ cancelling'[t] = cancelling[t],
             status'[s] # "none", Linked(subCustomer'[s]), subPrice'[s] \in PaidPrice
      PROVE  SubscriptionInv'
  BY <1>1, <1>2 DEF SubscriptionInv, Linked
<1>3. ASSUME UNCHANGED <<status, subCustomer, subPrice, cancelling>> PROVE SubscriptionInv'
  BY <1>1, <1>3 DEF SubscriptionInv, Linked
<1>4. ASSUME NEW o \in Slots, CreateSubscription(o) PROVE SubscriptionInv'
  <2>1. opPc[o] = "subscribe" /\ Linked(opCustomer[o])
    BY <1>4, SubscriberLinked DEF CreateSubscription
  <2>2. PICK s \in Subscriptions :
            /\ status' = [status EXCEPT ![s] = "active"]
            /\ subCustomer' = [subCustomer EXCEPT ![s] = opCustomer[o]]
            /\ subPrice' = [subPrice EXCEPT ![s] = priceIdForPlan(opPlan[o])]
            /\ UNCHANGED cancelling
    BY <1>4 DEF CreateSubscription
  <2>3. /\ status'[s] = "active" /\ subCustomer'[s] = opCustomer[o] /\ subPrice'[s] \in PaidPrice
        /\ \A t \in Subscriptions : t # s =>
               /\ status'[t] = status[t] /\ subCustomer'[t] = subCustomer[t]
               /\ subPrice'[t] = subPrice[t] /\ cancelling'[t] = cancelling[t]
    BY <2>2, PaidPrices
  <2> QED
    BY <1>2, <2>1, <2>3
<1>5. ASSUME NEW o \in Slots, UpdateSubscription(o) \/ CancelAtPeriodEnd(o) PROVE SubscriptionInv'
  <2> DEFINE s == opSub[o]
  <2>1. opSub[o] \in Subscriptions
    BY <1>5 DEF UpdateSubscription, CancelAtPeriodEnd, SlotInv
  <2>2. /\ UNCHANGED <<status, subCustomer>>
        /\ \A t \in Subscriptions : t # s => subPrice'[t] = subPrice[t] /\ cancelling'[t] = cancelling[t]
        /\ subPrice'[s] \in {subPrice[s], priceIdForPlan(opPlan[o])}
        /\ ~IsActive(s) => UNCHANGED <<subPrice, cancelling>>
    BY <1>5, <2>1 DEF UpdateSubscription, CancelAtPeriodEnd
  <2>3. CASE ~IsActive(s)
    BY <1>3, <2>2, <2>3
  <2>4. CASE IsActive(s)
    <3>1. status'[s] # "none" /\ Linked(subCustomer'[s]) /\ subPrice'[s] \in PaidPrice
      BY <2>1, <2>2, <2>4, PaidPrices DEF IsActive, SubscriptionInv
    <3> QED
      BY <1>2, <2>1, <2>2, <3>1
  <2> QED
    BY <2>3, <2>4
<1>6. ASSUME NEW s \in Subscriptions, End(s) PROVE SubscriptionInv'
  <2>1. status'[s] # "none" /\ Linked(subCustomer'[s]) /\ subPrice'[s] \in PaidPrice
    BY <1>6 DEF End, IsActive, SubscriptionInv
  <2> QED
    BY <1>2, <1>6, <2>1 DEF End
<1>7. ASSUME NEW o \in Slots, Serve(o), ~CreateSubscription(o), ~UpdateSubscription(o),
             ~CancelAtPeriodEnd(o)
      PROVE  SubscriptionInv'
  BY <1>3, <1>7 DEF Serve, FindById, CreateCustomer, LinkCustomer, AttachPaymentMethod,
      RetrieveCustomer, getActiveSubscription, UpdateRefused, SavePriceId, stripeState,
      subscriptionVars
<1>8. ASSUME \/ \E o \in Slots : OpFails(o)
             \/ \E o \in Slots, u \in Users, wanted \in Plan :
                    Signup(o, u, wanted) \/ \E kind \in Ops : Request(o, kind, u, wanted)
             \/ \E c \in Customers : ConfirmCard(c)
             \/ \E s \in Subscriptions : Renew(s)
             \/ EmitNext
             \/ UNCHANGED billingVars
      PROVE  SubscriptionInv'
  BY <1>3, <1>8 DEF OpFails, Signup, Request, ConfirmCard, Renew, EmitNext, billingVars,
      stripeState, subscriptionVars
<1> QED
  BY <1>4, <1>5, <1>6, <1>7, <1>8 DEF BillingNext, billing

\* Stripe delivers in the order of creation, the charge of a proration comes first,
\* and a failed call had no effect.
Orderly == OnlyRejections /\ InOrder /\ FirstLines = {"charge"}

\* What a step appends to the events that are about to be sent.
LEMMA Appended ==
    ASSUME NEW T, NEW q \in Seq(T), NEW ps \in Seq(T)
    PROVE  /\ DOMAIN (q \o ps) = 1..(Len(q) + Len(ps))
           /\ \A i \in DOMAIN q : i \in 1..Len(q) /\ (q \o ps)[i] = q[i]
           /\ \A i \in DOMAIN (q \o ps) \ DOMAIN q :
                  i - Len(q) \in DOMAIN ps /\ (q \o ps)[i] = ps[i - Len(q)]
           /\ \A k \in DOMAIN ps : /\ Len(q) + k \in DOMAIN (q \o ps) \ DOMAIN q
                                   /\ (q \o ps)[Len(q) + k] = ps[k]
OBVIOUS

\* The events about a subscription are about a linked customer and a paid price.
LEMMA SubscriptionTold ==
    ASSUME SubscriptionInv, NEW s \in Subscriptions, IsActive(s), NEW price \in PaidPrice
    PROVE  /\ Told(InvoicePaid(subCustomer[s], price))
           /\ Told(SubscriptionUpdated(s, price))
           /\ Told(SubscriptionDeleted(s))
<1>1. Linked(subCustomer[s])
  BY DEF SubscriptionInv, IsActive
<1> QED
  BY <1>1 DEF Told, InvoicePaid, SubscriptionUpdated, SubscriptionDeleted

LEMMA UpcomingTold ==
    ASSUME BillingTypeOK, OrderInv, \A c : Linked(c) => Linked(c)',
           NEW ps \in Seq(Payload), \A k \in DOMAIN ps : Told(ps[k]),
           upcoming' = upcoming \o ps
    PROVE  \A i \in DOMAIN upcoming' : Told(upcoming[i])'
<1> SUFFICES ASSUME NEW i \in DOMAIN upcoming' PROVE Told(upcoming[i])'
  OBVIOUS
<1>1. upcoming \in Seq(Payload)
  BY DEF BillingTypeOK
<1>2. CASE i \in DOMAIN upcoming
  <2>1. upcoming'[i] = upcoming[i]
    BY <1>1, <1>2, Appended
  <2> QED
    BY <1>2, <2>1 DEF OrderInv, Told, Linked
<1>3. CASE i \notin DOMAIN upcoming
  <2>1. \E k \in DOMAIN ps : upcoming'[i] = ps[k]
    BY <1>1, <1>3, Appended
  <2> QED
    BY <2>1 DEF Told, Linked
<1> QED
  BY <1>2, <1>3

LEMMA OneOrTwo ==
    ASSUME NEW p \in Payload, NEW r \in Payload
    PROVE  /\ <<>> \in Seq(Payload) /\ DOMAIN <<>> = {}
           /\ <<p>> \in Seq(Payload) /\ DOMAIN <<p>> = {1} /\ <<p>>[1] = p
           /\ <<p, r>> \in Seq(Payload) /\ DOMAIN <<p, r>> = {1, 2}
           /\ <<p, r>>[1] = p /\ <<p, r>>[2] = r
OBVIOUS

\* What is said of a subscription when it is created, changed, renewed or ended.
LEMMA TellStep ==
    ASSUME Orderly, IInv, BillingInv, CustomerInv, SubscriptionInv, [BillingNext]_billing,
           ~EmitNext, ~UNCHANGED upcoming
    PROVE  \E ps \in Seq(Payload) :
               upcoming' = upcoming \o ps /\ \A k \in DOMAIN ps : Told(ps[k])
<1> USE DEF BillingInv, SlotInv
<1>1. \A s \in Subscriptions : IsActive(s) => subPrice[s] \in PaidPrice
  BY DEF SubscriptionInv, IsActive
<1>2. \A price \in PaidPrice : price \in Price \cup {NoPrice}
  BY PaidPrices
<1>3. \A s \in Subscriptions : subCustomer[s] \in Customers \cup {NoCustomer}
  BY DEF BillingTypeOK
<1>4. ASSUME NEW p \in Payload, Told(p), Send(<<p>>)
      PROVE  \E ps \in Seq(Payload) :
                 upcoming' = upcoming \o ps /\ \A k \in DOMAIN ps : Told(ps[k])
  <2>1. upcoming' = upcoming \o <<p>>
    BY <1>4 DEF Send
  <2>2. <<p>> \in Seq(Payload) /\ \A k \in DOMAIN <<p>> : Told(<<p>>[k])
    BY <1>4, OneOrTwo
  <2> WITNESS <<p>> \in Seq(Payload)
  <2> QED
    BY <2>1, <2>2
<1>5. ASSUME NEW p \in Payload, Told(p), NEW r \in Payload, Told(r), Send(<<p, r>>)
      PROVE  \E ps \in Seq(Payload) :
                 upcoming' = upcoming \o ps /\ \A k \in DOMAIN ps : Told(ps[k])
  <2>1. upcoming' = upcoming \o <<p, r>>
    BY <1>5 DEF Send
  <2>2. <<p, r>> \in Seq(Payload) /\ \A k \in DOMAIN <<p, r>> : Told(<<p, r>>[k])
    BY <1>5, OneOrTwo
  <2> WITNESS <<p, r>> \in Seq(Payload)
  <2> QED
    BY <2>1, <2>2
<1>6. ASSUME NEW s \in Subscriptions, Renew(s)
      PROVE  \E ps \in Seq(Payload) :
                 upcoming' = upcoming \o ps /\ \A k \in DOMAIN ps : Told(ps[k])
  <2>1. /\ Told(InvoicePaid(subCustomer[s], subPrice[s]))
        /\ InvoicePaid(subCustomer[s], subPrice[s]) \in Payload
    BY <1>1, <1>2, <1>3, <1>6, SubscriptionTold, InvoiceType DEF Renew
  <2> QED
    BY <1>4, <1>6, <2>1 DEF Renew
<1>7. ASSUME NEW s \in Subscriptions, End(s)
      PROVE  \E ps \in Seq(Payload) :
                 upcoming' = upcoming \o ps /\ \A k \in DOMAIN ps : Told(ps[k])
  <2>1. Told(SubscriptionDeleted(s)) /\ SubscriptionDeleted(s) \in Payload
    BY <1>1, <1>7, SubscriptionTold, DeletedType DEF End
  <2> QED
    BY <1>4, <1>7, <2>1 DEF End
<1>8. ASSUME NEW o \in Slots, CreateSubscription(o)
      PROVE  \E ps \in Seq(Payload) :
                 upcoming' = upcoming \o ps /\ \A k \in DOMAIN ps : Told(ps[k])
  <2> DEFINE price == priceIdForPlan(opPlan[o])
  <2>1. opCustomer[o] \in Customers /\ Linked(opCustomer[o])
    BY <1>8, SubscriberLinked DEF CreateSubscription
  <2>2. InvoicePaid(opCustomer[o], price) \in Payload /\ Told(InvoicePaid(opCustomer[o], price))
    BY <2>1, PriceType, InvoiceType, PaidPrices DEF Told, InvoicePaid
  <2>3. Send(<<InvoicePaid(opCustomer[o], price)>>)
    BY <1>8 DEF CreateSubscription
  <2> QED
    BY <1>4, <2>2, <2>3
<1>9. ASSUME NEW o \in Slots, CancelAtPeriodEnd(o)
      PROVE  \E ps \in Seq(Payload) :
                 upcoming' = upcoming \o ps /\ \A k \in DOMAIN ps : Told(ps[k])
  <2> DEFINE s == opSub[o]
             p == SubscriptionUpdated(s, subPrice[s])
  <2>1. s \in Subscriptions /\ IsActive(s) /\ Send(<<p>>)
    BY <1>9 DEF CancelAtPeriodEnd
  <2>2. Told(p) /\ p \in Payload
    BY <1>1, <1>2, <2>1, SubscriptionTold, UpdatedType
  <2> QED
    BY <1>4, <2>1, <2>2
<1>10. ASSUME NEW o \in Slots, UpdateSubscription(o)
       PROVE  \E ps \in Seq(Payload) :
                  upcoming' = upcoming \o ps /\ \A k \in DOMAIN ps : Told(ps[k])
  <2> DEFINE s == opSub[o]
             new == priceIdForPlan(opPlan[o])
             updated == SubscriptionUpdated(s, new)
             invoice == InvoicePaid(subCustomer[s], new)
  <2>1. s \in Subscriptions /\ IsActive(s)
    BY <1>10 DEF UpdateSubscription
  <2>2. Send(<<updated>>) \/ Send(<<updated, invoice>>) \/ Send(<<invoice, updated>>)
    BY <1>10 DEF UpdateSubscription, Orderly
  <2>3. new \in PaidPrice /\ new \in Price \cup {NoPrice}
    BY PaidPrices, PriceType
  <2>4. Told(updated) /\ updated \in Payload
    BY <2>1, <2>3, SubscriptionTold, UpdatedType
  <2>5. Told(invoice) /\ invoice \in Payload
    BY <1>3, <2>1, <2>3, SubscriptionTold, InvoiceType
  <2> HIDE DEF updated, invoice
  <2> QED
    BY <1>4, <1>5, <2>2, <2>4, <2>5
<1>11. ASSUME NEW o \in Slots, Serve(o), ~CreateSubscription(o), ~UpdateSubscription(o),
              ~CancelAtPeriodEnd(o)
       PROVE  UNCHANGED upcoming
  BY <1>11 DEF Serve, FindById, CreateCustomer, LinkCustomer, AttachPaymentMethod,
      RetrieveCustomer, getActiveSubscription, UpdateRefused, SavePriceId
<1>12. ASSUME \/ \E o \in Slots : OpFails(o)
              \/ \E o \in Slots, u \in Users, wanted \in Plan :
                     Signup(o, u, wanted) \/ \E kind \in Ops : Request(o, kind, u, wanted)
              \/ \E c \in Customers : ConfirmCard(c)
              \/ UNCHANGED billingVars
       PROVE  UNCHANGED upcoming
  BY <1>12 DEF OpFails, Signup, Request, ConfirmCard, billingVars
<1> QED
  BY <1>6, <1>7, <1>8, <1>9, <1>10, <1>11, <1>12 DEF BillingNext, billing

\* A handler goes on with the event it was given.
LEMMA HandlerSteps ==
    ASSUME IInv, NEW h \in Handlers, Handle(h)
    PROVE  /\ payload' = payload /\ pc[h] # "idle"
           /\ \A g \in Handlers : g # h => pc'[g] = pc[g] /\ event'[g] = event[g]
           /\ pc'[h] # "idle" => event'[h] = event[h]
           /\ pc'[h] = "find" => NeedsUser(payload[event[h]])
           /\ pc'[h] = "update" => pc[h] = "find"
           /\ \A e \in Events : \/ outbox'[e] = outbox[e]
                                \/ e = event[h] /\ pc[h] = "ack" /\ outbox'[e] = "delivered"
<1>1. TypeOK
  BY DEF IInv
<1> QED
  BY <1>1 DEF TypeOK, Goto, Complete, Handle, RegisterDuplicate, RegisterNew, RegisterFails,
      FindUser, FindUserFails, UpdateUser, UpdateUserFails, Notify, Unregister, Respond, Free,
      stripeVars, attempt

LEMMA OrderStep ==
    ASSUME Orderly, IInv, BillingInv, RedeliveryInv, CustomerInv, SubscriptionInv, OrderInv,
           [BillingNext]_billing
    PROVE  OrderInv'
<1>0. TypeOK /\ RequestInv /\ BillingTypeOK
  BY DEF IInv, BillingInv
<1>1. \A c : Linked(c) => Linked(c)'
  BY StaysLinked
<1>2. ASSUME UNCHANGED <<upcoming, payload, outbox, pc, event>> PROVE OrderInv'
  BY <1>1, <1>2 DEF OrderInv, Told, Linked, Active
<1>3. ASSUME NEW h \in Handlers, Handle(h), UNCHANGED upcoming PROVE OrderInv'
  <2>1. \A i \in DOMAIN upcoming' : Told(upcoming[i])'
    BY <1>1, <1>3 DEF OrderInv, Told, Linked
  <2>2. \A e \in Events : outbox'[e] # "unsent" => outbox[e] # "unsent" /\ payload'[e] = payload[e]
    BY <1>0, <1>3, HandlerSteps DEF RequestInv, Active
  <2>3. \A e \in Events : outbox'[e] # "unsent" => Told(payload[e])'
    BY <1>1, <2>2 DEF OrderInv, Told, Linked
  <2>4. \A e, f \in Events : e < f /\ outbox'[e] = "unsent" => outbox'[f] = "unsent"
    BY <1>0, <1>3, <2>2, HandlerSteps DEF OrderInv, RequestInv, Active
  <2>5. \A g \in Handlers : pc'[g] # "idle" =>
            \A f \in Events : f < event'[g] => outbox'[f] = "delivered"
    <3>1. \A g \in Handlers : pc'[g] # "idle" => pc[g] # "idle" /\ event'[g] = event[g]
      BY <1>3, HandlerSteps
    <3>2. \A f \in Events : outbox[f] = "delivered" => outbox'[f] = "delivered"
      BY <1>3, HandlerSteps
    <3> QED
      BY <3>1, <3>2 DEF OrderInv, Active
  <2>6. \A g \in Handlers : pc'[g] \in {"find", "update"} => NeedsUser(payload'[event'[g]])
    BY <1>3, HandlerSteps DEF OrderInv
  <2> QED
    BY <2>1, <2>3, <2>4, <2>5, <2>6 DEF OrderInv, Active, NeedsUser
<1>4. ASSUME NEW h \in Handlers, NEW e \in Events, DeliverNext(e, h), UNCHANGED upcoming
      PROVE  OrderInv'
  <2> USE <1>4 DEF DeliverNext, Deliver, Goto, stripeVars, attempt
  <2>1. UNCHANGED <<upcoming, payload, outbox>>
    OBVIOUS
  <2>2. \A i \in DOMAIN upcoming' : Told(upcoming[i])'
    BY <1>1, <2>1 DEF OrderInv, Told, Linked
  <2>3. \A f \in Events : outbox'[f] # "unsent" => Told(payload[f])'
    BY <1>1, <2>1 DEF OrderInv, Told, Linked
  <2>4. /\ pc'[h] = "register" /\ event'[h] = e
        /\ \A g \in Handlers : g # h => pc'[g] = pc[g] /\ event'[g] = event[g]
    BY <1>0 DEF TypeOK
  <2>5. \A f \in Events : f < e => outbox[f] = "delivered"
    BY DEF Orderly
  <2>6. \A g \in Handlers : pc'[g] # "idle" =>
            \A f \in Events : f < event'[g] => outbox'[f] = "delivered"
    BY <2>1, <2>4, <2>5 DEF OrderInv, Active
  <2>7. \A g \in Handlers : pc'[g] \in {"find", "update"} => NeedsUser(payload'[event'[g]])
    BY <2>1, <2>4 DEF OrderInv
  <2>8. \A d, f \in Events : d < f /\ outbox'[d] = "unsent" => outbox'[f] = "unsent"
    BY <2>1 DEF OrderInv
  <2> QED
    BY <2>2, <2>3, <2>6, <2>7, <2>8 DEF OrderInv, Active, NeedsUser
<1>5. CASE EmitNext
  <2>1. PICK e \in Events : /\ outbox[e] = "unsent" /\ Emit(e, Head(upcoming))
                            /\ \A f \in Events : outbox[f] = "unsent" => e <= f
    BY <1>5 DEF EmitNext, Emit
  <2>2. upcoming # <<>> /\ upcoming' = Tail(upcoming) /\ upcoming \in Seq(Payload)
    BY <1>0, <1>5 DEF EmitNext, BillingTypeOK
  <2>3. /\ 1 \in DOMAIN upcoming /\ Head(upcoming) = upcoming[1]
        /\ \A i \in DOMAIN upcoming' : i + 1 \in DOMAIN upcoming /\ upcoming'[i] = upcoming[i + 1]
    BY <2>2
  <2>4. /\ outbox' = [outbox EXCEPT ![e] = "pending"] /\ outbox'[e] = "pending"
        /\ payload'[e] = upcoming[1]
        /\ \A f \in Events : f # e => outbox'[f] = outbox[f] /\ payload'[f] = payload[f]
        /\ UNCHANGED <<pc, event>>
    BY <1>0, <2>1, <2>3 DEF Emit, TypeOK, requests, attempt
  <2>5. \A i \in DOMAIN upcoming' : Told(upcoming[i])'
    BY <1>1, <2>3 DEF OrderInv, Told, Linked
  <2>6. \A f \in Events : outbox'[f] # "unsent" => Told(payload[f])'
    BY <1>1, <2>3, <2>4 DEF OrderInv, Told, Linked
  <2>7. \A d, f \in Events : d < f /\ outbox'[d] = "unsent" => outbox'[f] = "unsent"
    <3> SUFFICES ASSUME NEW d \in Events, NEW f \in Events, d < f, outbox'[d] = "unsent"
                 PROVE  outbox'[f] = "unsent"
      OBVIOUS
    <3>1. d \in Int /\ f \in Int /\ e \in Int
      BY BillingAssumption
    <3>2. outbox[d] = "unsent" /\ outbox[f] = "unsent" /\ e <= d
      BY <2>1, <2>4 DEF OrderInv
    <3> QED
      BY <2>4, <3>1, <3>2
  <2>8. \A g \in Handlers : pc'[g] # "idle" => event'[g] = event[g] /\ event[g] \in Events /\ event[g] # e
    BY <1>0, <2>1, <2>4 DEF RequestInv, Active
  <2>9. \A g \in Handlers : pc'[g] # "idle" =>
            \A f \in Events : f < event'[g] => outbox'[f] = "delivered"
    BY <2>1, <2>4, <2>8 DEF OrderInv, Active
  <2>10. \A g \in Handlers : pc'[g] \in {"find", "update"} => NeedsUser(payload'[event'[g]])
    BY <2>4, <2>8 DEF OrderInv
  <2> QED
    BY <2>5, <2>6, <2>7, <2>9, <2>10 DEF OrderInv, Active, NeedsUser
<1>6. ASSUME NEW ps \in Seq(Payload), \A k \in DOMAIN ps : Told(ps[k]),
             upcoming' = upcoming \o ps, UNCHANGED <<payload, outbox, pc, event>>
      PROVE  OrderInv'
  <2>1. \A i \in DOMAIN upcoming' : Told(upcoming[i])'
    BY <1>0, <1>1, <1>6, UpcomingTold
  <2>2. \A f \in Events : outbox'[f] # "unsent" => Told(payload[f])'
    BY <1>1, <1>6 DEF OrderInv, Told, Linked
  <2> QED
    BY <1>6, <2>1, <2>2 DEF OrderInv, Active, NeedsUser
<1>7. \/ \E h \in Handlers : /\ Handle(h) \/ \E e \in Events : DeliverNext(e, h)
                             /\ UNCHANGED upcoming
      \/ EmitNext
      \/ UNCHANGED <<payload, outbox, pc, event>>
  <2> USE DEF vars, stripeVars, requests, attempt, webhookVars
  <2>1. ASSUME NEW o \in Slots, Serve(o) PROVE UNCHANGED <<payload, outbox, pc, event>>
    BY <2>1 DEF Serve, FindById, CreateCustomer, LinkCustomer, AttachPaymentMethod,
        RetrieveCustomer, CreateSubscription, getActiveSubscription, CancelAtPeriodEnd,
        UpdateSubscription, UpdateRefused, SavePriceId
  <2>2. ASSUME \/ \E o \in Slots : OpFails(o)
               \/ \E o \in Slots, u \in Users, wanted \in Plan :
                      Signup(o, u, wanted) \/ \E kind \in Ops : Request(o, kind, u, wanted)
               \/ \E c \in Customers : ConfirmCard(c)
               \/ \E s \in Subscriptions : Renew(s) \/ End(s)
               \/ UNCHANGED billing
        PROVE  UNCHANGED <<payload, outbox, pc, event>>
    BY <2>2 DEF OpFails, Signup, Request, ConfirmCard, Renew, End, billing
  <2> QED
    BY <2>1, <2>2 DEF BillingNext, billingVars
<1> QED
  BY <1>2, <1>3, <1>4, <1>5, <1>6, <1>7, TellStep

\* Nothing that concerns a user happens.
LEMMA FinallyRests ==
    ASSUME NEW u \in Users, Coming(u)' = Coming(u), Waiting(u)' = Waiting(u),
           \A i \in Coming(u) : upcoming'[i] = upcoming[i],
           \A e \in Waiting(u) : payload'[e] = payload[e],
           plan'[u] = plan[u]
    PROVE  Finally(u)' = Finally(u)
<1> HIDE DEF Coming, Waiting
<1> QED
  BY DEF Finally, newPlan

\* Whom an event concerns does not change any more.
LEMMA StaysChanging ==
    ASSUME OrderInv, \A c : Linked(c) => owner'[c] = owner[c], NEW u \in Users
    PROVE  /\ \A p : Told(p) => (NeedsUser(p) /\ owner'[p.customer] = u <=> Changes(p, u))
           /\ \A i \in DOMAIN upcoming : Told(upcoming[i])
           /\ \A e \in Events : outbox[e] # "unsent" => Told(payload[e])
BY DEF OrderInv, Told, Changes

LEMMA WaitingRests ==
    ASSUME OrderInv, \A c : Linked(c) => owner'[c] = owner[c], NEW u \in Users,
           UNCHANGED <<payload, outbox, completed, writes>>
    PROVE  Waiting(u)' = Waiting(u)
BY StaysChanging DEF Waiting, Changes, NeedsUser

LEMMA ComingRests ==
    ASSUME OrderInv, \A c : Linked(c) => owner'[c] = owner[c], NEW u \in Users,
           UNCHANGED upcoming
    PROVE  Coming(u)' = Coming(u)
BY StaysChanging DEF Coming, Changes, NeedsUser

LEMMA FinallyUnsent ==
    ASSUME OrderInv, \A c : Linked(c) => owner'[c] = owner[c], NEW u \in Users,
           UNCHANGED <<upcoming, payload, outbox, completed, writes, plan>>
    PROVE  Finally(u)' = Finally(u)
BY WaitingRests, ComingRests, FinallyRests

\* Events are appended: the last of them that concerns the user decides.
LEMMA FinallySent ==
    ASSUME BillingTypeOK, OrderInv, \A c : Linked(c) => owner'[c] = owner[c], NEW u \in Users,
           UNCHANGED <<payload, outbox, completed, writes, plan>>,
           NEW ps \in Seq(Payload), upcoming' = upcoming \o ps,
           \A k \in DOMAIN ps : Told(ps[k])
    PROVE  /\ (\A k \in DOMAIN ps : ~Changes(ps[k], u)) => Finally(u)' = Finally(u)
           /\ \A x : /\ \E k \in DOMAIN ps : Changes(ps[k], u)
                     /\ \A k \in DOMAIN ps : Changes(ps[k], u) => newPlan(ps[k]) = x
                     => Finally(u)' \subseteq {x}
<1>0. upcoming \in Seq(Payload)
  BY DEF BillingTypeOK
<1>1. Waiting(u)' = Waiting(u)
  BY WaitingRests
<1>2. /\ DOMAIN upcoming = 1..Len(upcoming) /\ Len(upcoming) \in Nat
      /\ DOMAIN upcoming' = 1..(Len(upcoming) + Len(ps))
      /\ \A i \in DOMAIN upcoming : i \in DOMAIN upcoming' /\ upcoming'[i] = upcoming[i]
      /\ \A i \in DOMAIN upcoming' \ DOMAIN upcoming :
             i - Len(upcoming) \in DOMAIN ps /\ upcoming'[i] = ps[i - Len(upcoming)]
      /\ \A k \in DOMAIN ps : /\ Len(upcoming) + k \in DOMAIN upcoming' \ DOMAIN upcoming
                              /\ upcoming'[Len(upcoming) + k] = ps[k]
  BY <1>0, Appended
<1>3. \A i \in DOMAIN upcoming : i \in Coming(u)' <=> i \in Coming(u)
  BY <1>2, StaysChanging DEF Coming, Changes, NeedsUser
<1>4. \A i \in DOMAIN upcoming' \ DOMAIN upcoming :
          i \in Coming(u)' <=> Changes(ps[i - Len(upcoming)], u)
  BY <1>2, StaysChanging DEF Coming, Changes, NeedsUser
<1>5. Coming(u)' \subseteq DOMAIN upcoming' /\ Coming(u) \subseteq DOMAIN upcoming
  BY DEF Coming
<1>6. ASSUME \A k \in DOMAIN ps : ~Changes(ps[k], u) PROVE Finally(u)' = Finally(u)
  <2>1. Coming(u)' = Coming(u)
    BY <1>2, <1>3, <1>4, <1>5, <1>6
  <2>2. \A i \in Coming(u) : upcoming'[i] = upcoming[i]
    BY <1>2, <1>5
  <2> QED
    BY <1>1, <2>1, <2>2, FinallyRests
<1>7. ASSUME NEW x, NEW k \in DOMAIN ps, Changes(ps[k], u),
             \A m \in DOMAIN ps : Changes(ps[m], u) => newPlan(ps[m]) = x,
             NEW p \in Finally(u)'
      PROVE  p = x
  <2>1. Len(upcoming) + k \in Coming(u)'
    <3>1. Len(upcoming) + k - Len(upcoming) = k
      BY <1>2
    <3> QED
      BY <1>2, <1>4, <1>7, <3>1
  <2>2. PICK i \in Coming(u)' : (\A j \in Coming(u)' : j <= i) /\ p = newPlan(upcoming'[i])
    BY <1>7, <2>1 DEF Finally, newPlan
  <2>3. Len(upcoming) + k <= i
    BY <2>1, <2>2
  <2>4. i \in DOMAIN upcoming' \ DOMAIN upcoming
    BY <1>2, <1>5, <2>2, <2>3
  <2>5. i - Len(upcoming) \in DOMAIN ps /\ upcoming'[i] = ps[i - Len(upcoming)]
        /\ Changes(ps[i - Len(upcoming)], u)
    BY <1>2, <1>4, <2>2, <2>4
  <2> QED
    BY <1>7, <2>2, <2>5
<1> QED
  BY <1>6, <1>7

\* An event reaches the outbox: it is the latest there, and was the first of the others.
LEMMA FinallyEmitted ==
    ASSUME IInv, BillingInv, RedeliveryInv, OrderInv, EmitNext, NEW u \in Users
    PROVE  Finally(u)' \subseteq Finally(u)
<1>0. TypeOK /\ BillingTypeOK
  BY DEF IInv, BillingInv
<1>1. PICK e \in Events : /\ outbox[e] = "unsent" /\ Emit(e, Head(upcoming))
                          /\ \A f \in Events : outbox[f] = "unsent" => e <= f
  BY DEF EmitNext, Emit
<1>2. upcoming # <<>> /\ upcoming' = Tail(upcoming) /\ upcoming \in Seq(Payload)
  BY <1>0 DEF EmitNext, BillingTypeOK
<1>3. /\ 1 \in DOMAIN upcoming /\ Head(upcoming) = upcoming[1]
      /\ \A i \in DOMAIN upcoming' : i \in Nat \ {0} /\ i + 1 \in DOMAIN upcoming
                                     /\ upcoming'[i] = upcoming[i + 1]
      /\ \A i \in DOMAIN upcoming : i \in Nat \ {0}
                                    /\ (i # 1 => i - 1 \in DOMAIN upcoming'
                                                 /\ upcoming'[i - 1] = upcoming[i])
  BY <1>2
<1>4. /\ outbox' = [outbox EXCEPT ![e] = "pending"] /\ outbox'[e] = "pending"
      /\ payload'[e] = upcoming[1]
      /\ \A f \in Events : f # e => outbox'[f] = outbox[f] /\ payload'[f] = payload[f]
      /\ UNCHANGED <<completed, writes, owner, plan>>
  BY <1>0, <1>1, <1>3 DEF EmitNext, Emit, TypeOK, history, doubts, accounts, stripeState
<1>5. e \notin completed /\ writes[e] = 0
  <2>1. e \notin completed
    BY <1>1 DEF IInv, EventInv
  <2>2. \A h \in Handlers : pc[h] = "notify" => outbox[event[h]] = "pending"
    BY DEF RedeliveryInv, Active
  <2>3. writes[e] \in Nat /\ ~(writes[e] > 0)
    BY <1>0, <1>1, <2>1, <2>2 DEF RedeliveryInv, TypeOK
  <2> QED
    BY <2>1, <2>3
<1>6. \A i : i \in Coming(u)' <=> i \in DOMAIN upcoming' /\ i + 1 \in Coming(u)
  BY <1>3, <1>4 DEF Coming, Changes, NeedsUser
<1>7. \A f \in Events : f # e => (f \in Waiting(u)' <=> f \in Waiting(u))
  BY <1>4 DEF Waiting, Changes, NeedsUser
<1>8. e \in Waiting(u)' <=> 1 \in Coming(u)
  BY <1>3, <1>4, <1>5 DEF Waiting, Coming, Changes, NeedsUser
<1>9. \A f \in Waiting(u) : f \in Events /\ f # e /\ f <= e
  <2> SUFFICES ASSUME NEW f \in Waiting(u) PROVE f \in Events /\ f # e /\ f <= e
    OBVIOUS
  <2>1. f \in Events /\ outbox[f] # "unsent"
    BY DEF Waiting
  <2>2. f \in Int /\ e \in Int
    BY <2>1, BillingAssumption
  <2> QED
    BY <1>1, <2>1, <2>2 DEF OrderInv
<1>10. Coming(u) \subseteq DOMAIN upcoming /\ Coming(u)' \subseteq DOMAIN upcoming'
       /\ Waiting(u)' \subseteq Events
  BY DEF Coming, Waiting
<1>11. e \in Int
  BY BillingAssumption
<1> SUFFICES ASSUME NEW p \in Finally(u)' PROVE p \in Finally(u)
  OBVIOUS
<1>12. p \in Plan
  BY DEF Finally
<1>13. ASSUME NEW i \in Coming(u)', \A j \in Coming(u)' : j <= i, p = newPlan(upcoming'[i])
       PROVE  p \in Finally(u)
  <2>1. i + 1 \in Coming(u) /\ upcoming'[i] = upcoming[i + 1] /\ i \in Nat
    BY <1>3, <1>6, <1>10, <1>13
  <2>2. \A j \in Coming(u) : j <= i + 1
    <3> SUFFICES ASSUME NEW j \in Coming(u), j # 1 PROVE j <= i + 1
      BY <1>3, <1>10, <2>1
    <3>1. j \in Nat /\ j - 1 \in DOMAIN upcoming' /\ j - 1 + 1 = j
      BY <1>3, <1>10
    <3>2. j - 1 \in Coming(u)'
      BY <1>6, <3>1
    <3> QED
      BY <1>13, <2>1, <3>1, <3>2
  <2> QED
    BY <1>12, <1>13, <2>1, <2>2 DEF Finally
<1>14. ASSUME Coming(u)' = {}, 1 \notin Coming(u) PROVE Coming(u) = {}
  <2> SUFFICES ASSUME NEW j \in Coming(u) PROVE FALSE
    OBVIOUS
  <2>1. j \in Nat /\ j - 1 \in DOMAIN upcoming' /\ j - 1 + 1 = j
    BY <1>3, <1>10, <1>14
  <2> QED
    BY <1>6, <1>14, <2>1
<1>15. ASSUME Coming(u)' = {}, NEW f \in Waiting(u)', \A g \in Waiting(u)' : g <= f,
              p = newPlan(payload'[f])
       PROVE  p \in Finally(u)
  <2>1. CASE 1 \in Coming(u)
    <3>1. e <= f
      BY <1>8, <1>15, <2>1
    <3>2. f = e
      <4>1. f \in Int
        BY <1>10, <1>15, BillingAssumption
      <4>2. f # e => f \in Waiting(u)
        BY <1>7, <1>10, <1>15
      <4> QED
        BY <1>9, <1>11, <3>1, <4>1, <4>2
    <3>3. p = newPlan(upcoming[1])
      BY <1>4, <1>15, <3>2
    <3>4. \A j \in Coming(u) : j <= 1
      <4> SUFFICES ASSUME NEW j \in Coming(u), j # 1 PROVE FALSE
        OBVIOUS
      <4>1. j \in Nat /\ j - 1 \in DOMAIN upcoming' /\ j - 1 + 1 = j
        BY <1>3, <1>10
      <4> QED
        BY <1>6, <1>15, <4>1
    <3> QED
      BY <1>12, <2>1, <3>3, <3>4 DEF Finally
  <2>2. CASE 1 \notin Coming(u)
    <3>1. f # e /\ f \in Waiting(u)
      BY <1>7, <1>8, <1>10, <1>15, <2>2
    <3>2. \A g \in Waiting(u) : g <= f
      BY <1>7, <1>9, <1>15
    <3>3. payload'[f] = payload[f]
      BY <1>4, <1>10, <1>15, <3>1
    <3> QED
      BY <1>12, <1>14, <1>15, <2>2, <3>1, <3>2, <3>3 DEF Finally
  <2> QED
    BY <2>1, <2>2
<1>16. ASSUME Coming(u)' = {}, Waiting(u)' = {}, p = plan'[u] PROVE p \in Finally(u)
  <2>1. Coming(u) = {} /\ Waiting(u) = {}
    BY <1>7, <1>8, <1>9, <1>14, <1>16
  <2> QED
    BY <1>4, <1>12, <1>16, <2>1 DEF Finally
<1> QED
  BY <1>13, <1>15, <1>16 DEF Finally, newPlan

\* A handler that does not write a plan carries through only what writes none.
LEMMA NotWritten ==
    ASSUME Orderly, IInv, OrderInv, NEW h \in Handlers, Handle(h), ~UpdateUser(h),
           UNCHANGED owner, NEW u \in Users
    PROVE  plan' = plan /\ Waiting(u)' = Waiting(u)
<1> DEFINE e == event[h]
<1>0. TypeOK /\ RequestInv /\ HolderInv
  BY DEF IInv
<1>1. /\ payload' = payload
      /\ \A f \in Events : outbox'[f] = "unsent" <=> outbox[f] = "unsent"
      /\ e \in Events /\ outbox[e] # "unsent"
  BY <1>0, HandlerSteps DEF RequestInv, Active
<1>2. UNCHANGED <<plan, writes>>
  BY DEF Orderly, OnlyRejections, Fault, Handle, RegisterDuplicate, RegisterNew, RegisterFails,
      FindUser, FindUserFails, UpdateUserFails, Notify, Unregister, Respond, accounts, history, doubts
<1>3. ASSUME completed' = completed PROVE Waiting(u)' = Waiting(u)
  BY <1>1, <1>2, <1>3 DEF Waiting, Changes, NeedsUser
<1>4. ASSUME completed' = completed \cup {e}, e \notin Waiting(u) PROVE Waiting(u)' = Waiting(u)
  BY <1>1, <1>2, <1>4 DEF Waiting, Changes, NeedsUser
<1>5. CASE RegisterNew(h)
  <2>1. \/ completed' = completed
        \/ ~NeedsUser(payload[e]) /\ completed' = completed \cup {e}
    BY <1>5 DEF RegisterNew, Complete
  <2>2. ~NeedsUser(payload[e]) => e \notin Waiting(u)
    BY DEF Waiting, Changes
  <2> QED
    BY <1>2, <1>3, <1>4, <2>1, <2>2
<1>6. CASE FindUser(h)
  <2>1. NeedsUser(payload[e]) /\ Told(payload[e])
    BY <1>1, <1>6 DEF OrderInv, FindUser
  <2>2. owner[payload[e].customer] \in UsersToUpdate(payload[e])
    BY <2>1, PaidPrices DEF Told, Linked, UsersToUpdate, findByStripeCustomerId
  <2>3. completed' = completed
    BY <1>6, <2>2 DEF FindUser
  <2> QED
    BY <1>2, <1>3, <2>3
<1>7. CASE Notify(h)
  <2>1. writes[e] # 0
    BY <1>0, <1>7 DEF Notify, HolderInv, Holding
  <2> QED
    BY <1>2, <1>4, <1>7, <2>1 DEF Notify, Complete, Waiting
<1>8. CASE \/ RegisterDuplicate(h) \/ RegisterFails(h) \/ FindUserFails(h) \/ UpdateUserFails(h)
           \/ Unregister(h) \/ Respond(h)
  <2>1. completed' = completed
    BY <1>8 DEF RegisterDuplicate, RegisterFails, FindUserFails, UpdateUserFails, Unregister,
        Respond, history, doubts
  <2> QED
    BY <1>2, <1>3, <2>1
<1> QED
  BY <1>2, <1>5, <1>6, <1>7, <1>8 DEF Handle

\* What is written is the first of the events that wait: when it was also the last, the
\* plan is what it says.
LEMMA FinallyHandled ==
    ASSUME Orderly, IInv, BillingInv, RedeliveryInv, OrderInv, NEW h \in Handlers, Handle(h),
           UNCHANGED billingVars, NEW u \in Users
    PROVE  Finally(u)' \subseteq Finally(u)
<1> DEFINE e == event[h]
<1>0. TypeOK /\ RequestInv /\ HolderInv
  BY DEF IInv
<1>1. /\ payload' = payload /\ UNCHANGED <<owner, upcoming>>
      /\ \A f \in Events : outbox'[f] = "unsent" <=> outbox[f] = "unsent"
  BY <1>0, HandlerSteps DEF RequestInv, Active, billingVars, stripeState
<1>2. Coming(u)' = Coming(u)
  BY <1>1 DEF Coming, Changes, NeedsUser
<1>3. CASE ~UpdateUser(h)
  BY <1>1, <1>2, <1>3, NotWritten, FinallyRests
<1>4. CASE UpdateUser(h)
  <2>1. /\ pc[h] = "update" /\ e \in Events /\ e \notin completed /\ outbox[e] = "pending"
        /\ NeedsUser(payload[e]) /\ owner[payload[e].customer] = user[h] /\ user[h] \in Users
    BY <1>0, <1>4 DEF UpdateUser, RequestInv, HolderInv, Holding, Active, RedeliveryInv, OrderInv,
        BillingInv, CreditInv
  <2>2. writes[e] = 0
    <3>1. writes[e] \in Nat
      BY <1>0, <2>1 DEF TypeOK
    <3>2. \A g \in Handlers : pc[g] = "notify" => event[g] # e
      BY <2>1 DEF RedeliveryInv, Active
    <3> QED
      BY <2>1, <3>1, <3>2 DEF RedeliveryInv
  <2>3. /\ writes'[e] = 1 /\ \A f \in Events : f # e => writes'[f] = writes[f]
        /\ plan'[user[h]] = newPlan(payload[e])
        /\ \A v \in Users : v # user[h] => plan'[v] = plan[v]
        /\ completed' \in {completed, completed \cup {e}}
    BY <1>0, <1>4, <2>1, <2>2 DEF UpdateUser, WriteUser, Complete, TypeOK
  <2>4. Waiting(u)' = Waiting(u) \ {e}
    BY <1>1, <2>1, <2>3 DEF Waiting, Changes, NeedsUser
  <2>5. CASE u # user[h]
    <3>1. e \notin Waiting(u)
      BY <2>1, <2>5 DEF Waiting, Changes
    <3> QED
      BY <1>1, <1>2, <2>3, <2>4, <2>5, <3>1, FinallyRests
  <2>6. CASE u = user[h]
    <3>1. e \in Waiting(u)
      BY <2>1, <2>2, <2>6 DEF Waiting, Changes
    <3>2. \A f \in Waiting(u) : e <= f
      <4> SUFFICES ASSUME NEW f \in Waiting(u) PROVE e <= f
        OBVIOUS
      <4>1. f \in Events /\ f \notin completed /\ f \in Int /\ e \in Int
        BY <2>1, BillingAssumption DEF Waiting
      <4>2. ~(f < e)
        BY <2>1, <4>1 DEF OrderInv, RedeliveryInv, Active
      <4> QED
        BY <4>1, <4>2
    <3> SUFFICES ASSUME NEW p \in Finally(u)' PROVE p \in Finally(u)
      OBVIOUS
    <3>3. p \in Plan
      BY DEF Finally
    <3>4. ASSUME NEW i \in Coming(u)', \A j \in Coming(u)' : j <= i, p = newPlan(upcoming'[i])
          PROVE  p \in Finally(u)
      BY <1>1, <1>2, <3>3, <3>4 DEF Finally
    <3>5. ASSUME Coming(u)' = {}, NEW f \in Waiting(u)', \A g \in Waiting(u)' : g <= f,
                 p = newPlan(payload'[f])
          PROVE  p \in Finally(u)
      <4>1. f \in Waiting(u) /\ \A g \in Waiting(u) : g <= f
        BY <2>4, <3>2, <3>5
      <4> QED
        BY <1>1, <1>2, <3>3, <3>5, <4>1 DEF Finally
    <3>6. ASSUME Coming(u)' = {}, Waiting(u)' = {}, p = plan'[u] PROVE p \in Finally(u)
      <4>1. \A f \in Waiting(u) : f = e
        BY <2>4, <3>6
      <4>2. e <= e
        BY <2>1, BillingAssumption
      <4> QED
        BY <1>2, <2>3, <2>6, <3>1, <3>3, <3>6, <4>1, <4>2 DEF Finally
    <3> QED
      BY <3>4, <3>5, <3>6 DEF Finally, newPlan
  <2> QED
    BY <2>5, <2>6
<1> QED
  BY <1>3, <1>4

LEMMA FinallyOne ==
    ASSUME BillingTypeOK, OrderInv, \A c : Linked(c) => owner'[c] = owner[c], NEW u \in Users,
           UNCHANGED vars, NEW p \in Payload, Told(p), Send(<<p>>)
    PROVE  /\ ~Changes(p, u) => Finally(u)' = Finally(u)
           /\ Changes(p, u) => Finally(u)' \subseteq {newPlan(p)}
<1>1. UNCHANGED <<payload, outbox, completed, writes, plan>>
  BY DEF vars, stripeVars, history, doubts, accounts
<1>2. upcoming' = upcoming \o <<p>>
  BY DEF Send
<1>3. <<p>> \in Seq(Payload) /\ \A k \in DOMAIN <<p>> : Told(<<p>>[k])
  BY OneOrTwo
<1>4. /\ (\A k \in DOMAIN <<p>> : ~Changes(<<p>>[k], u)) => Finally(u)' = Finally(u)
      /\ \A x : /\ \E k \in DOMAIN <<p>> : Changes(<<p>>[k], u)
                /\ \A k \in DOMAIN <<p>> : Changes(<<p>>[k], u) => newPlan(<<p>>[k]) = x
                => Finally(u)' \subseteq {x}
  BY <1>1, <1>2, <1>3, FinallySent
<1> QED
  BY <1>4, OneOrTwo

\* Two events that give the same plan.
LEMMA FinallyTwo ==
    ASSUME BillingTypeOK, OrderInv, \A c : Linked(c) => owner'[c] = owner[c], NEW u \in Users,
           UNCHANGED vars, NEW p \in Payload, NEW r \in Payload, Told(p), Told(r),
           Send(<<p, r>>), newPlan(p) = newPlan(r)
    PROVE  /\ ~Changes(p, u) /\ ~Changes(r, u) => Finally(u)' = Finally(u)
           /\ Changes(p, u) \/ Changes(r, u) => Finally(u)' \subseteq {newPlan(p)}
<1>1. UNCHANGED <<payload, outbox, completed, writes, plan>>
  BY DEF vars, stripeVars, history, doubts, accounts
<1>2. upcoming' = upcoming \o <<p, r>>
  BY DEF Send
<1>3. <<p, r>> \in Seq(Payload) /\ \A k \in DOMAIN <<p, r>> : Told(<<p, r>>[k])
  BY OneOrTwo
<1>4. /\ (\A k \in DOMAIN <<p, r>> : ~Changes(<<p, r>>[k], u)) => Finally(u)' = Finally(u)
      /\ \A x : /\ \E k \in DOMAIN <<p, r>> : Changes(<<p, r>>[k], u)
                /\ \A k \in DOMAIN <<p, r>> : Changes(<<p, r>>[k], u) => newPlan(<<p, r>>[k]) = x
                => Finally(u)' \subseteq {x}
  BY <1>1, <1>2, <1>3, FinallySent
<1> QED
  BY <1>4, OneOrTwo

\* Whose plan the events about a subscription change, and to what.
LEMMA SubscriptionChanges ==
    ASSUME NEW s \in Subscriptions, subCustomer[s] # NoCustomer, NEW price, NEW u
    PROVE  /\ Changes(InvoicePaid(subCustomer[s], price), u) <=> u = OwnerOf(s)
           /\ newPlan(InvoicePaid(subCustomer[s], price)) = planFromPriceId(price)
           /\ Changes(SubscriptionUpdated(s, price), u) <=> ~cancelling'[s] /\ u = OwnerOf(s)
           /\ newPlan(SubscriptionUpdated(s, price)) = planFromPriceId(price)
           /\ Changes(SubscriptionDeleted(s), u) <=> u = OwnerOf(s)
           /\ newPlan(SubscriptionDeleted(s)) = "FREE"
BY DEF Changes, NeedsUser, InvoicePaid, SubscriptionUpdated, SubscriptionDeleted, newPlan, OwnerOf

LEMMA FollowStep ==
    ASSUME Orderly, IInv, BillingInv, RedeliveryInv, PlanInv, [BillingNext]_billing
    PROVE  FollowInv'
<1>0. /\ TypeOK /\ BillingTypeOK /\ SlotInv
      /\ CustomerInv /\ SubscriptionInv /\ OrderInv /\ FollowInv
  BY DEF IInv, BillingInv, PlanInv
<1>1. \A c : Linked(c) => owner'[c] = owner[c]
  BY <1>0, StaysLinked
<1>2. \A s \in Subscriptions : IsActive(s) =>
          /\ Linked(subCustomer[s]) /\ owner'[subCustomer[s]] = owner[subCustomer[s]]
          /\ subPrice[s] \in PaidPrice /\ OwnerOf(s) \in Users /\ subCustomer[s] # NoCustomer
  BY <1>0, <1>1, NoCustomerAssumption DEF SubscriptionInv, IsActive, OwnerOf, Linked, TypeOK
<1>3. ASSUME UNCHANGED <<status, subCustomer>>
      PROVE  \A u \in Users : ActiveOf(u)' = ActiveOf(u)
  BY <1>2, <1>3 DEF ActiveOf, IsActive, OwnerOf
<1>4. ASSUME UNCHANGED subscriptionVars, \A u \in Users : Finally(u)' \subseteq Finally(u)
      PROVE  FollowInv'
  <2>1. \A u \in Users : ActiveOf(u)' = ActiveOf(u)
    BY <1>3, <1>4 DEF subscriptionVars
  <2>2. UNCHANGED <<cancelling, subPrice, twice>>
    BY <1>4 DEF subscriptionVars
  <2> QED
    BY <1>0, <1>4, <2>1, <2>2 DEF FollowInv, Entitled
\* A subscription that stays active, of whose owner the last event says what it entitles to.
<1>5. ASSUME NEW s \in Subscriptions, IsActive(s), UNCHANGED <<status, subCustomer, twice>>,
             \A t \in Subscriptions : t # s =>
                 cancelling'[t] = cancelling[t] /\ subPrice'[t] = subPrice[t],
             \A u \in Users : u # OwnerOf(s) => Finally(u)' = Finally(u),
             \A u \in Users \ twice : u = OwnerOf(s) =>
                 Finally(u)' \subseteq Entitled(cancelling'[s], subPrice'[s])
      PROVE  FollowInv'
  <2> SUFFICES ASSUME NEW u \in Users \ twice
               PROVE  /\ \A t, r \in ActiveOf(u)' : t = r
                      /\ ActiveOf(u)' = {} => Finally(u)' \subseteq {"FREE"}
                      /\ \A t \in ActiveOf(u)' :
                             Finally(u)' \subseteq Entitled(cancelling'[t], subPrice'[t])
    BY <1>5 DEF FollowInv, Entitled
  <2>1. ActiveOf(u)' = ActiveOf(u)
    BY <1>3, <1>5
  <2>2. s \in ActiveOf(OwnerOf(s))
    BY <1>5 DEF ActiveOf, IsActive
  <2>3. CASE u = OwnerOf(s)
    <3>1. \A t \in ActiveOf(u)' : t = s
      BY <1>0, <2>1, <2>2, <2>3 DEF FollowInv
    <3> QED
      BY <1>5, <2>1, <2>2, <2>3, <3>1
  <2>4. CASE u # OwnerOf(s)
    <3>1. \A t \in ActiveOf(u) : t \in Subscriptions /\ t # s
      BY <2>4 DEF ActiveOf
    <3>2. Finally(u)' = Finally(u)
      BY <1>5, <2>4
    <3> QED
      BY <1>0, <1>5, <2>1, <3>1, <3>2 DEF FollowInv, Entitled
  <2> QED
    BY <2>3, <2>4
<1>6. ASSUME NEW s \in Subscriptions, Renew(s) PROVE FollowInv'
  <2> DEFINE p == InvoicePaid(subCustomer[s], subPrice[s])
  <2>1. IsActive(s) /\ ~cancelling[s] /\ Send(<<p>>) /\ UNCHANGED vars
        /\ UNCHANGED <<status, subCustomer, subPrice, cancelling, twice>>
    BY <1>6 DEF Renew
  <2>2. Told(p) /\ p \in Payload
    BY <1>0, <1>2, <2>1, SubscriptionTold, InvoiceType DEF BillingTypeOK
  <2>3. \A u \in Users : Changes(p, u) <=> u = OwnerOf(s)
    BY <1>2, <2>1, SubscriptionChanges
  <2>4. newPlan(p) = planFromPriceId(subPrice[s])
    BY <1>2, <2>1, SubscriptionChanges
  <2> HIDE DEF p
  <2>5. \A u \in Users : u # OwnerOf(s) => Finally(u)' = Finally(u)
    BY <1>0, <1>1, <2>1, <2>2, <2>3, FinallyOne
  <2>6. \A u \in Users : u = OwnerOf(s) => Finally(u)' \subseteq {planFromPriceId(subPrice[s])}
    BY <1>0, <1>1, <2>1, <2>2, <2>3, <2>4, FinallyOne
  <2>7. Entitled(cancelling'[s], subPrice'[s]) = {planFromPriceId(subPrice[s])}
    BY <2>1 DEF Entitled
  <2> QED
    BY <1>5, <2>1, <2>5, <2>6, <2>7
<1>7. ASSUME NEW s \in Subscriptions, End(s) PROVE FollowInv'
  <2> DEFINE p == SubscriptionDeleted(s)
  <2>1. IsActive(s) /\ Send(<<p>>) /\ UNCHANGED vars
        /\ status' = [status EXCEPT ![s] = "canceled"]
        /\ UNCHANGED <<subCustomer, subPrice, cancelling, twice>>
    BY <1>7 DEF End
  <2>2. Told(p) /\ p \in Payload
    BY <1>0, <1>2, <2>1, SubscriptionTold, DeletedType
  <2>3. \A u \in Users : Changes(p, u) <=> u = OwnerOf(s)
    BY <1>2, <2>1, SubscriptionChanges
  <2>4. newPlan(p) = "FREE"
    BY <1>2, <2>1, SubscriptionChanges
  <2> HIDE DEF p
  <2>5. \A u \in Users : u # OwnerOf(s) => Finally(u)' = Finally(u)
    BY <1>0, <1>1, <2>1, <2>2, <2>3, FinallyOne
  <2>6. \A u \in Users : u = OwnerOf(s) => Finally(u)' \subseteq {"FREE"}
    BY <1>0, <1>1, <2>1, <2>2, <2>3, <2>4, FinallyOne
  <2>7. \A u \in Users : ActiveOf(u)' = ActiveOf(u) \ {s}
    BY <1>0, <1>2, <2>1 DEF ActiveOf, IsActive, OwnerOf, BillingTypeOK
  <2>8. s \in ActiveOf(OwnerOf(s))
    BY <2>1 DEF ActiveOf, IsActive
  <2> SUFFICES ASSUME NEW u \in Users \ twice
               PROVE  /\ \A t, r \in ActiveOf(u)' : t = r
                      /\ ActiveOf(u)' = {} => Finally(u)' \subseteq {"FREE"}
                      /\ \A t \in ActiveOf(u)' :
                             Finally(u)' \subseteq Entitled(cancelling'[t], subPrice'[t])
    BY <2>1 DEF FollowInv, Entitled
  <2>9. CASE u = OwnerOf(s)
    <3>1. ActiveOf(u)' = {}
      BY <1>0, <2>7, <2>8, <2>9 DEF FollowInv
    <3> QED
      BY <2>6, <2>9, <3>1
  <2>10. CASE u # OwnerOf(s)
    <3>1. ActiveOf(u)' = ActiveOf(u) /\ Finally(u)' = Finally(u)
      BY <2>5, <2>7, <2>10 DEF ActiveOf
    <3> QED
      BY <1>0, <2>1, <3>1 DEF FollowInv, Entitled
  <2> QED
    BY <2>9, <2>10
<1>8. ASSUME NEW o \in Slots, CreateSubscription(o) PROVE FollowInv'
  <2> DEFINE price == priceIdForPlan(opPlan[o])
             p == InvoicePaid(opCustomer[o], price)
  <2>1. PICK s \in Subscriptions :
            /\ status[s] = "none"
            /\ status' = [status EXCEPT ![s] = "active"]
            /\ subCustomer' = [subCustomer EXCEPT ![s] = opCustomer[o]]
            /\ subPrice' = [subPrice EXCEPT ![s] = price]
            /\ Send(<<p>>)
    BY <1>8 DEF CreateSubscription
  <2>2. /\ twice' = IF ActiveOf(opUser[o]) = {} THEN twice ELSE twice \cup {opUser[o]}
        /\ UNCHANGED <<owner, cancelling>> /\ UNCHANGED vars
    BY <1>8 DEF CreateSubscription
  <2>3. Linked(opCustomer[o]) /\ owner[opCustomer[o]] = opUser[o] /\ opUser[o] \in Users
        /\ opCustomer[o] \in Customers
    BY <1>0, <1>8, SubscriberLinked DEF CreateSubscription, Linked
  <2>4. p \in Payload /\ Told(p)
    BY <2>3, PriceType, InvoiceType, PaidPrices DEF Told, InvoicePaid
  <2>5. /\ \A u \in Users : Changes(p, u) <=> u = opUser[o]
        /\ newPlan(p) = planFromPriceId(price)
    BY <2>3, NoCustomerAssumption DEF Changes, NeedsUser, InvoicePaid, newPlan
  <2> HIDE DEF p, price
  <2>6. \A u \in Users : u # opUser[o] => Finally(u)' = Finally(u)
    BY <1>0, <1>1, <2>1, <2>2, <2>4, <2>5, FinallyOne
  <2>7. \A u \in Users : u = opUser[o] => Finally(u)' \subseteq {planFromPriceId(price)}
    BY <1>0, <1>1, <2>1, <2>2, <2>4, <2>5, FinallyOne
  <2>8. \A u \in Users : ActiveOf(u)' = IF u = opUser[o] THEN ActiveOf(u) \cup {s} ELSE ActiveOf(u)
    BY <1>0, <1>2, <2>1, <2>2, <2>3 DEF ActiveOf, IsActive, OwnerOf, BillingTypeOK
  <2>9. ~cancelling'[s] /\ subPrice'[s] = price
    BY <1>0, <2>1, <2>2 DEF SubscriptionInv, BillingTypeOK
  <2> SUFFICES ASSUME NEW u \in Users \ twice'
               PROVE  /\ \A t, r \in ActiveOf(u)' : t = r
                      /\ ActiveOf(u)' = {} => Finally(u)' \subseteq {"FREE"}
                      /\ \A t \in ActiveOf(u)' :
                             Finally(u)' \subseteq Entitled(cancelling'[t], subPrice'[t])
    BY DEF FollowInv, Entitled
  <2>10. CASE u = opUser[o]
    <3>1. ActiveOf(u)' = {s}
      BY <2>2, <2>8, <2>10
    <3> QED
      BY <2>7, <2>9, <2>10, <3>1 DEF Entitled
  <2>11. CASE u # opUser[o]
    <3>1. ActiveOf(u)' = ActiveOf(u) /\ Finally(u)' = Finally(u) /\ u \notin twice
      BY <2>2, <2>6, <2>8, <2>11
    <3>2. \A t \in ActiveOf(u) : cancelling'[t] = cancelling[t] /\ subPrice'[t] = subPrice[t]
      BY <1>0, <2>1, <2>2 DEF ActiveOf, BillingTypeOK
    <3> QED
      BY <1>0, <3>1, <3>2 DEF FollowInv, Entitled
  <2> QED
    BY <2>10, <2>11
<1>9. ASSUME NEW o \in Slots, CancelAtPeriodEnd(o) PROVE FollowInv'
  <2> DEFINE s == opSub[o]
             p == SubscriptionUpdated(s, subPrice[s])
  <2>1. s \in Subscriptions /\ UNCHANGED <<status, subCustomer, subPrice, twice>> /\ UNCHANGED vars
    BY <1>0, <1>9 DEF CancelAtPeriodEnd, SlotInv
  <2>2. CASE UNCHANGED <<cancelling, upcoming>>
    <3>1. \A u \in Users : Finally(u)' = Finally(u)
      BY <1>0, <1>1, <2>1, <2>2, FinallyUnsent DEF vars, stripeVars, history, doubts, accounts
    <3> QED
      BY <1>4, <2>1, <2>2, <3>1 DEF subscriptionVars
  <2>3. CASE IsActive(s) /\ cancelling' = [cancelling EXCEPT ![s] = TRUE] /\ Send(<<p>>)
             /\ ~cancelling[s]
    <3>1. cancelling'[s] /\ \A t \in Subscriptions : t # s => cancelling'[t] = cancelling[t]
      BY <1>0, <2>1, <2>3 DEF BillingTypeOK
    <3>2. Told(p) /\ p \in Payload
      BY <1>0, <1>2, <2>1, <2>3, SubscriptionTold, UpdatedType DEF BillingTypeOK
    <3>3. \A u \in Users : ~Changes(p, u)
      BY <1>2, <2>1, <2>3, <3>1, SubscriptionChanges
    <3> HIDE DEF p
    <3>4. \A u \in Users : Finally(u)' = Finally(u)
      BY <1>0, <1>1, <2>1, <2>3, <3>2, <3>3, FinallyOne
    <3>5. s \in ActiveOf(OwnerOf(s)) /\ planFromPriceId(subPrice[s]) \in PaidPlan
      BY <1>2, <2>1, <2>3, PaidPrices DEF ActiveOf, IsActive
    <3>6. \A u \in Users \ twice : u = OwnerOf(s) => Finally(u) \subseteq {planFromPriceId(subPrice[s])}
      BY <1>0, <2>3, <3>5 DEF FollowInv, Entitled
    <3>7. \A u \in Users \ twice : u = OwnerOf(s) =>
              Finally(u)' \subseteq Entitled(cancelling'[s], subPrice'[s])
      BY <3>1, <3>4, <3>5, <3>6 DEF Entitled
    <3> QED
      BY <1>5, <2>1, <2>3, <3>1, <3>4, <3>7
  <2> QED
    BY <1>9, <2>2, <2>3 DEF CancelAtPeriodEnd
<1>10. ASSUME NEW o \in Slots, UpdateSubscription(o) PROVE FollowInv'
  <2> DEFINE s == opSub[o]
             new == priceIdForPlan(opPlan[o])
             updated == SubscriptionUpdated(s, new)
             invoice == InvoicePaid(subCustomer[s], new)
  <2>1. /\ s \in Subscriptions /\ IsActive(s) /\ subPrice' = [subPrice EXCEPT ![s] = new]
        /\ UNCHANGED <<status, subCustomer, twice, cancelling>> /\ UNCHANGED vars
    BY <1>0, <1>10 DEF UpdateSubscription, SlotInv
  <2>2. \/ new = subPrice[s] /\ UNCHANGED upcoming
        \/ Send(<<updated>>) \/ Send(<<updated, invoice>>) \/ Send(<<invoice, updated>>)
    BY <1>10 DEF UpdateSubscription, Orderly
  <2>3. new \in PaidPrice /\ new \in Price \cup {NoPrice} /\ planFromPriceId(new) \in PaidPlan
    BY PaidPrices, PriceType
  <2>4. Told(updated) /\ updated \in Payload /\ Told(invoice) /\ invoice \in Payload
    BY <1>0, <2>1, <2>3, SubscriptionTold, UpdatedType, InvoiceType DEF BillingTypeOK
  <2>5. /\ \A u \in Users : /\ Changes(invoice, u) <=> u = OwnerOf(s)
                            /\ Changes(updated, u) <=> ~cancelling[s] /\ u = OwnerOf(s)
        /\ newPlan(invoice) = planFromPriceId(new) /\ newPlan(updated) = planFromPriceId(new)
    BY <1>2, <2>1, SubscriptionChanges
  <2>6. subPrice'[s] = new /\ \A t \in Subscriptions : t # s => subPrice'[t] = subPrice[t]
    BY <1>0, <2>1 DEF BillingTypeOK
  <2>7. s \in ActiveOf(OwnerOf(s))
    BY <2>1 DEF ActiveOf, IsActive
  <2> HIDE DEF updated, invoice, new
  <2>8. CASE new = subPrice[s] /\ UNCHANGED upcoming
    <3>1. \A u \in Users : Finally(u)' = Finally(u)
      BY <1>0, <1>1, <2>1, <2>8, FinallyUnsent DEF vars, stripeVars, history, doubts, accounts
    <3>2. UNCHANGED subPrice
      BY <1>0, <2>1, <2>8 DEF BillingTypeOK
    <3> QED
      BY <1>4, <2>1, <3>1, <3>2 DEF subscriptionVars
  <2>9. ASSUME Send(<<updated>>) \/ Send(<<updated, invoice>>) \/ Send(<<invoice, updated>>)
        PROVE  FollowInv'
    <3>1. \A u \in Users : u # OwnerOf(s) => Finally(u)' = Finally(u)
      BY <1>0, <1>1, <2>1, <2>4, <2>5, <2>9, FinallyOne, FinallyTwo
    <3>2. \A u \in Users : u = OwnerOf(s) =>
              \/ Finally(u)' \subseteq {planFromPriceId(new)}
              \/ cancelling[s] /\ Finally(u)' = Finally(u)
      BY <1>0, <1>1, <2>1, <2>4, <2>5, <2>9, FinallyOne, FinallyTwo
    <3>3. \A u \in Users \ twice : u = OwnerOf(s) =>
              Finally(u)' \subseteq Entitled(cancelling'[s], subPrice'[s])
      BY <1>0, <2>1, <2>3, <2>6, <2>7, <3>2 DEF FollowInv, Entitled
    <3> QED
      BY <1>5, <2>1, <2>6, <3>1, <3>3
  <2> QED
    BY <2>2, <2>8, <2>9
<1>11. ASSUME \/ \E o \in Slots : FindById(o) \/ CreateCustomer(o) \/ LinkCustomer(o)
                              \/ AttachPaymentMethod(o) \/ RetrieveCustomer(o)
                              \/ getActiveSubscription(o) \/ UpdateRefused(o)
                              \/ SavePriceId(o) \/ OpFails(o)
              \/ \E o \in Slots, u \in Users, wanted \in Plan :
                     Signup(o, u, wanted) \/ \E kind \in Ops : Request(o, kind, u, wanted)
              \/ \E c \in Customers : ConfirmCard(c)
              \/ UNCHANGED billing
       PROVE  FollowInv'
  <2>1. /\ UNCHANGED <<upcoming, payload, outbox, completed, writes, plan>>
        /\ UNCHANGED subscriptionVars
    BY <1>11 DEF FindById, CreateCustomer, LinkCustomer, AttachPaymentMethod, RetrieveCustomer,
        getActiveSubscription, UpdateRefused, SavePriceId, OpFails, Signup, Request, ConfirmCard,
        billing, billingVars, stripeState, vars, webhookVars, stripeVars, history, doubts, accounts
  <2>2. \A u \in Users : Finally(u)' = Finally(u)
    BY <1>0, <1>1, <2>1, FinallyUnsent
  <2> QED
    BY <1>4, <2>1, <2>2
<1>12. CASE EmitNext
  <2>1. UNCHANGED subscriptionVars
    BY <1>12 DEF EmitNext, stripeState
  <2> QED
    BY <1>0, <1>4, <1>12, <2>1, FinallyEmitted
<1>13. ASSUME NEW h \in Handlers, UNCHANGED billingVars, Handle(h) PROVE FollowInv'
  BY <1>0, <1>4, <1>13, FinallyHandled DEF billingVars, stripeState
<1>14. ASSUME NEW h \in Handlers, NEW e \in Events, UNCHANGED billingVars, DeliverNext(e, h)
       PROVE  FollowInv'
  <2>1. /\ UNCHANGED <<upcoming, payload, outbox, completed, writes, plan>>
        /\ UNCHANGED subscriptionVars
    BY <1>14 DEF DeliverNext, Deliver, billingVars, stripeState, stripeVars, history, doubts, accounts
  <2>2. \A u \in Users : Finally(u)' = Finally(u)
    BY <1>0, <1>1, <2>1, FinallyUnsent
  <2> QED
    BY <1>4, <2>1, <2>2
<1> QED
  BY <1>6, <1>7, <1>8, <1>9, <1>10, <1>11, <1>12, <1>13, <1>14 DEF BillingNext, Serve

LEMMA PlanStep ==
    ASSUME Orderly, IInv, BillingInv, RedeliveryInv, PlanInv, OneRequestPerUser,
           [BillingNext]_billing
    PROVE  PlanInv'
<1>1. CustomerInv' /\ SubscriptionInv' /\ OrderInv'
  BY CustomerStep, SubscriptionStep, OrderStep DEF PlanInv
<1> QED
  BY <1>1, FollowStep DEF PlanInv

LEMMA PlanInit == BillingInit => PlanInv
<1> SUFFICES ASSUME BillingInit PROVE PlanInv
  OBVIOUS
<1> USE DEF BillingInit, NothingSent
<1>1. CustomerInv /\ SubscriptionInv
  BY DEF CustomerInv, SubscriptionInv
<1>2. OrderInv
  BY DEF OrderInv, Active
<1>3. \A u \in Users : /\ ActiveOf(u) = {} /\ Coming(u) = {} /\ Waiting(u) = {}
                       /\ Finally(u) \subseteq {"FREE"}
  BY DEF ActiveOf, Coming, Waiting, Finally
<1>4. FollowInv
  BY <1>3 DEF FollowInv
<1> QED
  BY <1>1, <1>2, <1>4 DEF PlanInv

------------------------------------------------------------------------------
(* The theorems *)

LEMMA ComposedInit == BillingInit => IInv /\ BillingInv /\ RedeliveryInv
<1> SUFFICES ASSUME BillingInit PROVE IInv /\ BillingInv /\ RedeliveryInv
  OBVIOUS
<1> USE FaultsAssumption DEF BillingInit, NothingSent
<1>1. TypeOK
  BY DEF TypeOK, Labels, Plan, Blank, Payload, EventTypes
<1>2. IInv
  BY <1>1 DEF IInv, RequestInv, HolderInv, EventInv, ExclusiveProcessing,
      OneMailJobPerEvent, MailFollowsUpdate, Holds, Active, Holding
<1>3. upcoming \in Seq(Payload)
  OBVIOUS
<1>4. BillingTypeOK
  BY <1>3 DEF BillingTypeOK, Ops, Plan
<1>5. LinkInv /\ SlotInv /\ CreditInv
  BY DEF LinkInv, SlotInv, CreditInv
<1>6. RedeliveryInv
  BY DEF RedeliveryInv, Active, Holds, Holding
<1> QED
  BY <1>2, <1>4, <1>5, <1>6 DEF BillingInv

\* The webhook's invariant survives the writes of billing, and billing's own
\* survives the webhook: a request and the handler only write what each of them
\* may, although none of them locks a row.
THEOREM BillingInvariance == BillingSpec => [](IInv /\ BillingInv)
<1>1. BillingInit => IInv /\ BillingInv
  BY ComposedInit
<1>2. (IInv /\ BillingInv) /\ [BillingNext]_billing => (IInv /\ BillingInv)'
  BY WebhookStep, BillingStep
<1> QED
  BY <1>1, <1>2, PTL DEF BillingSpec

\* Every variable of billing keeps its type: the events Stripe is sent to tell are
\* events the handler knows, and a request holds ids of its own kinds.
THEOREM BillingTypeCorrect == BillingSpec => []BillingTypeOK
<1>1. BillingInv => BillingTypeOK
  BY DEF BillingInv
<1> QED
  BY <1>1, BillingInvariance, PTL

\* Two users never share a Stripe customer, however their set-ups and sign-ups
\* interleave: the webhook's look-up by customer has one answer.
THEOREM CustomersAreSeparate == BillingSpec => []UniqueCustomers
<1>1. BillingInv => UniqueCustomers
  BY DEF BillingInv, LinkInv, UniqueCustomers
<1> QED
  BY <1>1, BillingInvariance, PTL

\* Only the handler writes a plan, that of the user it found, who is the one the
\* customer of its event was created for.
LEMMA OnlyOwnStep ==
    ASSUME IInv, BillingInv, [BillingNext]_billing, NEW u \in Users, plan'[u] # plan[u]
    PROVE  \E h \in Handlers : pc[h] = "update" /\ owner[payload[event[h]].customer] = u
<1> USE DEF vars, webhookVars, stripeVars, accounts, billing
<1>1. PICK h \in Handlers : Handle(h)
  <2>1. UNCHANGED plan \/ \E h \in Handlers : Handle(h)
    BY DEF BillingNext, Signup, Request, Serve, OpFails, ConfirmCard, Renew, End, EmitNext,
        Emit, DeliverNext, Deliver, FindById, CreateCustomer, LinkCustomer,
        AttachPaymentMethod, RetrieveCustomer, CreateSubscription, getActiveSubscription,
        CancelAtPeriodEnd, UpdateSubscription, UpdateRefused, SavePriceId
  <2> QED
    BY <2>1
<1>2. pc[h] = "update" /\ WriteUser(h)
  BY <1>1 DEF Handle, RegisterDuplicate, RegisterNew, RegisterFails, FindUser,
      FindUserFails, UpdateUser, UpdateUserFails, Notify, Unregister, Respond
<1>3. user[h] = u
  BY <1>2 DEF WriteUser, IInv, TypeOK
<1> QED
  BY <1>2, <1>3 DEF BillingInv, CreditInv

\* A plan changes only by an event about a customer created for its user.
THEOREM OnlyOwn == BillingSpec => OnlyOwnEvents
<1>1. IInv /\ BillingInv /\ [BillingNext]_billing =>
          [\A u \in Users : plan'[u] # plan[u] =>
               \E h \in Handlers :
                   pc[h] = "update" /\ owner[payload[event[h]].customer] = u]_billing
  BY OnlyOwnStep
<1> QED
  BY <1>1, BillingInvariance, PTL DEF BillingSpec, OnlyOwnEvents

LEMMA RedeliveryOfBilling ==
    ASSUME OnlyRejections
    PROVE  BillingSpec => [](IInv /\ BillingInv /\ RedeliveryInv)
<1>1. BillingInit => IInv /\ BillingInv /\ RedeliveryInv
  BY ComposedInit
<1>2. (IInv /\ BillingInv /\ RedeliveryInv) /\ [BillingNext]_billing
          => (IInv /\ BillingInv /\ RedeliveryInv)'
  BY WebhookStep, BillingStep, RedeliveryWhileBilling
<1> QED
  BY <1>1, <1>2, PTL DEF BillingSpec

LEMMA DoubtsOfBilling == BillingSpec => []DoubtInv
<1>1. BillingInit => DoubtInv
  BY DEF BillingInit, NothingSent, DoubtInv, RowInv, WriteInv, BurnedOnlyInDoubt,
      AppliedAgainOnlyInDoubt
<1>2. (IInv /\ BillingInv) /\ DoubtInv /\ [BillingNext]_billing => DoubtInv'
  BY DoubtWhileBilling
<1> QED
  BY <1>1, <1>2, BillingInvariance, PTL DEF BillingSpec

\* Billing changes the rows the webhook is about to write, and still no event is lost
\* but to the doubts of the webhook itself.
THEOREM NotBurnedWhileBilling == BillingSpec => []BurnedOnlyInDoubt
<1>1. DoubtInv => BurnedOnlyInDoubt
  BY DEF DoubtInv, RowInv
<1> QED
  BY <1>1, DoubtsOfBilling, PTL

\* The same plan change is applied no more often than the webhook's lost answers
\* explain, whatever billing does between two deliveries of one event.
THEOREM AppliedOnceWhileBilling == BillingSpec => []AppliedAgainOnlyInDoubt
<1>1. DoubtInv => AppliedAgainOnlyInDoubt
  BY DEF DoubtInv, WriteInv
<1> QED
  BY <1>1, DoubtsOfBilling, PTL

\* Once everything is delivered, a user has the plan of the subscription that is charged:
\* what renewals, changes of the plan and cancellations tell, one event after the other,
\* adds up to what Stripe charges, however often an event is delivered again.  Whoever
\* waits for the answer before the next request, with Stripe delivering in order.
THEOREM PlanFollows ==
    ASSUME Orderly
    PROVE  BillingSpec /\ []OneRequestPerUser => []PlanFollowsSubscription
<1>1. BillingInit => PlanInv
  BY PlanInit
<1>2. (IInv /\ BillingInv /\ RedeliveryInv) /\ PlanInv /\ OneRequestPerUser
          /\ [BillingNext]_billing => PlanInv'
  BY PlanStep
<1>3. IInv /\ RedeliveryInv /\ PlanInv => PlanFollowsSubscription
  <2> SUFFICES ASSUME IInv, RedeliveryInv, PlanInv, Quiet, NEW u \in users \ twice
               PROVE  /\ ActiveOf(u) = {} => plan[u] = "FREE"
                      /\ \A s \in ActiveOf(u) :
                             IF cancelling[s] THEN plan[u] \in PaidPlan
                                              ELSE plan[u] = planFromPriceId(subPrice[s])
    BY DEF PlanFollowsSubscription
  <2>1. u \in Users /\ plan[u] \in Plan
    BY DEF IInv, TypeOK
  <2>2. Coming(u) = {}
    BY DEF Quiet, Coming
  <2>3. Waiting(u) = {}
    <3>1. \A e \in Events : outbox[e] # "unsent" => e \in completed
      BY DEF Quiet, RedeliveryInv, IInv, TypeOK
    <3> QED
      BY <3>1 DEF Waiting
  <2>4. plan[u] \in Finally(u)
    BY <2>1, <2>2, <2>3 DEF Finally
  <2> QED
    BY <2>1, <2>4 DEF PlanInv, FollowInv, Entitled
<1>4. OnlyRejections
  BY DEF Orderly
<1>5. BillingSpec => [](IInv /\ BillingInv /\ RedeliveryInv)
  BY <1>4, RedeliveryOfBilling
<1> QED
  BY <1>1, <1>2, <1>3, <1>5, PTL DEF BillingSpec

\* The webhook keeps its promise about an event, EventClaim, while billing changes the
\* accounts it writes: what billing does is no step of a claim.
THEOREM ClaimWhileBilling == BillingSpec => ClaimSpec
<1>1. BillingInit => Claim!Init
  BY DEF BillingInit, NothingSent, Claim!Init, holdersOf, Holds, Holding
<1>2. IInv /\ BillingInv /\ [BillingNext]_billing => [Claim!Next]_(Claim!vars)
  <2> SUFFICES ASSUME IInv, BillingInv, [BillingNext]_billing
               PROVE  [Claim!Next]_(Claim!vars)
    OBVIOUS
  <2>1. ASSUME UNCHANGED <<pc, event, completed, jobs>> PROVE UNCHANGED Claim!vars
    BY <2>1 DEF Claim!vars, holdersOf, Holds
  <2>2. CASE Next
    BY <2>2, ClaimStep
  <2>3. CASE \E e \in Events, p \in Payload : Emit(e, p)
    BY <2>1, <2>3 DEF Emit, requests, attempt, history, doubts
  <2>4. CASE UNCHANGED webhookVars
    BY <2>1, <2>4 DEF webhookVars, requests, attempt, history, doubts
  <2> QED
    BY <2>2, <2>3, <2>4, StepsOfTheWebhook DEF WebhookPart
<1> QED
  BY <1>1, <1>2, BillingInvariance, PTL DEF BillingSpec, ClaimSpec, Claim!Spec
=============================================================================
