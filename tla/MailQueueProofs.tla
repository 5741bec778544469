--------------------------- MODULE MailQueueProofs ---------------------------
(***************************************************************************)
(* What holds of the mail queue for any numbers of mails, workers,         *)
(* attempts and faults: the inductive invariant, the bound on repeated     *)
(* mails, and the queue as an implementation of Mailbox.                   *)
(***************************************************************************)
EXTENDS MailQueue, FiniteSetTheorems, TLAPS

LEMMA SendersFinite == ASSUME NEW j PROVE IsFiniteSet(Senders(j))
BY FS_Subset, QueueAssumption DEF Senders

LEMMA SendersCount ==
    ASSUME NEW j PROVE Cardinality(Senders(j)) \in Nat
BY SendersFinite, FS_CardinalityType

\* Without senders everything but the first copy is still to come.
LEMMA InitInv == Init => IInv
<1> SUFFICES ASSUME Init PROVE IInv
    OBVIOUS
<1> USE DEF Init
<1>1. TypeOK
  BY QueueAssumption DEF TypeOK
<1>2. WorkerInv /\ LockInv /\ SentInv
  BY DEF WorkerInv, LockInv, SentInv
<1>3. \A j \in Jobs : Senders(j) = {}
  BY DEF Senders
<1>4. CopiesInv
  BY <1>3, FS_EmptySet DEF CopiesInv
<1> QED
  BY <1>1, <1>2, <1>4 DEF IInv

\* One step per action.
LEMMA TypeStep == IInv /\ [Next]_vars => TypeOK'
<1> SUFFICES ASSUME IInv, [Next]_vars PROVE TypeOK'
    OBVIOUS
<1> USE QueueAssumption, JobNamesAssumption
<1> USE DEF IInv, TypeOK, WorkerInv, LockInv, MailFault
<1>1. ASSUME NEW j \in Jobs, enqueue(j) PROVE TypeOK'
  BY <1>1 DEF enqueue
<1>2. ASSUME NEW w \in Workers, NEW j \in Jobs, TakeJob(w, j) PROVE TypeOK'
  BY <1>2 DEF TakeJob
<1>3. ASSUME NEW w \in Workers, Send(w) PROVE TypeOK'
  BY <1>3 DEF Send, Answered, NoAnswer, outcome, Accepted
<1>4. ASSUME NEW w \in Workers, CompleteMail(w) PROVE TypeOK'
  BY <1>4 DEF CompleteMail, MoveJob, Release
<1>5. ASSUME NEW w \in Workers, RetryMail(w) PROVE TypeOK'
  BY <1>5 DEF RetryMail, MoveJob, Release, isLastAttempt
<1>6. ASSUME NEW w \in Workers, Stall(w) \/ Crash(w) PROVE TypeOK'
  BY <1>6 DEF Stall, Crash, LoseJob, Release
<1>7. ASSUME NEW j \in Jobs, RecoverJob(j) PROVE TypeOK'
  BY <1>7 DEF RecoverJob
<1>8. CASE UNCHANGED vars
  BY <1>8 DEF vars
<1> QED
  BY <1>1, <1>2, <1>3, <1>4, <1>5, <1>6, <1>7, <1>8 DEF Next, QueueStep, WorkerStep

\* Only a worker changes its own job, and only the worker that has the lock, or the
\* queue when nobody has it, moves the job.
LEMMA WorkerStepInv == IInv /\ [Next]_vars => WorkerInv' /\ LockInv' /\ SentInv'
<1> SUFFICES ASSUME IInv, [Next]_vars PROVE WorkerInv' /\ LockInv' /\ SentInv'
    OBVIOUS
<1> USE QueueAssumption, JobNamesAssumption
<1> USE DEF IInv, TypeOK, WorkerInv, LockInv, SentInv, MailFault
<1>1. ASSUME NEW j \in Jobs, enqueue(j) PROVE WorkerInv' /\ LockInv' /\ SentInv'
  BY <1>1 DEF enqueue
<1>2. ASSUME NEW w \in Workers, NEW j \in Jobs, TakeJob(w, j)
      PROVE  WorkerInv' /\ LockInv' /\ SentInv'
  BY <1>2 DEF TakeJob
<1>3. ASSUME NEW w \in Workers, Send(w) PROVE WorkerInv' /\ LockInv' /\ SentInv'
  <2> USE <1>3 DEF Send, Answered, NoAnswer, outcome, Accepted
  <2>1. WorkerInv'
    OBVIOUS
  <2>2. LockInv'
    OBVIOUS
  <2>3. \A j \in Jobs : copies[j] > 0 => copies'[j] > 0
    OBVIOUS
  <2>4. SentInv'
    BY <2>3
  <2> QED
    BY <2>1, <2>2, <2>4
<1>4. ASSUME NEW w \in Workers, CompleteMail(w)
      PROVE  WorkerInv' /\ LockInv' /\ SentInv'
  BY <1>4 DEF CompleteMail, MoveJob, Release
<1>5. ASSUME NEW w \in Workers, RetryMail(w)
      PROVE  WorkerInv' /\ LockInv' /\ SentInv'
  BY <1>5 DEF RetryMail, MoveJob, Release
<1>6. ASSUME NEW w \in Workers, Stall(w) \/ Crash(w)
      PROVE  WorkerInv' /\ LockInv' /\ SentInv'
  BY <1>6 DEF Stall, Crash, LoseJob, Release
<1>7. ASSUME NEW j \in Jobs, RecoverJob(j) PROVE WorkerInv' /\ LockInv' /\ SentInv'
  BY <1>7 DEF RecoverJob
<1>8. CASE UNCHANGED vars
  BY <1>8 DEF vars
<1> QED
  BY <1>1, <1>2, <1>3, <1>4, <1>5, <1>6, <1>7, <1>8 DEF Next, QueueStep, WorkerStep

------------------------------------------------------------------------------
(* The copies of a mail *)

\* What a step does to the senders of the mail of j.
LEMMA Joins ==
    ASSUME NEW j, NEW w \in Workers, w \notin Senders(j),
           Senders(j)' = Senders(j) \cup {w}
    PROVE  Cardinality(Senders(j)') = Cardinality(Senders(j)) + 1
BY SendersFinite, FS_AddElement

LEMMA Leaves ==
    ASSUME NEW j, NEW w \in Senders(j), Senders(j)' = Senders(j) \ {w}
    PROVE  Cardinality(Senders(j)') = Cardinality(Senders(j)) - 1
BY SendersFinite, FS_RemoveElement

\* The bound on the copies of one mail.
Bounded(j) ==
    copies[j] + Cardinality(Senders(j)) + (IF MayComeBack(j) THEN 1 ELSE 0) <= 1 + doubtful[j]

\* A step that does not concern j leaves its bound alone.
LEMMA Untouched ==
    ASSUME NEW j \in Jobs, Bounded(j), Senders(j)' = Senders(j),
           MayComeBack(j)' => MayComeBack(j),
           copies'[j] = copies[j], doubtful'[j] = doubtful[j],
           copies[j] \in Nat, doubtful[j] \in Nat
    PROVE  Bounded(j)'
<1>1. Cardinality(Senders(j)') = Cardinality(Senders(j)) /\ Cardinality(Senders(j)) \in Nat
  BY SendersCount
<1>2. Cardinality(Senders(j))' = Cardinality(Senders(j)')
  OBVIOUS
<1>3. CASE MayComeBack(j)
  BY <1>1, <1>2, <1>3 DEF Bounded
<1>4. CASE ~MayComeBack(j)
  BY <1>1, <1>2, <1>4 DEF Bounded
<1> QED
  BY <1>3, <1>4
\* One step per action: the mail of the step first, then every other mail.
LEMMA CopiesStep == IInv /\ [Next]_vars => CopiesInv'
<1> SUFFICES ASSUME IInv, [Next]_vars, NEW k \in Jobs PROVE Bounded(k)'
    BY DEF CopiesInv, Bounded
<1> USE QueueAssumption, JobNamesAssumption
<1>0. /\ TypeOK /\ WorkerInv /\ LockInv /\ Bounded(k)
      /\ copies[k] \in Nat /\ doubtful[k] \in Nat
      /\ Cardinality(Senders(k)) \in Nat
  BY SendersCount DEF IInv, CopiesInv, Bounded, TypeOK
<1>1. ASSUME NEW j \in Jobs, enqueue(j) PROVE Bounded(k)'
  <2> USE <1>1 DEF enqueue
  <2>1. Senders(k)' = Senders(k)
    BY DEF Senders
  <2>2. MayComeBack(k)' => MayComeBack(k)
    BY <1>0 DEF MayComeBack, TypeOK, LockInv
  <2> QED
    BY <1>0, <2>1, <2>2, Untouched
<1>2. ASSUME NEW w \in Workers, NEW j \in Jobs, TakeJob(w, j) PROVE Bounded(k)'
  <2> USE <1>2 DEF TakeJob
  <2>1. CASE k = j
    <3>1. w \notin Senders(k) /\ Senders(k)' = Senders(k) \cup {w}
      BY <1>0, <2>1 DEF Senders, TypeOK, WorkerInv
    <3>2. Cardinality(Senders(k)') = Cardinality(Senders(k)) + 1
      BY <3>1, Joins
    <3>3. MayComeBack(k) /\ ~MayComeBack(k)'
      BY <1>0, <2>1 DEF MayComeBack, TypeOK
    <3> QED
      BY <1>0, <3>2, <3>3 DEF Bounded
  <2>2. CASE k # j
    <3>1. Senders(k)' = Senders(k)
      BY <1>0, <2>2 DEF Senders, TypeOK, WorkerInv
    <3>2. MayComeBack(k)' => MayComeBack(k)
      BY <1>0, <2>2 DEF MayComeBack, TypeOK, LockInv, WorkerInv
    <3> QED
      BY <1>0, <3>1, <3>2, Untouched
  <2> QED
    BY <2>1, <2>2
<1>3. ASSUME NEW w \in Workers, Send(w) PROVE Bounded(k)'
  <2> USE <1>3 DEF Send, Answered, NoAnswer, outcome
  <2>1. CASE k = workerJob[w]
    <3>1. w \in Senders(k) /\ Senders(k)' = Senders(k) \ {w}
      BY <1>0, <2>1 DEF Senders, TypeOK
    <3>2. Cardinality(Senders(k)') = Cardinality(Senders(k)) - 1
      BY <3>1, Leaves
    <3>3. CASE workerPc'[w] = "sent"
      <4>1. copies'[k] \in {copies[k], copies[k] + 1} /\ doubtful'[k] = doubtful[k]
        BY <1>0, <2>1, <3>3 DEF Accepted, TypeOK
      <4>2. MayComeBack(k)' => MayComeBack(k)
        BY <1>0, <2>1, <3>3 DEF MayComeBack, TypeOK, LockInv
      <4> QED
        BY <1>0, <3>2, <4>1, <4>2 DEF Bounded
    <3>4. CASE workerPc'[w] = "failed"
      <4>1. ~MayComeBack(k) \/ lock[k] # w
        BY <1>0, <2>1 DEF MayComeBack, TypeOK, LockInv
      <4>2. \/ copies'[k] = copies[k] /\ doubtful'[k] = doubtful[k]
            \/ /\ copies'[k] \in {copies[k], copies[k] + 1}
               /\ doubtful'[k] = doubtful[k] + 1
        BY <1>0, <2>1, <3>4 DEF Accepted, TypeOK
      <4>3. CASE copies'[k] = copies[k] /\ doubtful'[k] = doubtful[k]
        BY <1>0, <3>2, <4>3 DEF Bounded
      <4>4. CASE copies'[k] \in {copies[k], copies[k] + 1} /\ doubtful'[k] = doubtful[k] + 1
        BY <1>0, <3>2, <4>4 DEF Bounded
      <4> QED
        BY <4>2, <4>3, <4>4
    <3> QED
      BY <1>0, <3>3, <3>4 DEF TypeOK
  <2>2. CASE k # workerJob[w]
    <3>1. Senders(k)' = Senders(k)
      BY <1>0, <2>2 DEF Senders, TypeOK
    <3>2. MayComeBack(k)' => MayComeBack(k)
      BY <1>0, <2>2 DEF MayComeBack, TypeOK, LockInv
    <3>3. copies'[k] = copies[k] /\ doubtful'[k] = doubtful[k]
      BY <1>0, <2>2 DEF Accepted, TypeOK
    <3> QED
      BY <1>0, <3>1, <3>2, <3>3, Untouched
  <2> QED
    BY <2>1, <2>2
<1>4. ASSUME NEW w \in Workers, CompleteMail(w) PROVE Bounded(k)'
  <2> USE <1>4 DEF CompleteMail, MoveJob, Release
  <2>1. Senders(k)' = Senders(k)
    BY <1>0 DEF Senders, TypeOK
  <2>2. MayComeBack(k)' => MayComeBack(k)
    BY <1>0 DEF MayComeBack, TypeOK, LockInv
  <2> QED
    BY <1>0, <2>1, <2>2, Untouched
<1>5. ASSUME NEW w \in Workers, RetryMail(w) PROVE Bounded(k)'
  <2> USE <1>5 DEF RetryMail, MoveJob, Release
  <2>1. Senders(k)' = Senders(k)
    BY <1>0 DEF Senders, TypeOK
  <2>2. MayComeBack(k)' => MayComeBack(k)
    BY <1>0 DEF MayComeBack, TypeOK, LockInv
  <2> QED
    BY <1>0, <2>1, <2>2, Untouched
<1>6. ASSUME NEW w \in Workers, Stall(w) \/ Crash(w) PROVE Bounded(k)'
  <2> USE <1>6 DEF Stall, Crash, LoseJob, Release
  <2>1. Senders(k)' = Senders(k) \/ (w \in Senders(k) /\ Senders(k)' = Senders(k) \ {w})
    BY <1>0 DEF Senders, TypeOK
  <2>2. Cardinality(Senders(k)') \in {Cardinality(Senders(k)), Cardinality(Senders(k)) - 1}
    BY <2>1, Leaves
  <2>3. CASE k = workerJob[w]
    <3>1. copies'[k] = copies[k] /\ doubtful'[k] = doubtful[k] + 1
      BY <1>0, <2>3 DEF TypeOK
    <3>2. ~MayComeBack(k)' \/ MayComeBack(k)'
      OBVIOUS
    <3> QED
      BY <1>0, <2>2, <3>1, <3>2 DEF Bounded
  <2>4. CASE k # workerJob[w]
    <3>1. Senders(k)' = Senders(k)
      BY <1>0, <2>4 DEF Senders, TypeOK
    <3>2. MayComeBack(k)' => MayComeBack(k)
      BY <1>0, <2>4 DEF MayComeBack, TypeOK, LockInv
    <3>3. copies'[k] = copies[k] /\ doubtful'[k] = doubtful[k]
      BY <1>0, <2>4 DEF TypeOK, WorkerInv
    <3> QED
      BY <1>0, <3>1, <3>2, <3>3, Untouched
  <2> QED
    BY <2>3, <2>4
<1>7. ASSUME NEW j \in Jobs, RecoverJob(j) PROVE Bounded(k)'
  <2> USE <1>7 DEF RecoverJob
  <2>1. Senders(k)' = Senders(k)
    BY DEF Senders
  <2>2. MayComeBack(k)' => MayComeBack(k)
    BY <1>0 DEF MayComeBack, TypeOK, LockInv
  <2> QED
    BY <1>0, <2>1, <2>2, Untouched
<1>8. CASE UNCHANGED vars
  <2> USE <1>8 DEF vars
  <2>1. Senders(k)' = Senders(k) /\ MayComeBack(k)' = MayComeBack(k)
    BY DEF Senders, MayComeBack
  <2> QED
    BY <1>0, <2>1, Untouched
<1> QED
  BY <1>1, <1>2, <1>3, <1>4, <1>5, <1>6, <1>7, <1>8 DEF Next, QueueStep, WorkerStep

------------------------------------------------------------------------------
(* Theorems *)

\* The inductive invariant: whatever the queue, the workers and the provider do, a
\* worker is on a job that was queued, a lock is its holder's, what counts as sent was
\* accepted, and every further copy of a mail is paid for by a doubtful send.
THEOREM Invariance == Spec => []IInv
<1>1. IInv /\ [Next]_vars => IInv'
  BY TypeStep, WorkerStepInv, CopiesStep DEF IInv
<1> QED
  BY InitInv, <1>1, PTL DEF Spec

\* The queue's state has its types: a job that may still run has attempts left.
THEOREM TypeCorrect == Spec => []TypeOK
<1>1. IInv => TypeOK
  BY DEF IInv
<1> QED
  BY <1>1, Invariance, PTL

\* MailProcessor: a mail goes out once, and once more at most for each time a send was
\* not answered in time or its worker lost the job before it could say so.
THEOREM NoNeedless == Spec => []NoNeedlessCopies
<1>1. IInv => NoNeedlessCopies
  BY SendersCount DEF IInv, TypeOK, CopiesInv, NoNeedlessCopies
<1> QED
  BY <1>1, Invariance, PTL

\* A step of the queue is a step of the mailbox, or none.
LEMMA MailboxStep ==
    ASSUME MailEnabled, IInv, [Next]_vars
    PROVE  [Promise!Next]_<<Box, Delivered>>
<1> USE QueueAssumption, JobNamesAssumption
<1> USE DEF IInv, TypeOK
<1>1. ASSUME NEW j \in Jobs, enqueue(j) PROVE [Promise!Next]_<<Box, Delivered>>
  <2>1. Delivered' = Delivered
    BY <1>1 DEF enqueue, Delivered
  <2>2. Promise!Post(j) \/ Box' = Box
    BY <1>1, <2>1 DEF enqueue, Promise!Post, Box, MailFault
  <2> QED
    BY <2>1, <2>2 DEF Promise!Next
<1>2. ASSUME NEW w \in Workers, NEW j \in Jobs, TakeJob(w, j)
      PROVE  UNCHANGED <<Box, Delivered>>
  BY <1>2 DEF TakeJob, Box, Delivered
<1>3. ASSUME NEW w \in Workers, Send(w) PROVE [Promise!Next]_<<Box, Delivered>>
  <2> USE <1>3 DEF Send, Answered, NoAnswer, Accepted, WorkerInv
  <2>1. Box' = Box
    BY DEF Box
  <2>2. CASE copies' = copies
    BY <2>1, <2>2 DEF Delivered
  <2>3. CASE copies' = [copies EXCEPT ![workerJob[w]] = @ + 1]
    <3>1. workerJob[w] \in Jobs /\ Box[workerJob[w]] \in {"posted", "completed", "failed"}
      BY DEF Box
    <3>2. Delivered' = Delivered \cup {workerJob[w]}
      BY <2>3, <3>1 DEF Delivered
    <3> QED
      BY <2>1, <3>1, <3>2 DEF Promise!Next, Promise!Deliver
  <2> QED
    BY <2>2, <2>3
<1>4. ASSUME NEW w \in Workers, CompleteMail(w) PROVE [Promise!Next]_<<Box, Delivered>>
  <2> USE <1>4 DEF CompleteMail, MoveJob, WorkerInv
  <2>1. Delivered' = Delivered
    BY DEF Delivered
  <2>2. CASE lock[workerJob[w]] = w
    <3>1. workerJob[w] \in Jobs /\ job[workerJob[w]] = "active"
      BY <2>2 DEF LockInv
    <3>2. workerJob[w] \in Delivered
      BY <3>1 DEF SentInv, Delivered
    <3>3. Promise!Complete(workerJob[w])
      BY <2>1, <2>2, <3>1, <3>2 DEF Promise!Complete, Box
    <3> QED
      BY <3>1, <3>3 DEF Promise!Next
  <2>3. CASE lock[workerJob[w]] # w
    BY <2>1, <2>3 DEF Box
  <2> QED
    BY <2>2, <2>3
<1>5. ASSUME NEW w \in Workers, RetryMail(w) PROVE [Promise!Next]_<<Box, Delivered>>
  <2> USE <1>5 DEF RetryMail, MoveJob, WorkerInv
  <2>1. Delivered' = Delivered
    BY DEF Delivered
  <2>2. CASE lock[workerJob[w]] = w
    <3>1. workerJob[w] \in Jobs /\ job[workerJob[w]] = "active"
      BY <2>2 DEF LockInv
    <3>2. Promise!GiveUp(workerJob[w]) \/ Box' = Box
      BY <2>1, <2>2, <3>1 DEF Promise!GiveUp, Box
    <3> QED
      BY <2>1, <3>1, <3>2 DEF Promise!Next
  <2>3. CASE lock[workerJob[w]] # w
    BY <2>1, <2>3 DEF Box
  <2> QED
    BY <2>2, <2>3
<1>6. ASSUME NEW w \in Workers, Stall(w) \/ Crash(w) PROVE UNCHANGED <<Box, Delivered>>
  BY <1>6 DEF Stall, Crash, Box, Delivered
<1>7. ASSUME NEW j \in Jobs, RecoverJob(j) PROVE [Promise!Next]_<<Box, Delivered>>
  <2>1. Delivered' = Delivered
    BY <1>7 DEF RecoverJob, Delivered
  <2>2. Promise!GiveUp(j) \/ Box' = Box
    BY <1>7, <2>1 DEF RecoverJob, Promise!GiveUp, Box
  <2> QED
    BY <2>1, <2>2 DEF Promise!Next
<1>8. CASE UNCHANGED vars
  BY <1>8 DEF vars, Box, Delivered
<1> QED
  BY <1>1, <1>2, <1>3, <1>4, <1>5, <1>6, <1>7, <1>8 DEF Next, QueueStep, WorkerStep

\* With mail enabled the queue is a mailbox: a job that counts as completed was
\* accepted by the provider, whoever completed it.
THEOREM Refinement == ASSUME MailEnabled PROVE Spec => ImplementsMailbox
<1>1. ASSUME Init PROVE Promise!Init
  BY <1>1 DEF Init, Promise!Init, Box, Delivered
<1>2. IInv /\ [Next]_vars => [Promise!Next]_(Promise!mailboxVars)
  BY MailboxStep DEF Promise!mailboxVars
<1> QED
  BY <1>1, <1>2, Invariance, PTL DEF Spec, ImplementsMailbox, Promise!Spec
==============================================================================
