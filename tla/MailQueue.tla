------------------------------ MODULE MailQueue ------------------------------
(***************************************************************************)
(* The mail queue: MailQueueService.enqueue, BullMQ's part of it, and      *)
(* MailProcessor.process with MailService.send in the queue's workers.     *)
(* The provider and BullMQ are external.  A mail is a job; its receiver    *)
(* and its text are left out.                                              *)
(***************************************************************************)
EXTENDS Naturals, FiniteSets

CONSTANTS
    Jobs, NoJob,
    Workers, NoWorker,
    MaxAttempts,            \* EMAIL_RETRY_MAX_ATTEMPTS
    MailEnabled,            \* MAIL_ENABLED
    MailFaults,             \* which faults may happen ...
    MaxMailFaults           \* ... and how many

\* "queue": Redis refuses the job.  "error": the provider answers { error }.
\* "timeout": it does not answer in time, and may have accepted the mail.
\* "crash": a worker dies.  "stall": it loses its lock and keeps running.
MailFaultKinds == {"queue", "error", "timeout", "crash", "stall"}

ASSUME JobNamesAssumption == NoJob \notin Jobs /\ NoWorker \notin Workers
ASSUME QueueAssumption ==
    /\ MaxAttempts \in Nat \ {0} /\ MailEnabled \in BOOLEAN
    /\ MailFaults \subseteq MailFaultKinds /\ MaxMailFaults \in Nat
    /\ IsFiniteSet(Workers)

VARIABLES
    job, attempts, lock,    \* BullMQ's record of a job
    workerPc, workerJob,
    mailFaults,
    copies,                 \* how often the provider accepted the mail of a job
    doubtful                \* how often it is unknown whether a send succeeded

vars == <<job, attempts, lock, workerPc, workerJob, mailFaults, copies, doubtful>>

TypeOK ==
    /\ job \in [Jobs -> {"none", "lost", "waiting", "active", "completed", "failed"}]
    /\ attempts \in [Jobs -> 0..MaxAttempts]
    /\ lock \in [Jobs -> Workers \cup {NoWorker}]
    /\ workerPc \in [Workers -> {"idle", "send", "sent", "failed"}]
    /\ workerJob \in [Workers -> Jobs \cup {NoJob}]
    /\ mailFaults \in 0..MaxMailFaults
    /\ copies \in [Jobs -> Nat] /\ doubtful \in [Jobs -> Nat]
    /\ \A j \in Jobs : job[j] \in {"none", "waiting", "active"} => attempts[j] < MaxAttempts

Init ==
    /\ job = [j \in Jobs |-> "none"]
    /\ attempts = [j \in Jobs |-> 0]
    /\ lock = [j \in Jobs |-> NoWorker]
    /\ workerPc = [w \in Workers |-> "idle"]
    /\ workerJob = [w \in Workers |-> NoJob]
    /\ mailFaults = 0
    /\ copies = [j \in Jobs |-> 0]
    /\ doubtful = [j \in Jobs |-> 0]

MailFault(kind) ==
    /\ kind \in MailFaults
    /\ mailFaults < MaxMailFaults
    /\ mailFaults' = mailFaults + 1

------------------------------------------------------------------------------
(* MailQueueService *)

\* Never throws: a mail that Redis refuses is logged and lost.
enqueue(j) ==
    /\ job[j] = "none"
    /\ \/ job' = [job EXCEPT ![j] = "waiting"] /\ UNCHANGED mailFaults
       \/ MailFault("queue") /\ job' = [job EXCEPT ![j] = "lost"]
    /\ UNCHANGED <<attempts, lock, workerPc, workerJob, copies, doubtful>>

------------------------------------------------------------------------------
(* MailProcessor.process and MailService.send *)

\* A new job, or one whose backoff has passed.
TakeJob(w, j) ==
    /\ workerPc[w] = "idle"
    /\ job[j] = "waiting"
    /\ job' = [job EXCEPT ![j] = "active"]
    /\ lock' = [lock EXCEPT ![j] = w]
    /\ workerPc' = [workerPc EXCEPT ![w] = "send"]
    /\ workerJob' = [workerJob EXCEPT ![w] = j]
    /\ UNCHANGED <<attempts, mailFaults, copies, doubtful>>

\* With MAIL_ENABLED=false the job completes and nothing is sent.
Accepted(j) == copies' = IF MailEnabled THEN [copies EXCEPT ![j] = @ + 1] ELSE copies

\* Faulty variant: an answer with { error } is taken for success.
outcomeUnchecked(error) == "sent"

\* Faulty variant: the return after the send is missing, and process goes on to its
\* last line, which throws for an unknown job name.
outcomeFallsThrough(error) == "failed"

\* Resend's client never throws; send throws when the answer has an error.
outcome(error) == IF error THEN "failed" ELSE "sent"

Answered(w, error) == workerPc' = [workerPc EXCEPT ![w] = outcome(error)]

\* Faulty variant: nothing ends a call that is never answered.
NoAnswerHangs(w) == workerPc' = [workerPc EXCEPT ![w] = "hung"]

\* AbortSignal.timeout: { error } too.
NoAnswer(w) == Answered(w, TRUE)

Send(w) ==
    LET j == workerJob[w] IN
    /\ workerPc[w] = "send"
    /\ \/ Answered(w, FALSE) /\ Accepted(j) /\ UNCHANGED <<mailFaults, doubtful>>
       \/ /\ MailEnabled
          /\ MailFault("error")
          /\ Answered(w, TRUE)
          /\ UNCHANGED <<copies, doubtful>>
       \/ /\ MailEnabled
          /\ MailFault("timeout")
          /\ NoAnswer(w)
          /\ Accepted(j) \/ UNCHANGED copies
          /\ doubtful' = [doubtful EXCEPT ![j] = @ + 1]
    /\ UNCHANGED <<job, attempts, lock, workerJob>>

Release(w) ==
    /\ workerPc' = [workerPc EXCEPT ![w] = "idle"]
    /\ workerJob' = [workerJob EXCEPT ![w] = NoJob]

\* Without its lock a worker cannot move the job.
MoveJob(w, to, made) ==
    LET j == workerJob[w] IN
    /\ IF lock[j] = w
       THEN /\ job' = [job EXCEPT ![j] = to]
            /\ attempts' = [attempts EXCEPT ![j] = made]
            /\ lock' = [lock EXCEPT ![j] = NoWorker]
       ELSE UNCHANGED <<job, attempts, lock>>
    /\ Release(w)
    /\ UNCHANGED <<mailFaults, copies, doubtful>>

CompleteMail(w) ==
    /\ workerPc[w] = "sent"
    /\ MoveJob(w, "completed", attempts[workerJob[w]])

\* Faulty variant: the last attempt is retried as well.
isLastAttemptLate(made) == made > MaxAttempts

isLastAttempt(made) == made >= MaxAttempts

RetryMail(w) ==
    LET made == attempts[workerJob[w]] + 1 IN
    /\ workerPc[w] = "failed"
    /\ MoveJob(w, IF isLastAttempt(made) THEN "failed" ELSE "waiting", made)

------------------------------------------------------------------------------
(* Worker failures *)

\* What a worker that is not idle did for its job may have to be done again.
LoseJob(w, kind) ==
    /\ workerPc[w] # "idle"
    /\ lock[workerJob[w]] = w
    /\ MailFault(kind)
    /\ lock' = [lock EXCEPT ![workerJob[w]] = NoWorker]
    /\ doubtful' = [doubtful EXCEPT ![workerJob[w]] = @ + 1]

Stall(w) ==
    /\ LoseJob(w, "stall")
    /\ UNCHANGED <<job, attempts, workerPc, workerJob, copies>>

Crash(w) ==
    /\ LoseJob(w, "crash")
    /\ Release(w)
    /\ UNCHANGED <<job, attempts, copies>>

\* BullMQ finds an active job without a lock: it waits again, or stalled too often.
RecoverJob(j) ==
    /\ job[j] = "active"
    /\ lock[j] = NoWorker
    /\ \E next \in {"waiting", "failed"} : job' = [job EXCEPT ![j] = next]
    /\ UNCHANGED <<attempts, lock, workerPc, workerJob, mailFaults, copies, doubtful>>

------------------------------------------------------------------------------

WorkerStep(w) == Send(w) \/ CompleteMail(w) \/ RetryMail(w)

QueueStep == (\E w \in Workers, j \in Jobs : TakeJob(w, j)) \/ (\E j \in Jobs : RecoverJob(j))

Next ==
    \/ \E j \in Jobs : enqueue(j)
    \/ QueueStep
    \/ \E w \in Workers : WorkerStep(w) \/ Stall(w) \/ Crash(w)

\* The queue hands out what waits, and a worker that took a job goes on.
Spec ==
    /\ Init
    /\ [][Next]_vars
    /\ WF_vars(QueueStep)
    /\ \A w \in Workers : WF_vars(WorkerStep(w))

------------------------------------------------------------------------------
(* Properties *)

Delivered == {j \in Jobs : copies[j] > 0}

Box == [j \in Jobs |->
    CASE job[j] \in {"waiting", "active"} -> "posted"
      [] job[j] \in {"none", "lost"}      -> "none"
      [] OTHER                            -> job[j]]

Promise == INSTANCE Mailbox WITH Mails <- Jobs, box <- Box, delivered <- Delivered

\* With mail enabled the queue is a mailbox: in particular a job completes only when
\* the provider accepted its mail ("instead of silently dropping the email"), even
\* when the worker that completes it took it over from another.
ImplementsMailbox == Promise!Spec

\* A mail goes out once more only for each time a send ended in doubt: the answer
\* came too late, or the worker lost the job before it could say so.
NoNeedlessCopies == \A j \in Jobs : copies[j] <= 1 + doubtful[j]

\* A mail that Redis took is delivered or given up, whatever the provider does.
EveryMailSettles ==
    \A j \in Jobs : job[j] = "waiting" ~> job[j] \in {"completed", "failed"}

------------------------------------------------------------------------------
(* The inductive invariant *)

\* A worker that is not idle has a job that Redis took.
WorkerInv ==
    \A w \in Workers :
        IF workerPc[w] = "idle" THEN workerJob[w] = NoJob
        ELSE workerJob[w] \in Jobs /\ job[workerJob[w]] \notin {"none", "lost"}

\* Only an active job is locked, by a worker that is on it.
LockInv ==
    \A j \in Jobs : lock[j] # NoWorker => job[j] = "active" /\ workerJob[lock[j]] = j

\* Neither a worker nor BullMQ counts a mail as sent that the provider did not accept.
SentInv ==
    MailEnabled =>
        /\ \A w \in Workers : workerPc[w] = "sent" => copies[workerJob[w]] > 0
        /\ \A j \in Jobs : job[j] = "completed" => copies[j] > 0

Senders(j) == {w \in Workers : workerPc[w] = "send" /\ workerJob[w] = j}

\* The queue may hand the job out, now or after its worker has failed it.
MayComeBack(j) ==
    \/ job[j] \in {"none", "waiting"}
    \/ job[j] = "active" /\ (lock[j] = NoWorker \/ workerPc[lock[j]] = "failed")

\* Copies that were sent, are being sent and may still have to be sent: all but one
\* of them are paid for by a doubt.
CopiesInv ==
    \A j \in Jobs :
        copies[j] + Cardinality(Senders(j)) + (IF MayComeBack(j) THEN 1 ELSE 0) <= 1 + doubtful[j]

IInv == TypeOK /\ WorkerInv /\ LockInv /\ SentInv /\ CopiesInv
==============================================================================
