------------------------------ MODULE Mailbox ------------------------------
(***************************************************************************)
(* What the mail queue promises to the code that posts a mail: nothing is  *)
(* delivered that was not posted, and a mail that counts as completed was  *)
(* delivered.  A mail may be lost when it is posted, be delivered again,   *)
(* and be delivered although it was given up.                              *)
(***************************************************************************)
CONSTANT Mails

VARIABLES
    box,        \* what became of every mail
    delivered

mailboxVars == <<box, delivered>>

Init == box = [m \in Mails |-> "none"] /\ delivered = {}

\* A mail that is lost at this point was never posted; the poster is not told.
Post(m) ==
    /\ box[m] = "none"
    /\ box' = [box EXCEPT ![m] = "posted"]
    /\ UNCHANGED delivered

Deliver(m) ==
    /\ box[m] \in {"posted", "completed", "failed"}
    /\ delivered' = delivered \cup {m}
    /\ UNCHANGED box

Complete(m) ==
    /\ box[m] = "posted"
    /\ m \in delivered
    /\ box' = [box EXCEPT ![m] = "completed"]
    /\ UNCHANGED delivered

GiveUp(m) ==
    /\ box[m] = "posted"
    /\ box' = [box EXCEPT ![m] = "failed"]
    /\ UNCHANGED delivered

Next == \E m \in Mails : Post(m) \/ Deliver(m) \/ Complete(m) \/ GiveUp(m)

Spec == Init /\ [][Next]_mailboxVars
=============================================================================
