----------------------------- MODULE RunPromise ------------------------------
(***************************************************************************)
(* What the assistant promises a client that asks and polls: a key stands  *)
(* for one run, a run is answered once and keeps its answer, and no more   *)
(* questions are accepted than the day allows.  Where workers may stray,   *)
(* the answer of a run may become void, but never its key or its count.    *)
(***************************************************************************)
EXTENDS Naturals, FiniteSets

CONSTANTS
    Runs, Keys, NoKey,
    Answers,        \* how a run may end
    MaxSteps,
    Allowed,        \* runs that may be accepted in all
    MayVoid         \* whether a worker may write a run that is no longer its own

VARIABLES
    run,            \* "absent", "open", "void" or its answer
    key, taken      \* its key, and the steps its answer took

promiseVars == <<run, key, taken>>

Init ==
    /\ run = [r \in Runs |-> "absent"]
    /\ key = [r \in Runs |-> NoKey]
    /\ taken = [r \in Runs |-> 0]

Accepted == {r \in Runs : run[r] # "absent"}

Accept(r) ==
    /\ run[r] = "absent"
    /\ run' = [run EXCEPT ![r] = "open"]
    /\ Cardinality(Accepted) < Allowed
    /\ \E k \in Keys \cup {NoKey} :
           /\ key' = [key EXCEPT ![r] = k]
           /\ k # NoKey => \A s \in Accepted : key[s] # k
    /\ UNCHANGED taken

Settle(r) ==
    /\ run[r] = "open"
    /\ \E answer \in Answers : run' = [run EXCEPT ![r] = answer]
    /\ \E n \in 0..MaxSteps : taken' = [taken EXCEPT ![r] = n]
    /\ UNCHANGED key

Void(r) ==
    /\ MayVoid
    /\ run[r] \notin {"absent", "void"}
    /\ run' = [run EXCEPT ![r] = "void"]
    /\ taken' = [taken EXCEPT ![r] = 0]
    /\ UNCHANGED key

Next == \E r \in Runs : Accept(r) \/ Settle(r) \/ Void(r)

Spec == Init /\ [][Next]_promiseVars
==============================================================================
