---------------------------- MODULE PassContract ----------------------------
(***************************************************************************)
(* What the rest of the handler may rely on about processDownload, without *)
(* the gate, the circuits and the services: a job waits, runs in one of    *)
(* MaxConcurrent slots, and ends with one outcome; it may be put back to   *)
(* wait, but only Limit times in a row; a waiting job may be taken away.   *)
(***************************************************************************)
EXTENDS Naturals, FiniteSets

CONSTANTS Jobs, MaxConcurrent, Limit

VARIABLES
    stage,  \* "waiting", "running", or how the job ended
    again   \* how often it was put back

Running == {j \in Jobs : stage[j] = "running"}

Init ==
    /\ stage = [j \in Jobs |-> "waiting"]
    /\ again = [j \in Jobs |-> 0]

Start(j) ==
    /\ stage[j] = "waiting"
    /\ Cardinality(Running) < MaxConcurrent
    /\ stage' = [stage EXCEPT ![j] = "running"]
    /\ again' = again

Finish(j) ==
    /\ stage[j] = "running"
    /\ \E outcome \in {"completed", "failed"} : stage' = [stage EXCEPT ![j] = outcome]
    /\ again' = [again EXCEPT ![j] = 0]

PutBack(j) ==
    /\ stage[j] = "running"
    /\ stage' = [stage EXCEPT ![j] = "waiting"]
    /\ \E n \in (again[j] + 1)..Limit : again' = [again EXCEPT ![j] = n]

Leave(j) ==
    /\ stage[j] = "waiting"
    /\ stage' = [stage EXCEPT ![j] = "gone"]
    /\ again' = again

Next == \E j \in Jobs : Start(j) \/ Finish(j) \/ PutBack(j) \/ Leave(j)

Spec == Init /\ [][Next]_<<stage, again>>
=============================================================================
