--------------------------- MODULE SessionRenewal ---------------------------
(***************************************************************************)
(* Renewal of the CLI's community session (client.go).  Every job calls    *)
(* EnsureCommunitySession before its first wait.  The call runs an external *)
(* solver under a mutex when the session store holds nothing usable.       *)
(***************************************************************************)
EXTENDS Ages

CONSTANTS
    renewTimeout,   \* SPF_SESSION_RENEW_TIMEOUT_S
    renewInterval,  \* SPF_SESSION_RENEW_MIN_INTERVAL_S
    sessionSkew,
    Lifetimes       \* what is left of a session when it is written

ASSUME RenewalAssumption ==
    /\ {renewTimeout, renewInterval, sessionSkew} \subseteq Nat
    /\ Lifetimes \subseteq Nat

VARIABLES
    renewCmd,     \* SPF_SESSION_RENEW_CMD is set
    session,      \* how long the session in the store has to live, 0 for none
    renewMu,      \* who holds Client.renewMu
    lastRenewAt,  \* its age
    call,         \* EnsureCommunitySession, per worker
    solver,       \* the process a worker started: "off", "running", or "orphaned"
                  \* when only a descendant is left that holds the output pipe
    solverAge,
    sinceSolver   \* the time since any solver was started

renewalVars == <<renewCmd, session, renewMu, lastRenewAt, call, solver, solverAge,
                 sinceSolver>>

RenewalInit ==
    /\ session = 0
    /\ renewMu = None
    /\ lastRenewAt = Never
    /\ call = [w \in Workers |-> "off"]
    /\ solver = [w \in Workers |-> "off"]
    /\ solverAge = [w \in Workers |-> 0]
    /\ sinceSolver = Never

communitySessionValid == session > sessionSkew

IntervalPassed == Past(lastRenewAt, renewInterval)

Return(w) == call' = [call EXCEPT ![w] = "returned"]

-----------------------------------------------------------------------------
(* EnsureCommunitySession.                                                  *)

(* The look without the lock.                                               *)
CheckSession(w) ==
    /\ call[w] = "off"
    /\ IF ~renewCmd \/ communitySessionValid
       THEN Return(w)
       ELSE call' = [call EXCEPT ![w] = "waiting"]
    /\ UNCHANGED <<renewCmd, session, renewMu, lastRenewAt, solver, solverAge, sinceSolver>>

StartSolver(w) ==
    /\ renewMu' = w
    /\ call' = [call EXCEPT ![w] = "solving"]
    /\ solver' = [solver EXCEPT ![w] = "running"]
    /\ solverAge' = [solverAge EXCEPT ![w] = 0]
    /\ sinceSolver' = 0

(* A bug: the mutex alone, nothing is looked at again.                      *)
RenewUnchecked(w) ==
    /\ call[w] = "waiting" /\ renewMu = None
    /\ IF ~IntervalPassed
       THEN /\ Return(w)
            /\ UNCHANGED <<renewMu, lastRenewAt, solver, solverAge, sinceSolver>>
       ELSE StartSolver(w) /\ lastRenewAt' = 0
    /\ UNCHANGED <<renewCmd, session>>

(* Under the lock: look again, respect the interval, stamp, start.  Nothing *)
(* blocks in between; a session written meanwhile is as good as one written *)
(* just after the start, which reads nothing.                               *)
Renew(w) ==
    /\ call[w] = "waiting" /\ renewMu = None
    /\ IF communitySessionValid \/ ~IntervalPassed
       THEN /\ Return(w)
            /\ UNCHANGED <<renewMu, lastRenewAt, solver, solverAge, sinceSolver>>
       ELSE StartSolver(w) /\ lastRenewAt' = 0
    /\ UNCHANGED <<renewCmd, session>>

(* A bug: a solver that was killed is not waited for.                       *)
FinishUnwaited(w) ==
    /\ call[w] = "solving" /\ solver[w] # "running"
    /\ Return(w)
    /\ renewMu' = None
    /\ UNCHANGED <<renewCmd, session, lastRenewAt, solver, solverAge, sinceSolver>>

(* CombinedOutput returns when the shell has ended and its output is closed. *)
FinishRenewal(w) ==
    /\ call[w] = "solving" /\ solver[w] = "off"
    /\ Return(w)
    /\ renewMu' = None
    /\ UNCHANGED <<renewCmd, session, lastRenewAt, solver, solverAge, sinceSolver>>

(* The job is over, and the worker's next job starts at the top.            *)
NextCall(w) ==
    /\ call[w] = "returned"
    /\ call' = [call EXCEPT ![w] = "off"]
    /\ UNCHANGED <<renewCmd, session, renewMu, lastRenewAt, solver, solverAge, sinceSolver>>

-----------------------------------------------------------------------------
(* The environment.                                                         *)

EndShell(w) ==
    /\ \E left \in {"off", "orphaned"} : solver' = [solver EXCEPT ![w] = left]
    /\ UNCHANGED <<renewCmd, session, renewMu, lastRenewAt, call, solverAge, sinceSolver>>

SolverExits(w) == solver[w] = "running" /\ EndShell(w)

(* The context kills the shell, and only the shell.                         *)
KillSolver(w) ==
    /\ solver[w] = "running" /\ solverAge[w] >= renewTimeout
    /\ EndShell(w)

OrphanExits(w) ==
    /\ solver[w] = "orphaned"
    /\ solver' = [solver EXCEPT ![w] = "off"]
    /\ UNCHANGED <<renewCmd, session, renewMu, lastRenewAt, call, solverAge, sinceSolver>>

(* A solver writes the store, or a CLI run that was given a grant.  Nobody  *)
(* here looks at it if there is no solver to run.                           *)
WriteSession ==
    /\ renewCmd
    /\ session' \in Lifetimes
    /\ UNCHANGED <<renewCmd, renewMu, lastRenewAt, call, solver, solverAge, sinceSolver>>

RenewalTick ==
    /\ session' = IF session = 0 THEN 0 ELSE session - 1
    /\ lastRenewAt' = Older(lastRenewAt, renewInterval)
    /\ sinceSolver' = Older(sinceSolver, renewInterval)
    /\ solverAge' = [w \in Workers |->
           IF solver[w] = "running" THEN Older(solverAge[w], renewTimeout) ELSE 0]
    /\ UNCHANGED <<renewCmd, renewMu, call, solver>>

EnsureCommunitySession(w) == CheckSession(w) \/ Renew(w) \/ FinishRenewal(w)

-----------------------------------------------------------------------------
RenewalTypeOK ==
    /\ renewCmd \in BOOLEAN
    /\ session \in Nat
    /\ renewMu \in Workers \cup {None}
    /\ {lastRenewAt, sinceSolver} \subseteq 0..renewInterval \cup {Never}
    /\ call \in [Workers -> {"off", "waiting", "solving", "returned"}]
    /\ solver \in [Workers -> {"off", "running", "orphaned"}]
    /\ solverAge \in [Workers -> 0..renewTimeout]

(* Two solvers would drive two browsers at the same challenge: there is     *)
(* never more than one, also when a killed one has left descendants that    *)
(* hold its output.                                                         *)
OneSolver ==
    \A v, w \in Workers : solver[v] # "off" /\ solver[w] # "off" => v = w

SolverStarts(w) == solver[w] # "running" /\ solver'[w] = "running"

(* A solver is started only if the store holds no usable session, however   *)
(* long the caller waited behind another renewal, and never more often than *)
(* the interval allows, whatever became of the solvers before it.           *)
RenewalsAreNeeded ==
    [][\A w \in Workers : SolverStarts(w) =>
           /\ ~communitySessionValid
           /\ Past(sinceSolver, renewInterval)]_renewalVars

(* Every call returns, unless a descendant of a solver holds its output for *)
(* ever.                                                                    *)
EveryCallReturns ==
    (\A w \in Workers : []<>(solver[w] # "orphaned")) =>
        \A w \in Workers : call[w] = "waiting" ~> call[w] = "returned"
=============================================================================
