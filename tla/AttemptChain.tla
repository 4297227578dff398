---------------------------- MODULE AttemptChain ----------------------------
(***************************************************************************)
(* What processDownload does between the registration of a pass and its    *)
(* outcome: the upstream-break gate, the park for open circuits, the slot  *)
(* and the second look at the circuits, the attempts on the primary        *)
(* service, the fallback chain, and the decision to complete, fail or      *)
(* requeue the job.  JobLifecycle leaves all of that open.                 *)
(*                                                                         *)
(* One goroutine per job; a step is one access to what they share: the     *)
(* breaker, the gate, the slots and the published park.  Time is discrete  *)
(* and a goroutine may be delayed for any time; only the durations the     *)
(* code compares are counted.                                              *)
(***************************************************************************)
EXTENDS Breaker, Sequences, FiniteSets

CONSTANTS
    Jobs,
    Primary,        \* job -> the service it was added with
    Fallbacks,      \* cfg.FallbackServices, a sequence
    Supported,      \* the services SupportsService accepts
    Outcomes,       \* how an attempt may end
    Breaks,         \* how long upstream may ask to be left alone
    MaxConcurrent,  \* capacity of h.sem
    MaxAttempts,    \* maxAttempts
    MaxUnattempted, \* maxUnattemptedRequeues
    MaxCooldowns,   \* maxCooldownRequeues
    MaxPark         \* maxCircuitPark, in ticks

(* A failure is retryable, retryable but not worth a retry now, a property  *)
(* of the release, or upstream asking for a pause; "killed" is what a       *)
(* backend says when the job's own context stopped it.                      *)
AllOutcomes == {"complete", "retryable", "noRetry", "permanent", "cooldown", "killed"}

ASSUME ChainAssumption ==
    /\ IsFiniteSet(Jobs)
    /\ Primary \in [Jobs -> Services]
    /\ Fallbacks \in Seq(Services)
    /\ Supported \subseteq Services
    /\ Outcomes \subseteq AllOutcomes
    /\ Breaks \subseteq Nat \ {0}
    /\ {MaxConcurrent, MaxAttempts, MaxPark} \subseteq Nat \ {0}
    /\ {MaxUnattempted, MaxCooldowns} \subseteq Nat

VARIABLES
    gate,       \* ticks left of the upstream break window
    sem,        \* slots of h.sem in use
    published,  \* ticks left of the park /health and mode=warnings report
    requeues,   \* h.requeues
    pc,         \* where the job's goroutine is
    ctx,        \* "live", "cancelled" or "expired"
    service,    \* job.Service
    parkLeft,   \* ticks left before the cap of this park; 0 at the cap
    parked,     \* has this park been published?
    attempt,    \* the attempt under way, of `attempts'
    attempts,
    chain,      \* the places in Fallbacks still to be tried
    lastErr,    \* what the last error says
    tried,      \* jobOutcome.attempted
    cooldown    \* jobOutcome.cooldown

queue   == <<gate, sem, published>>
pass    == <<service, attempt, attempts, chain, lastErr, tried, cooldown>>
park    == <<parkLeft, parked>>
vars    == <<breaker, queue, requeues, pc, ctx, pass, park>>

Init ==
    /\ BreakerInit
    /\ gate = 0
    /\ sem = 0
    /\ published = 0
    /\ requeues = [j \in Jobs |-> 0]
    /\ pc = [j \in Jobs |-> "top"]
    /\ ctx = [j \in Jobs |-> "live"]
    /\ service = Primary
    /\ parkLeft = [j \in Jobs |-> 0]
    /\ parked = [j \in Jobs |-> FALSE]
    /\ attempt = [j \in Jobs |-> 1]
    /\ attempts = [j \in Jobs |-> 0]
    /\ chain = [j \in Jobs |-> {}]
    /\ lastErr = [j \in Jobs |-> "none"]
    /\ tried = [j \in Jobs |-> FALSE]
    /\ cooldown = [j \in Jobs |-> 0]

Goto(j, from, to) ==
    /\ pc[j] = from
    /\ pc' = [pc EXCEPT ![j] = to]

-----------------------------------------------------------------------------
(* Which services a job could use.                                          *)

(* The configured fallbacks that are neither the current service nor one   *)
(* this deployment cannot serve, by their places in the configured order.   *)
Places == 1..Len(Fallbacks)

fallbackChain(current) ==
    {i \in Places : Fallbacks[i] # current /\ Fallbacks[i] \in Supported}

candidateServices(j) ==
    ({service[j]} \cap Supported) \cup {Fallbacks[i] : i \in fallbackChain(service[j])}

Available(j) == \E s \in candidateServices(j) : RetryAfter(s) = 0

(* How long the first of them stays closed, at most maxCircuitPark.         *)
ShortestWait(j) ==
    LET waits == {MaxPark} \cup {RetryAfter(s) : s \in candidateServices(j)}
    IN  CHOOSE d \in waits : \A e \in waits : d <= e

(* Mutant of anyCandidateAllowed: the circuits are not looked at again.     *)
AlwaysAllowed(j) == TRUE

anyCandidateAllowed(j) == candidateServices(j) = {} \/ Available(j)

-----------------------------------------------------------------------------
(* Admission.                                                               *)

(* The top of the loop: leave if cancelled.                                 *)
Enter(j) ==
    /\ Goto(j, "top", IF ctx[j] = "live" THEN "gate" ELSE "gone")
    /\ UNCHANGED <<breaker, queue, requeues, ctx, pass, park>>

(* waitContext returns when the window has passed or the job is cancelled;  *)
(* parkForOpenCircuits then sets its deadline.                              *)
parkForUpstreamBreak(j) ==
    /\ gate = 0 \/ ctx[j] # "live"
    /\ Goto(j, "gate", "circuits")
    /\ parkLeft' = [parkLeft EXCEPT ![j] = MaxPark]
    /\ UNCHANGED <<breaker, queue, requeues, ctx, pass, parked>>

(* Mutant of EndPark: what the job published stays.                         *)
EndParkSilently(j) ==
    /\ Goto(j, "circuits", "select")
    /\ published' = published
    /\ parked' = [parked EXCEPT ![j] = FALSE]
    /\ parkLeft' = [parkLeft EXCEPT ![j] = 0]

(* parkForOpenCircuits returns; its deferred call withdraws what this job   *)
(* published.                                                               *)
EndPark(j) ==
    /\ Goto(j, "circuits", "select")
    /\ published' = IF parked[j] THEN 0 ELSE published
    /\ parked' = [parked EXCEPT ![j] = FALSE]
    /\ parkLeft' = [parkLeft EXCEPT ![j] = 0]

(* One look at the candidates' circuits: go on, attempt anyway once the cap *)
(* is reached, or publish the park and sleep.                               *)
parkForOpenCircuits(j) ==
    /\ pc[j] = "circuits"
    /\ \/ /\ ctx[j] # "live" \/ anyCandidateAllowed(j)
          /\ EndPark(j)
          /\ UNCHANGED breaker
       \/ /\ ctx[j] = "live" /\ ~anyCandidateAllowed(j)
          /\ parkLeft[j] = 0
          /\ Reset(service[j])
          /\ EndPark(j)
       \/ /\ ctx[j] = "live" /\ ~anyCandidateAllowed(j)
          /\ parkLeft[j] > 0
          /\ Goto(j, "circuits", "parked")
          /\ parked' = [parked EXCEPT ![j] = TRUE]
          /\ published' = ShortestWait(j)
          /\ UNCHANGED <<breaker, parkLeft>>
    /\ UNCHANGED <<gate, sem, requeues, ctx, pass>>

(* The sleep, at most circuitParkPoll, ends.                                *)
Poll(j) ==
    /\ Goto(j, "parked", "circuits")
    /\ UNCHANGED <<breaker, queue, requeues, ctx, pass, park>>

(* The select on h.sem and waitCtx.Done().                                  *)
Select(j) ==
    /\ \/ /\ sem < MaxConcurrent
          /\ Goto(j, "select", "slot")
          /\ sem' = sem + 1
       \/ /\ ctx[j] # "live"
          /\ Goto(j, "select", "gone")
          /\ sem' = sem
    /\ UNCHANGED <<breaker, gate, published, requeues, ctx, pass, park>>

(* Mutant of Recheck: the release is deferred before the second look.       *)
RecheckReleasing(j) ==
    /\ Goto(j, "slot", IF anyCandidateAllowed(j) THEN "begin" ELSE "top")
    /\ sem' = sem - 1
    /\ UNCHANGED <<breaker, gate, published, requeues, ctx, pass, park>>

(* Mutant of Recheck: the slot is kept while the job parks again.           *)
RecheckKeeping(j) ==
    /\ Goto(j, "slot", IF anyCandidateAllowed(j) THEN "begin" ELSE "top")
    /\ UNCHANGED <<breaker, queue, requeues, ctx, pass, park>>

(* With the slot in hand, look again; give it back if every circuit is open.*)
Recheck(j) ==
    /\ \/ /\ anyCandidateAllowed(j)
          /\ Goto(j, "slot", "begin")
          /\ sem' = sem
       \/ /\ ~anyCandidateAllowed(j)
          /\ Goto(j, "slot", "top")
          /\ sem' = sem - 1
    /\ UNCHANGED <<breaker, gate, published, requeues, ctx, pass, park>>

-----------------------------------------------------------------------------
(* Leaving the pass, with the deferred release of the slot.                 *)

(* Mutant of failJob: clearRequeues is forgotten.                           *)
FailKeepingCount(j) ==
    /\ pc' = [pc EXCEPT ![j] = "failed"]
    /\ UNCHANGED requeues

failJob(j) ==
    /\ pc' = [pc EXCEPT ![j] = "failed"]
    /\ requeues' = [requeues EXCEPT ![j] = 0]

(* At most n attempts from here on.                                         *)
StartAttempts(j, n) ==
    /\ attempt' = [attempt EXCEPT ![j] = 1]
    /\ attempts' = [attempts EXCEPT ![j] = n]

(* requeueAfterCooldown and requeueUnattempted put the job back for another *)
(* pass; the context and the outcome record of this one are gone.           *)
Requeued(j) ==
    /\ pc' = [pc EXCEPT ![j] = "top"]
    /\ ctx' = [ctx EXCEPT ![j] = "live"]
    /\ tried' = [tried EXCEPT ![j] = FALSE]
    /\ cooldown' = [cooldown EXCEPT ![j] = 0]
    /\ lastErr' = [lastErr EXCEPT ![j] = "none"]
    /\ chain' = [chain EXCEPT ![j] = {}]
    /\ StartAttempts(j, 0)

(* extend: the window only ever grows.                                      *)
extend(d) == gate' = IF d > gate THEN d ELSE gate

-----------------------------------------------------------------------------
(* Processing.                                                              *)

(* jobContext and beginDownload; no job directory fails the job at once.    *)
beginDownload(j) ==
    /\ pc[j] = "begin"
    /\ \/ /\ Goto(j, "begin", "primary")
          /\ UNCHANGED <<sem, requeues, lastErr>>
       \/ /\ failJob(j)
          /\ sem' = sem - 1
          /\ lastErr' = [lastErr EXCEPT ![j] = "noDir"]
    /\ UNCHANGED <<breaker, gate, published, ctx, service, attempt, attempts,
                   chain, tried, cooldown, park>>

(* The switch on the primary service.                                       *)
tryPrimary(j) ==
    /\ chain' = [chain EXCEPT ![j] = fallbackChain(service[j])]
    /\ \/ /\ service[j] \notin Supported
          /\ Goto(j, "primary", "chain")
          /\ lastErr' = [lastErr EXCEPT ![j] = "unsupported"]
          /\ UNCHANGED <<breaker, attempt, attempts>>
       \/ /\ service[j] \in Supported /\ ~Admits(service[j])
          /\ Goto(j, "primary", "chain")
          /\ lastErr' = [lastErr EXCEPT ![j] = "circuitOpen"]
          /\ UNCHANGED <<breaker, attempt, attempts>>
       \/ /\ service[j] \in Supported /\ Admits(service[j])
          /\ Goto(j, "primary", "attempt")
          /\ Allow(service[j])
          /\ StartAttempts(j, MaxAttempts)
          /\ UNCHANGED lastErr
    /\ UNCHANGED <<queue, requeues, ctx, service, tried, cooldown, park>>

(* The head of runAttemptsWithRetry's loop: one more invocation of the      *)
(* backend, unless the context is dead.                                     *)
Attempt(j) ==
    /\ \/ /\ ctx[j] = "live"
          /\ Goto(j, "attempt", "downloading")
          /\ UNCHANGED <<lastErr, tried>>
       \/ /\ ctx[j] # "live"
          /\ Goto(j, "attempt", "chain")
          /\ lastErr' = [lastErr EXCEPT ![j] = "canceled"]
          /\ tried' = [tried EXCEPT ![j] = @ \/ attempt[j] > 1]
    /\ UNCHANGED <<breaker, queue, requeues, ctx, service, attempt, attempts,
                   chain, cooldown, park>>

handleCompleteEvent(j) ==
    /\ "complete" \in Outcomes
    /\ Goto(j, "downloading", "completed")
    /\ RecordSuccess(service[j])
    /\ requeues' = [requeues EXCEPT ![j] = 0]
    /\ sem' = sem - 1
    /\ UNCHANGED <<gate, published, ctx, pass, park>>

(* Mutant of shouldRetry: only the release's own failures end the retries.  *)
RetryCooldowns(class) == class \in {"retryable", "killed", "cooldown"}

shouldRetry(class) == class \in {"retryable", "killed"}

(* The attempt failed and is retried after the backoff.                     *)
RetryAttempt(j) ==
    /\ attempt[j] < attempts[j]
    /\ \E class \in Outcomes \ {"complete"} :
        /\ class = "killed" => ctx[j] # "live"
        /\ shouldRetry(class)
        /\ lastErr' = [lastErr EXCEPT ![j] = class]
    /\ Goto(j, "downloading", "attempt")
    /\ attempt' = [attempt EXCEPT ![j] = @ + 1]
    /\ UNCHANGED <<breaker, queue, requeues, ctx, service, attempts, chain,
                   tried, cooldown, park>>

(* Mutant of recordServiceFailure: every live failure feeds the breaker.    *)
RecordEveryFailure(j, class) ==
    IF ctx[j] = "live" THEN RecordFailure(service[j]) ELSE UNCHANGED breaker

(* Only a service-side failure of a live job feeds the breaker.             *)
recordServiceFailure(j, class) ==
    IF ctx[j] = "live" /\ class \in {"retryable", "noRetry"}
    THEN RecordFailure(service[j])
    ELSE UNCHANGED breaker

(* Mutant of observe: the announcement is not remembered by this job.       *)
ObserveForgetting(j, class, d) ==
    /\ tried' = [tried EXCEPT ![j] = TRUE]
    /\ lastErr' = [lastErr EXCEPT ![j] = class]
    /\ UNCHANGED <<gate, cooldown>>

(* Fold the failure into the outcome; a cooldown of d ticks moves the gate. *)
observe(j, class, d) ==
    /\ tried' = [tried EXCEPT ![j] = TRUE]
    /\ lastErr' = [lastErr EXCEPT ![j] = class]
    /\ IF class = "cooldown"
       THEN /\ extend(d)
            /\ cooldown' = [cooldown EXCEPT ![j] = IF d > @ THEN d ELSE @]
       ELSE UNCHANGED <<gate, cooldown>>

(* The attempt failed and was the last one for its service.                 *)
AttemptsFailed(j) ==
    /\ Goto(j, "downloading", "chain")
    /\ \E class \in Outcomes \ {"complete"} :
        /\ class = "killed" => ctx[j] # "live"
        /\ attempt[j] = attempts[j] \/ ~shouldRetry(class)
        /\ \/ class = "cooldown" /\ \E d \in Breaks : observe(j, class, d)
           \/ class # "cooldown" /\ observe(j, class, 0)
        /\ recordServiceFailure(j, class)
    /\ UNCHANGED <<sem, published, requeues, ctx, service, attempt, attempts,
                   chain, park>>

(* The next fallback: skip it while its circuit is open, stop with a dead   *)
(* context, else make the one attempt it gets.                              *)
tryFallback(j, i) ==
    \/ /\ ~Admits(Fallbacks[i])
       /\ chain' = [chain EXCEPT ![j] = @ \ {i}]
       /\ UNCHANGED <<breaker, pc, service, attempt, attempts>>
    \/ /\ Admits(Fallbacks[i]) /\ ctx[j] # "live"
       /\ Allow(Fallbacks[i])
       /\ Goto(j, "chain", "conclude")
       /\ UNCHANGED <<service, attempt, attempts, chain>>
    \/ /\ Admits(Fallbacks[i]) /\ ctx[j] = "live"
       /\ Allow(Fallbacks[i])
       /\ Goto(j, "chain", "attempt")
       /\ service' = [service EXCEPT ![j] = Fallbacks[i]]
       /\ chain' = [chain EXCEPT ![j] = @ \ {i}]
       /\ StartAttempts(j, 1)

(* One turn of runFallbackChain: stop after an announced break or at the    *)
(* end of the chain, else go on to the next service in the given order.     *)
runFallbackChain(j) ==
    /\ pc[j] = "chain"
    /\ \/ /\ chain[j] = {} \/ cooldown[j] > 0
          /\ Goto(j, "chain", "conclude")
          /\ UNCHANGED <<breaker, service, attempt, attempts, chain>>
       \/ /\ cooldown[j] = 0
          /\ \E i \in chain[j] :
              /\ \A k \in chain[j] : i <= k
              /\ tryFallback(j, i)
    /\ UNCHANGED <<queue, requeues, ctx, lastErr, tried, cooldown, park>>

(* concludeFailedAttempts.  Each requeue that is asked for bumps the one    *)
(* counter the job has, and a refused one leaves it bumped.                 *)
concludeFailedAttempts(j) ==
    LET untried == ctx[j] = "live" /\ ~tried[j] /\ candidateServices(j) # {}
        bumped  == requeues[j] + (IF untried THEN 1 ELSE 0)
        broken  == cooldown[j] > 0
        again   == lastErr[j] = "cooldown"
        first   == bumped + (IF broken /\ ctx[j] # "expired" THEN 1 ELSE 0)
    IN  /\ pc[j] = "conclude"
        /\ sem' = sem - 1
        /\ \/ /\ untried /\ bumped <= MaxUnattempted
              /\ Requeued(j)
              /\ requeues' = [requeues EXCEPT ![j] = bumped]
              /\ gate' = gate
           \/ /\ ~untried \/ bumped > MaxUnattempted
              /\ broken /\ ctx[j] # "expired" /\ first <= MaxCooldowns
              /\ Requeued(j)
              /\ requeues' = [requeues EXCEPT ![j] = first]
              /\ gate' = gate
           \/ /\ ~untried \/ bumped > MaxUnattempted
              /\ ~(broken /\ ctx[j] # "expired" /\ first <= MaxCooldowns)
              /\ again /\ first + 1 <= MaxCooldowns
              /\ extend(cooldown[j])
              /\ Requeued(j)
              /\ requeues' = [requeues EXCEPT ![j] = first + 1]
           \/ /\ ~untried \/ bumped > MaxUnattempted
              /\ ~(broken /\ ctx[j] # "expired" /\ first <= MaxCooldowns)
              /\ ~(again /\ first + 1 <= MaxCooldowns)
              /\ IF again THEN extend(cooldown[j]) ELSE gate' = gate
              /\ failJob(j)
              /\ UNCHANGED <<ctx, tried, cooldown, lastErr, chain, attempt, attempts>>
        /\ UNCHANGED <<breaker, published, service, park>>

-----------------------------------------------------------------------------
(* The environment.                                                         *)

WaitingPCs == {"top", "gate", "circuits", "parked", "select"}
SlotPCs == {"slot", "begin", "primary", "attempt", "downloading", "chain", "conclude"}
DonePCs == {"completed", "failed", "gone"}

(* A delete or pause request cancels the job's context.                     *)
CancelJob(j) ==
    /\ pc[j] \notin DonePCs /\ ctx[j] = "live"
    /\ ctx' = [ctx EXCEPT ![j] = "cancelled"]
    /\ UNCHANGED <<breaker, queue, requeues, pc, pass, park>>

(* Two JobTimeouts after processing began, the budget is spent.             *)
Expire(j) ==
    /\ pc[j] \in SlotPCs \ {"slot", "begin"} /\ ctx[j] = "live"
    /\ ctx' = [ctx EXCEPT ![j] = "expired"]
    /\ UNCHANGED <<breaker, queue, requeues, pc, pass, park>>

Less(n) == IF n = 0 THEN 0 ELSE n - 1

Tick ==
    /\ Age
    /\ gate' = Less(gate)
    /\ published' = Less(published)
    /\ parkLeft' = [j \in Jobs |-> Less(parkLeft[j])]
    /\ UNCHANGED <<fails, sem, requeues, pc, ctx, pass, parked>>

processDownload(j) ==
    \/ Enter(j) \/ parkForUpstreamBreak(j) \/ parkForOpenCircuits(j) \/ Poll(j)
    \/ Select(j) \/ Recheck(j) \/ beginDownload(j) \/ tryPrimary(j) \/ Attempt(j)
    \/ handleCompleteEvent(j) \/ RetryAttempt(j) \/ AttemptsFailed(j)
    \/ runFallbackChain(j) \/ concludeFailedAttempts(j)

(* Every job has its outcome: nothing but the clock moves.                  *)
Next ==
    \/ \E j \in Jobs : processDownload(j) \/ CancelJob(j) \/ Expire(j)
    \/ Tick

Spec == Init /\ [][Next]_vars

(* Goroutines run, backends answer, blocked senders on h.sem are served,    *)
(* and time passes.                                                         *)
Fairness ==
    /\ WF_vars(Tick)
    /\ \A j \in Jobs : WF_vars(processDownload(j)) /\ SF_vars(Select(j))

FairSpec == Spec /\ Fairness

-----------------------------------------------------------------------------
(* Properties.                                                              *)

(* Type correctness.                                                        *)
TypeOK ==
    /\ BreakerTypeOK
    /\ {gate, published} \subseteq Nat
    /\ sem \in 0..MaxConcurrent
    /\ requeues \in [Jobs -> Nat]
    /\ pc \in [Jobs -> WaitingPCs \cup SlotPCs \cup DonePCs]
    /\ ctx \in [Jobs -> {"live", "cancelled", "expired"}]
    /\ service \in [Jobs -> Services]
    /\ parkLeft \in [Jobs -> 0..MaxPark] /\ parked \in [Jobs -> BOOLEAN]
    /\ attempt \in [Jobs -> 1..MaxAttempts] /\ attempts \in [Jobs -> 0..MaxAttempts]
    /\ chain \in [Jobs -> SUBSET Places]
    /\ lastErr \in [Jobs -> AllOutcomes \cup {"none", "noDir", "unsupported",
                                             "circuitOpen", "canceled"}]
    /\ tried \in [Jobs -> BOOLEAN]
    /\ cooldown \in [Jobs -> Nat]

(* The promise of the second look after the semaphore: an open circuit      *)
(* never turns into a failed grab.  With one slot, a job whose context is   *)
(* alive and whose services exist never fails without one real attempt.     *)
OpenCircuitNeverFails ==
    \A j \in Jobs : pc[j] = "failed" /\ ctx[j] = "live" /\ ~tried[j] =>
        lastErr[j] = "noDir" \/ candidateServices(j) = {}

(* A job that was told to wait asks no one else in that pass: the cooldown  *)
(* a service announced ends the retries and the fallback chain.             *)
CooldownStopsChain ==
    [][\A j \in Jobs : pc[j] # "downloading" /\ pc'[j] = "downloading" =>
            lastErr[j] # "cooldown"]_vars

(* Announced breaks, unresolvable releases and dead contexts open no        *)
(* circuit: the step that opens one ends an attempt of a live job on that   *)
(* very service, with a failure that is the service's.                      *)
OnlyServiceFailuresOpen ==
    [][\A s \in Services : ~Open(s) /\ Open(s)' =>
        \E j \in Jobs : /\ pc[j] = "downloading" /\ service[j] = s
                        /\ ctx[j] = "live"
                        /\ lastErr'[j] \in {"retryable", "noRetry"}]_vars

(* A park is reported only while some job is parked: circuit_park_until is  *)
(* 0 when no circuit is holding the queue.                                  *)
ParkIsWithdrawn ==
    published > 0 => \E j \in Jobs : parked[j]

(* Every pass ends: each job completes, fails or leaves after its           *)
(* cancellation, whatever the gate and the circuits do.                     *)
EveryJobConcludes == \A j \in Jobs : <>(pc[j] \in DonePCs)

(* Nothing is sent while the window upstream asked for is open.             *)
QuietDuringBreak ==
    [][\A j \in Jobs : pc[j] # "downloading" /\ pc'[j] = "downloading" =>
            gate = 0]_vars

(* The contract of a pass, in the terms of PassContract: a job waits until  *)
(* its circuits have been looked at again with the slot in hand, and the    *)
(* one counter of requeues never passes the larger of its two limits.       *)
StageOf(p) ==
    CASE p \in WaitingPCs \cup {"slot"} -> "waiting"
      [] p \in SlotPCs \ {"slot"}       -> "running"
      [] OTHER                          -> p

RequeueLimit == IF MaxUnattempted > MaxCooldowns THEN MaxUnattempted ELSE MaxCooldowns

Contract == INSTANCE PassContract WITH
    Limit <- RequeueLimit,
    stage <- [j \in Jobs |-> StageOf(pc[j])],
    again <- requeues

(* The attempt chain implements that contract.                              *)
MeetsContract == Contract!Spec
=============================================================================
