------------------------- MODULE AttemptChainProofs -------------------------
(***************************************************************************)
(* The attempt chain, for every set of jobs and services, every order of   *)
(* fallbacks and every limit.                                              *)
(***************************************************************************)
EXTENDS AttemptChain, BreakerProofs, FiniteSetTheorems, WellFoundedInduction

(* A set of durations that is not empty has a shortest one.                 *)
LEMMA ShortestExists ==
    ASSUME NEW T, T \subseteq Nat, T # {}
    PROVE  \E d \in T : \A e \in T : d <= e
<1> DEFINE R == OpToRel(<, Nat)
<1>1. IsWellFoundedOn(R, Nat)
  BY NatLessThanWellFounded
<1> HIDE DEF R
<1>2. PICK d \in T : \A e \in T : <<e, d>> \notin R
  BY <1>1, WFMin, Zenon
<1>3. \A e \in T : <<e, d>> \in Nat \X Nat /\ e < d => <<e, d>> \in R
  BY DEF R, OpToRel
<1>4. ASSUME NEW e \in T PROVE d <= e
  <2>1. ~(e < d)
    BY <1>2, <1>3
  <2> QED
    BY <2>1
<1> QED
  BY <1>4

-----------------------------------------------------------------------------
(* The slots.                                                               *)

PCs == WaitingPCs \cup SlotPCs \cup DonePCs

SlotHolders == {j \in Jobs : pc[j] \in SlotPCs}

(* What h.sem counts: the goroutines between the select and the deferred    *)
(* release.                                                                 *)
SlotsAccountedFor == sem = Cardinality(SlotHolders)

(* Moving a job between two places outside, or two places inside, the span  *)
(* of the slot leaves the holders as they are; taking a slot adds the job,  *)
(* releasing one removes it.                                                *)
LEMMA Holding ==
    ASSUME pc \in [Jobs -> PCs], sem \in Nat, SlotsAccountedFor,
           NEW j \in Jobs, NEW to \in PCs, pc' = [pc EXCEPT ![j] = to]
    PROVE  /\ (pc[j] \in SlotPCs <=> to \in SlotPCs) /\ sem' = sem
                => SlotsAccountedFor'
           /\ pc[j] \notin SlotPCs /\ to \in SlotPCs /\ sem' = sem + 1
                => SlotsAccountedFor'
           /\ pc[j] \in SlotPCs /\ to \notin SlotPCs /\ sem' = sem - 1
                => SlotsAccountedFor'
<1>1. IsFiniteSet(SlotHolders) /\ sem = Cardinality(SlotHolders)
  BY ChainAssumption, FS_Subset DEF SlotHolders, SlotsAccountedFor
<1>2. ASSUME pc[j] \in SlotPCs <=> to \in SlotPCs
      PROVE  SlotHolders' = SlotHolders
  BY <1>2 DEF SlotHolders
<1>3. ASSUME pc[j] \notin SlotPCs, to \in SlotPCs
      PROVE  Cardinality(SlotHolders') = sem + 1
  <2>1. SlotHolders' = SlotHolders \cup {j} /\ j \notin SlotHolders
    BY <1>3 DEF SlotHolders
  <2> QED
    BY <1>1, <2>1, FS_AddElement
<1>4. ASSUME pc[j] \in SlotPCs, to \notin SlotPCs
      PROVE  Cardinality(SlotHolders') = sem - 1
  <2>1. SlotHolders' = SlotHolders \ {j} /\ j \in SlotHolders
    BY <1>4 DEF SlotHolders
  <2> QED
    BY <1>1, <2>1, FS_RemoveElement
<1> QED
  BY <1>2, <1>3, <1>4 DEF SlotsAccountedFor

(* Every step keeps the account: only Select takes a slot, and every way    *)
(* out of the span gives it back.                                           *)
LEMMA SlotsStep ==
    ASSUME pc \in [Jobs -> PCs], sem \in Nat, SlotsAccountedFor, [Next]_vars
    PROVE  SlotsAccountedFor'
<1>1. ASSUME pc' = pc, sem' = sem PROVE SlotsAccountedFor'
  BY <1>1 DEF SlotsAccountedFor, SlotHolders
<1>2. CASE UNCHANGED vars
  BY <1>1, <1>2 DEF vars, queue
<1>3. CASE Tick
  BY <1>1, <1>3 DEF Tick
<1>4. ASSUME NEW j \in Jobs, CancelJob(j) \/ Expire(j) PROVE SlotsAccountedFor'
  BY <1>1, <1>4 DEF CancelJob, Expire, queue
<1>5. ASSUME NEW j \in Jobs, processDownload(j) PROVE SlotsAccountedFor'
  <2> USE DEF Goto, PCs, WaitingPCs, SlotPCs, DonePCs, queue
  <2>1. CASE Enter(j)
    <3>1. PICK to \in {"gate", "gone"} : pc[j] = "top" /\ pc' = [pc EXCEPT ![j] = to]
      BY <2>1 DEF Enter
    <3>2. sem' = sem
      BY <2>1 DEF Enter
    <3> QED
      BY <3>1, <3>2, Holding
  <2>2. CASE parkForUpstreamBreak(j)
    <3>1. PICK to \in PCs : /\ pc[j] \notin SlotPCs /\ to \notin SlotPCs
                           /\ pc' = [pc EXCEPT ![j] = to] /\ sem' = sem
      BY <2>2 DEF parkForUpstreamBreak
    <3> QED
      BY <3>1, Holding
  <2>3. CASE parkForOpenCircuits(j)
    BY <2>3, Holding DEF parkForOpenCircuits, EndPark
  <2>4. CASE Poll(j)
    <3>1. PICK to \in PCs : /\ pc[j] \notin SlotPCs /\ to \notin SlotPCs
                           /\ pc' = [pc EXCEPT ![j] = to] /\ sem' = sem
      BY <2>4 DEF Poll
    <3> QED
      BY <3>1, Holding
  <2>5. CASE Select(j)
    BY <2>5, Holding DEF Select
  <2>6. CASE Recheck(j)
    BY <2>6, Holding DEF Recheck
  <2>7. CASE beginDownload(j)
    BY <2>7, Holding DEF beginDownload, failJob
  <2>8. CASE tryPrimary(j)
    BY <2>8, Holding DEF tryPrimary
  <2>9. CASE Attempt(j)
    BY <2>9, Holding DEF Attempt
  <2>10. CASE handleCompleteEvent(j)
    <3>1. PICK to \in PCs : /\ pc[j] \in SlotPCs /\ to \notin SlotPCs
                           /\ pc' = [pc EXCEPT ![j] = to] /\ sem' = sem - 1
      BY <2>10 DEF handleCompleteEvent
    <3> QED
      BY <3>1, Holding
  <2>11. CASE RetryAttempt(j)
    BY <2>11, Holding DEF RetryAttempt
  <2>12. CASE AttemptsFailed(j)
    BY <2>12, Holding DEF AttemptsFailed
  <2>13. CASE runFallbackChain(j)
    BY <1>1, <2>13, Holding DEF runFallbackChain, tryFallback
  <2>14. CASE concludeFailedAttempts(j)
    BY <2>14, Holding DEF concludeFailedAttempts, Requeued, failJob
  <2> QED
    BY <1>5, <2>1, <2>2, <2>3, <2>4, <2>5, <2>6, <2>7, <2>8, <2>9, <2>10, <2>11,
       <2>12, <2>13, <2>14 DEF processDownload
<1> QED
  BY <1>2, <1>3, <1>4, <1>5 DEF Next

(* Whoever holds a slot is counted.                                         *)
LEMMA HolderCounted ==
    ASSUME SlotsAccountedFor, NEW j \in Jobs, pc[j] \in SlotPCs
    PROVE  sem > 0
<1>1. IsFiniteSet(SlotHolders) /\ sem = Cardinality(SlotHolders)
  BY ChainAssumption, FS_Subset DEF SlotHolders, SlotsAccountedFor
<1>2. SlotHolders # {}
  BY DEF SlotHolders
<1>3. Cardinality(SlotHolders) # 0 /\ Cardinality(SlotHolders) \in Nat
  BY <1>1, <1>2, FS_EmptySet, FS_CardinalityType
<1> QED
  BY <1>1, <1>3

-----------------------------------------------------------------------------
(* The chain and the breaker.                                               *)

(* What never turns an admitted service away: everything a breaker sees     *)
(* but a failure.                                                           *)
Relents ==
    \/ \E s \in Services : Allow(s) \/ Reset(s) \/ RecordSuccess(s)
    \/ Age /\ UNCHANGED fails
    \/ UNCHANGED breaker

(* A step that is not a failure closes no open door.                        *)
LEMMA RelentingAdmits ==
    ASSUME BreakerTypeOK, Relents, NEW s \in Services, Admits(s)
    PROVE  Admits(s)'
<1> USE BreakerAssumption DEF BreakerTypeOK, Admits
<1>1. ASSUME NEW t \in Services, Allow(t) PROVE Admits(s)'
  BY <1>1 DEF Allow
<1>2. ASSUME NEW t \in Services, Reset(t) PROVE Admits(s)'
  BY <1>2 DEF Reset
<1>3. ASSUME NEW t \in Services, RecordSuccess(t) PROVE Admits(s)'
  BY <1>3 DEF RecordSuccess
<1>4. CASE Age /\ UNCHANGED fails
  BY <1>4 DEF Age
<1>5. CASE UNCHANGED breaker
  BY <1>5 DEF breaker
<1> QED
  BY <1>1, <1>2, <1>3, <1>4, <1>5 DEF Relents

(* A service-side failure of a live job's attempt, fed to the breaker.      *)
FailureRecorded(j) ==
    /\ pc[j] = "downloading" /\ ctx[j] = "live"
    /\ AttemptsFailed(j)
    /\ lastErr'[j] \in {"retryable", "noRetry"}
    /\ RecordFailure(service[j])

(* What one step of the chain asks of the breaker.                          *)
LEMMA ChainAndBreaker ==
    ASSUME TypeOK, [Next]_vars
    PROVE  Relents \/ \E j \in Jobs : FailureRecorded(j)
<1>1. \A j \in Jobs : service[j] \in Services
  BY DEF TypeOK
<1>2. \A i \in Places : Fallbacks[i] \in Services
  BY ChainAssumption DEF Places
<1>3. \A j \in Jobs : chain[j] \subseteq Places
  BY DEF TypeOK
<1>4. CASE UNCHANGED vars
  BY <1>4 DEF vars, Relents
<1>5. CASE Tick
  BY <1>5 DEF Tick, Relents
<1>6. ASSUME NEW j \in Jobs, processDownload(j) \/ CancelJob(j) \/ Expire(j)
      PROVE  Relents \/ FailureRecorded(j)
  <2>1. CASE parkForOpenCircuits(j)
    BY <1>1, <2>1 DEF parkForOpenCircuits, Relents
  <2>2. CASE tryPrimary(j)
    BY <1>1, <2>2 DEF tryPrimary, Relents
  <2>3. CASE handleCompleteEvent(j)
    BY <1>1, <2>3 DEF handleCompleteEvent, Relents
  <2>4. CASE AttemptsFailed(j)
    <3>1. PICK class \in Outcomes : /\ lastErr' = [lastErr EXCEPT ![j] = class]
                                    /\ recordServiceFailure(j, class)
      BY <2>4 DEF AttemptsFailed, observe
    <3>2. lastErr'[j] = class
      BY <3>1 DEF TypeOK
    <3>3. pc[j] = "downloading"
      BY <2>4 DEF AttemptsFailed, Goto
    <3> QED
      BY <2>4, <3>1, <3>2, <3>3 DEF recordServiceFailure, Relents, FailureRecorded
  <2>5. CASE runFallbackChain(j)
    BY <1>2, <1>3, <2>5 DEF runFallbackChain, tryFallback, Relents
  <2>6. CASE \/ Enter(j) \/ parkForUpstreamBreak(j) \/ Poll(j) \/ Select(j)
             \/ Recheck(j) \/ beginDownload(j) \/ Attempt(j) \/ RetryAttempt(j)
             \/ concludeFailedAttempts(j) \/ CancelJob(j) \/ Expire(j)
    BY <2>6 DEF Enter, parkForUpstreamBreak, Poll, Select, Recheck, beginDownload,
           Attempt, RetryAttempt, concludeFailedAttempts, CancelJob, Expire, Relents
  <2> QED
    BY <1>6, <2>1, <2>2, <2>3, <2>4, <2>5, <2>6 DEF processDownload
<1> QED
  BY <1>4, <1>5, <1>6 DEF Next

(* So the only calls the chain makes on the breaker are its four operations.*)
LEMMA ChainDrivesBreaker ==
    ASSUME TypeOK, [Next]_vars
    PROVE  [BreakerNext]_breaker
<1>1. \A j \in Jobs : service[j] \in Services
  BY DEF TypeOK
<1> QED
  BY <1>1, ChainAndBreaker DEF Relents, FailureRecorded, BreakerNext

-----------------------------------------------------------------------------
(* Types.                                                                   *)

(* What parkForOpenCircuits publishes is a duration.                        *)
LEMMA ShortestWaitType ==
    ASSUME TypeOK, NEW j \in Jobs
    PROVE  ShortestWait(j) \in Nat
<1> DEFINE waits == {MaxPark} \cup {RetryAfter(s) : s \in candidateServices(j)}
<1>1. candidateServices(j) \subseteq Services
  BY ChainAssumption DEF TypeOK, candidateServices, fallbackChain, Places
<1>2. \A s \in Services : RetryAfter(s) \in Nat
  BY BreakerAssumption DEF TypeOK, BreakerTypeOK, RetryAfter
<1>3. waits \subseteq Nat /\ waits # {}
  BY <1>1, <1>2, ChainAssumption
<1> HIDE DEF waits
<1>4. \E d \in waits : \A e \in waits : d <= e
  BY <1>3, ShortestExists
<1>5. (CHOOSE d \in waits : \A e \in waits : d <= e) \in waits
  BY <1>4
<1> QED
  BY <1>3, <1>5 DEF ShortestWait, waits

(* No step takes a variable out of its range.                               *)
LEMMA ChainTypeStep ==
    ASSUME TypeOK, SlotsAccountedFor, [Next]_vars
    PROVE  TypeOK'
<1>1. BreakerTypeOK'
  BY ChainDrivesBreaker, BreakerTypeStep DEF TypeOK
<1> DEFINE
      Admission ==
        /\ {gate, published} \subseteq Nat
        /\ sem \in 0..MaxConcurrent
        /\ pc \in [Jobs -> PCs]
        /\ ctx \in [Jobs -> {"live", "cancelled", "expired"}]
        /\ parkLeft \in [Jobs -> 0..MaxPark] /\ parked \in [Jobs -> BOOLEAN]
      Passes ==
        /\ requeues \in [Jobs -> Nat]
        /\ service \in [Jobs -> Services]
        /\ attempt \in [Jobs -> 1..MaxAttempts] /\ attempts \in [Jobs -> 0..MaxAttempts]
        /\ chain \in [Jobs -> SUBSET Places]
        /\ lastErr \in [Jobs -> AllOutcomes \cup {"none", "noDir", "unsupported",
                                                  "circuitOpen", "canceled"}]
        /\ tried \in [Jobs -> BOOLEAN]
        /\ cooldown \in [Jobs -> Nat]
<1>2. Admission /\ Passes
  BY DEF TypeOK, PCs
<1>3. /\ MaxConcurrent \in Nat /\ MaxConcurrent > 0 /\ sem \in Nat
      /\ MaxAttempts \in Nat /\ MaxAttempts > 0
      /\ MaxPark \in Nat /\ MaxPark > 0
      /\ Breaks \subseteq Nat /\ Outcomes \subseteq AllOutcomes
      /\ MaxUnattempted \in Nat /\ MaxCooldowns \in Nat
  BY <1>2, ChainAssumption
<1>4. \A i \in Places : Fallbacks[i] \in Services
  BY ChainAssumption DEF Places
<1>5. \A j \in Jobs : pc[j] \in SlotPCs => sem > 0
  BY HolderCounted
<1>6. ASSUME UNCHANGED vars PROVE Admission' /\ Passes'
  BY <1>2, <1>6 DEF vars, queue, pass, park
<1>7. ASSUME Tick PROVE Admission' /\ Passes'
  <2>1. \A n \in Nat : Less(n) \in Nat /\ Less(n) <= n
    BY DEF Less
  <2>2. \A n \in 0..MaxPark : Less(n) \in 0..MaxPark
    BY <1>3, <2>1
  <2> QED
    BY <1>2, <1>7, <2>1, <2>2 DEF Tick, pass
<1>8. ASSUME NEW j \in Jobs, CancelJob(j) \/ Expire(j) PROVE Admission' /\ Passes'
  BY <1>2, <1>8 DEF CancelJob, Expire, queue, pass, park
<1>9. ASSUME NEW j \in Jobs, processDownload(j) PROVE Admission'
  <2> USE <1>2, <1>3, <1>5 DEF Goto, PCs, WaitingPCs, SlotPCs, DonePCs, queue, park
  <2>1. CASE Enter(j)
    BY <2>1 DEF Enter
  <2>2. CASE parkForUpstreamBreak(j)
    BY <2>2 DEF parkForUpstreamBreak
  <2>3. CASE parkForOpenCircuits(j)
    <3>1. /\ UNCHANGED <<gate, sem, ctx>>
          /\ \E to \in {"select", "parked"} : pc' = [pc EXCEPT ![j] = to]
      BY <2>3 DEF parkForOpenCircuits, EndPark
    <3>2. published' \in {0, published, ShortestWait(j)}
      BY <2>3 DEF parkForOpenCircuits, EndPark
    <3>3. published' \in Nat
      BY <3>2, ShortestWaitType
    <3>4. /\ parked' \in [Jobs -> BOOLEAN]
          /\ parkLeft' = parkLeft \/ parkLeft' = [parkLeft EXCEPT ![j] = 0]
      BY <2>3 DEF parkForOpenCircuits, EndPark
    <3>5. parkLeft' \in [Jobs -> 0..MaxPark]
      BY <3>4
    <3>6. pc' \in [Jobs -> PCs]
      BY <3>1
    <3> QED
      BY <3>1, <3>3, <3>4, <3>5, <3>6
  <2>4. CASE Poll(j)
    BY <2>4 DEF Poll
  <2>5. CASE Select(j)
    BY <2>5 DEF Select
  <2>6. CASE Recheck(j)
    BY <2>6 DEF Recheck
  <2>7. CASE beginDownload(j)
    BY <2>7 DEF beginDownload, failJob
  <2>8. CASE tryPrimary(j)
    BY <2>8 DEF tryPrimary
  <2>9. CASE Attempt(j)
    BY <2>9 DEF Attempt
  <2>10. CASE handleCompleteEvent(j)
    BY <2>10 DEF handleCompleteEvent
  <2>11. CASE RetryAttempt(j)
    BY <2>11 DEF RetryAttempt
  <2>12. CASE AttemptsFailed(j)
    BY <2>12 DEF AttemptsFailed, observe, extend
  <2>13. CASE runFallbackChain(j)
    BY <2>13 DEF runFallbackChain, tryFallback
  <2>14. CASE concludeFailedAttempts(j)
    BY <2>14 DEF concludeFailedAttempts, Requeued, failJob, extend
  <2> QED
    BY <1>9, <2>1, <2>2, <2>3, <2>4, <2>5, <2>6, <2>7, <2>8, <2>9, <2>10, <2>11,
       <2>12, <2>13, <2>14 DEF processDownload
<1>10. ASSUME NEW j \in Jobs, processDownload(j) PROVE Passes'
  <2> USE <1>2 DEF pass
  <2>1. CASE \/ Enter(j) \/ parkForUpstreamBreak(j) \/ parkForOpenCircuits(j)
             \/ Poll(j) \/ Select(j) \/ Recheck(j)
    BY <2>1 DEF Enter, parkForUpstreamBreak, parkForOpenCircuits, Poll, Select, Recheck
  <2>2. CASE beginDownload(j)
    BY <2>2 DEF beginDownload, failJob
  <2>3. CASE tryPrimary(j)
    BY <1>3, <2>3 DEF tryPrimary, fallbackChain, StartAttempts
  <2>4. CASE Attempt(j)
    BY <2>4 DEF Attempt
  <2>5. CASE handleCompleteEvent(j)
    BY <2>5 DEF handleCompleteEvent
  <2>6. CASE RetryAttempt(j)
    BY <1>3, <2>6 DEF RetryAttempt
  <2>7. CASE AttemptsFailed(j)
    <3>1. UNCHANGED <<requeues, service, attempt, attempts, chain>>
      BY <2>7 DEF AttemptsFailed
    <3>2. PICK class \in Outcomes, d \in Breaks \cup {0} : observe(j, class, d)
      BY <2>7 DEF AttemptsFailed
    <3>3. class \in AllOutcomes /\ d \in Nat
      BY <1>3, <3>2
    <3>4. lastErr' = [lastErr EXCEPT ![j] = class] /\ tried' = [tried EXCEPT ![j] = TRUE]
      BY <3>2 DEF observe
    <3>5. \/ cooldown' = cooldown
          \/ cooldown' = [cooldown EXCEPT ![j] = IF d > @ THEN d ELSE @]
      BY <3>2 DEF observe
    <3>6. cooldown' \in [Jobs -> Nat]
      BY <3>3, <3>5
    <3> QED
      BY <3>1, <3>3, <3>4, <3>6
  <2>8. CASE runFallbackChain(j)
    BY <1>3, <1>4, <2>8 DEF runFallbackChain, tryFallback, StartAttempts
  <2>9. CASE concludeFailedAttempts(j)
    <3>1. service' = service
      BY <2>9 DEF concludeFailedAttempts
    <3>2. \E n \in Nat : requeues' = [requeues EXCEPT ![j] = n]
      <4>1. requeues[j] \in Nat
        OBVIOUS
      <4>2. \E a, b, c \in {0, 1} : \/ requeues' = [requeues EXCEPT ![j] = 0]
                                   \/ requeues' = [requeues EXCEPT ![j] = requeues[j] + a + b + c]
        BY <2>9, <4>1 DEF concludeFailedAttempts, failJob
      <4> QED
        BY <4>1, <4>2
    <3>3. Requeued(j) \/ UNCHANGED <<tried, cooldown, lastErr, chain, attempt, attempts>>
      BY <2>9 DEF concludeFailedAttempts
    <3>4. CASE UNCHANGED <<tried, cooldown, lastErr, chain, attempt, attempts>>
      BY <3>1, <3>2, <3>4
    <3>5. CASE Requeued(j)
      <4>1. /\ tried' \in [Jobs -> BOOLEAN]
            /\ cooldown' \in [Jobs -> Nat]
            /\ chain' \in [Jobs -> SUBSET Places]
        BY <3>5 DEF Requeued
      <4>2. lastErr' \in [Jobs -> AllOutcomes \cup {"none", "noDir", "unsupported",
                                                   "circuitOpen", "canceled"}]
        BY <3>5 DEF Requeued
      <4>3. 1 \in 1..MaxAttempts /\ 0 \in 0..MaxAttempts
        BY <1>3
      <4>4. /\ attempt' \in [Jobs -> 1..MaxAttempts]
            /\ attempts' \in [Jobs -> 0..MaxAttempts]
        BY <3>5, <4>3 DEF Requeued, StartAttempts
      <4>5. requeues' \in [Jobs -> Nat] /\ service' \in [Jobs -> Services]
        BY <3>1, <3>2
      <4> QED
        BY <4>1, <4>2, <4>4, <4>5
    <3> QED
      BY <3>3, <3>4, <3>5
  <2> QED
    BY <1>10, <2>1, <2>2, <2>3, <2>4, <2>5, <2>6, <2>7, <2>8, <2>9
       DEF processDownload
<1>11. Admission' /\ Passes'
  BY <1>6, <1>7, <1>8, <1>9, <1>10 DEF Next
<1> QED
  BY <1>1, <1>11 DEF TypeOK, PCs

(* The variables stay in their ranges, and h.sem counts the goroutines that *)
(* hold a slot: every way out of processDownload runs its deferred release  *)
(* exactly once.                                                            *)
THEOREM SlotsAlwaysAccounted == Spec => [](TypeOK /\ SlotsAccountedFor)
<1>1. Init => TypeOK
  BY ChainAssumption, BreakerAssumption
     DEF Init, TypeOK, BreakerInit, BreakerTypeOK, WaitingPCs, Places
<1>2. Init => SlotsAccountedFor
  <2>1. SUFFICES ASSUME Init PROVE SlotsAccountedFor
    OBVIOUS
  <2>2. SlotHolders = {}
    BY <2>1 DEF Init, SlotHolders, SlotPCs
  <2> QED
    BY <2>1, <2>2, FS_EmptySet DEF Init, SlotsAccountedFor
<1>3. TypeOK /\ SlotsAccountedFor /\ [Next]_vars => (TypeOK /\ SlotsAccountedFor)'
  <2> SUFFICES ASSUME TypeOK, SlotsAccountedFor, [Next]_vars
               PROVE  (TypeOK /\ SlotsAccountedFor)'
    OBVIOUS
  <2>1. pc \in [Jobs -> PCs] /\ sem \in Nat
    BY ChainAssumption DEF TypeOK, PCs
  <2> QED
    BY <2>1, ChainTypeStep, SlotsStep
<1> QED
  BY <1>1, <1>2, <1>3, PTL DEF Spec

(* Type correctness: among others, no interleaving of parks, re-checks and  *)
(* requeues makes more than MaxConcurrent jobs hold a slot.                 *)
THEOREM ChainTypeCorrect == Spec => []TypeOK
BY SlotsAlwaysAccounted, PTL

(* Whatever the jobs do, the breaker sees only its own four operations and  *)
(* the passing of time: the attempt chain implements the breaker's contract.*)
THEOREM ChainKeepsToBreaker == Spec => BreakerSpec
<1>1. Init => BreakerInit
  BY DEF Init
<1>2. TypeOK /\ [Next]_vars => [BreakerNext]_breaker
  BY ChainDrivesBreaker
<1> QED
  BY <1>1, <1>2, ChainTypeCorrect, PTL DEF Spec, BreakerSpec

(* So a park that waits for RetryAfter ends at a circuit Allow admits, also *)
(* when other jobs drive the breaker between the two questions.             *)
THEOREM ChainViewsAgree == Spec => []ViewsAgree
BY ChainKeepsToBreaker, ViewsAlwaysAgree, PTL

(* And failures of attempts that were under way when a circuit opened do    *)
(* not prolong the park of the jobs that wait for it.                       *)
THEOREM ChainNeverProlongs == Spec => NeverProlonged
BY ChainKeepsToBreaker, CooldownNeverProlonged, PTL

-----------------------------------------------------------------------------
(* What a step may touch.                                                   *)

(* A step of one job leaves the state of every other job alone.             *)
LEMMA OthersUntouched ==
    ASSUME TypeOK, NEW j \in Jobs, processDownload(j) \/ CancelJob(j) \/ Expire(j),
           NEW k \in Jobs, k # j
    PROVE  /\ pc'[k] = pc[k] /\ ctx'[k] = ctx[k] /\ service'[k] = service[k]
           /\ lastErr'[k] = lastErr[k] /\ tried'[k] = tried[k]
           /\ cooldown'[k] = cooldown[k] /\ chain'[k] = chain[k]
           /\ parked'[k] = parked[k] /\ requeues'[k] = requeues[k]
<1> USE DEF TypeOK, Goto, queue, pass, park
<1>1. CASE CancelJob(j) \/ Expire(j)
  BY <1>1 DEF CancelJob, Expire
<1>2. CASE Enter(j) \/ parkForUpstreamBreak(j) \/ Poll(j) \/ Select(j) \/ Recheck(j)
  BY <1>2 DEF Enter, parkForUpstreamBreak, Poll, Select, Recheck
<1>3. CASE parkForOpenCircuits(j)
  BY <1>3 DEF parkForOpenCircuits, EndPark
<1>4. CASE beginDownload(j)
  BY <1>4 DEF beginDownload, failJob
<1>5. CASE tryPrimary(j)
  BY <1>5 DEF tryPrimary
<1>6. CASE Attempt(j) \/ handleCompleteEvent(j) \/ RetryAttempt(j)
  BY <1>6 DEF Attempt, handleCompleteEvent, RetryAttempt
<1>7. CASE AttemptsFailed(j)
  BY <1>7 DEF AttemptsFailed, observe
<1>8. CASE runFallbackChain(j)
  BY <1>8 DEF runFallbackChain, tryFallback
<1>9. CASE concludeFailedAttempts(j)
  BY <1>9 DEF concludeFailedAttempts, Requeued, failJob
<1> QED
  BY <1>1, <1>2, <1>3, <1>4, <1>5, <1>6, <1>7, <1>8, <1>9 DEF processDownload

(* Neither does time, nor a step of nobody.                                 *)
LEMMA TimeTouchesNoJob ==
    ASSUME Tick \/ UNCHANGED vars
    PROVE  UNCHANGED <<pc, ctx, service, lastErr, tried, cooldown, chain, parked, requeues>>
BY DEF Tick, vars, queue, pass, park

-----------------------------------------------------------------------------
(* The published park.                                                      *)

(* circuit_park_until is 0 unless some job is parked: a job that publishes  *)
(* a park withdraws it when it stops waiting, for whatever reason, and a    *)
(* job that never published one withdraws nothing.                          *)
THEOREM ParkAlwaysWithdrawn == Spec => []ParkIsWithdrawn
<1>1. Init => ParkIsWithdrawn
  BY DEF Init, ParkIsWithdrawn
<1>2. ASSUME TypeOK, ParkIsWithdrawn, [Next]_vars PROVE ParkIsWithdrawn'
  <2>1. published \in Nat /\ parked \in [Jobs -> BOOLEAN]
    BY <1>2 DEF TypeOK
  <2>2. ASSUME published' = published, parked' = parked PROVE ParkIsWithdrawn'
    BY <1>2, <2>2 DEF ParkIsWithdrawn
  <2>3. CASE UNCHANGED vars
    BY <2>2, <2>3 DEF vars, queue, park
  <2>4. CASE Tick
    <3>1. parked' = parked /\ (published' > 0 => published > 0)
      BY <2>1, <2>4 DEF Tick, Less
    <3> QED
      BY <1>2, <3>1 DEF ParkIsWithdrawn
  <2>5. ASSUME NEW j \in Jobs, CancelJob(j) \/ Expire(j) PROVE ParkIsWithdrawn'
    BY <2>2, <2>5 DEF CancelJob, Expire, queue, park
  <2>6. ASSUME NEW j \in Jobs, processDownload(j) PROVE ParkIsWithdrawn'
    <3>1. CASE parkForOpenCircuits(j)
      <4>1. CASE EndPark(j)
        BY <1>2, <2>1, <4>1 DEF EndPark, ParkIsWithdrawn
      <4>2. CASE parked' = [parked EXCEPT ![j] = TRUE]
        BY <2>1, <4>2 DEF ParkIsWithdrawn
      <4> QED
        BY <3>1, <4>1, <4>2 DEF parkForOpenCircuits
    <3>2. CASE ~parkForOpenCircuits(j)
      <4>1. published' = published /\ parked' = parked
        BY <2>6, <3>2 DEF processDownload, Enter, parkForUpstreamBreak, Poll, Select,
           Recheck, beginDownload, tryPrimary, Attempt, handleCompleteEvent,
           RetryAttempt, AttemptsFailed, runFallbackChain, concludeFailedAttempts,
           queue, park
      <4> QED
        BY <2>2, <4>1
    <3> QED
      BY <3>1, <3>2
  <2> QED
    BY <1>2, <2>3, <2>4, <2>5, <2>6 DEF Next
<1> QED
  BY <1>1, <1>2, ChainTypeCorrect, PTL DEF Spec

-----------------------------------------------------------------------------
(* Circuits open only for failures of the service.                          *)

(* The step that opens a circuit ends an attempt of a live job on that very *)
(* service with a failure that is the service's: an announced break, a      *)
(* release nobody has and a cancelled job open nothing.                     *)
THEOREM OnlyServiceFailuresOpenCircuits == Spec => OnlyServiceFailuresOpen
<1>1. ASSUME TypeOK, TypeOK', [Next]_vars, NEW s \in Services, ~Open(s), Open(s)'
      PROVE  \E j \in Jobs : /\ pc[j] = "downloading" /\ service[j] = s
                             /\ ctx[j] = "live"
                             /\ lastErr'[j] \in {"retryable", "noRetry"}
  <2>1. BreakerTypeOK /\ ViewsAgree
    BY <1>1, Views DEF TypeOK
  <2>2. Open(s)' => ~Admits(s)'
    BY BreakerAssumption, <1>1 DEF TypeOK, BreakerTypeOK, Open, Admits
  <2>3. Admits(s) /\ ~Admits(s)'
    BY <1>1, <2>1, <2>2 DEF ViewsAgree
  <2>4. PICK j \in Jobs : FailureRecorded(j)
    BY <1>1, <2>1, <2>3, RelentingAdmits, ChainAndBreaker
  <2>5. ASSUME service[j] # s PROVE FALSE
    BY <2>1, <2>3, <2>4, <2>5 DEF FailureRecorded, RecordFailure, Admits, BreakerTypeOK
  <2> QED
    BY <2>4, <2>5 DEF FailureRecorded
<1>2. TypeOK /\ TypeOK' /\ [Next]_vars =>
        [\A s \in Services : ~Open(s) /\ Open(s)' =>
            \E j \in Jobs : /\ pc[j] = "downloading" /\ service[j] = s
                            /\ ctx[j] = "live"
                            /\ lastErr'[j] \in {"retryable", "noRetry"}]_vars
  BY <1>1
<1> QED
  BY <1>2, ChainTypeCorrect, PTL DEF Spec, OnlyServiceFailuresOpen

-----------------------------------------------------------------------------
(* An announced break ends the pass.                                        *)

(* An announcement leaves its mark in the outcome record, and the job is    *)
(* then past every place an attempt can start from.                         *)
AnnouncementKept ==
    \A j \in Jobs : lastErr[j] = "cooldown" =>
        cooldown[j] > 0 /\ pc[j] \in {"chain", "conclude"} \cup DonePCs

(* Every step keeps it.                                                     *)
LEMMA AnnouncementStep ==
    ASSUME TypeOK, AnnouncementKept, [Next]_vars
    PROVE  AnnouncementKept'
<1> SUFFICES ASSUME NEW k \in Jobs, lastErr'[k] = "cooldown"
             PROVE  cooldown'[k] > 0 /\ pc'[k] \in {"chain", "conclude"} \cup DonePCs
  BY DEF AnnouncementKept
<1>1. CASE Tick \/ UNCHANGED vars
  BY <1>1, TimeTouchesNoJob DEF AnnouncementKept
<1>2. ASSUME NEW j \in Jobs, processDownload(j) \/ CancelJob(j) \/ Expire(j), j # k
      PROVE  cooldown'[k] > 0 /\ pc'[k] \in {"chain", "conclude"} \cup DonePCs
  BY <1>2, OthersUntouched DEF AnnouncementKept
<1>3. ASSUME processDownload(k) \/ CancelJob(k) \/ Expire(k)
      PROVE  cooldown'[k] > 0 /\ pc'[k] \in {"chain", "conclude"} \cup DonePCs
  <2> USE DEF TypeOK, AnnouncementKept, DonePCs, Goto, pass
  <2>1. CASE CancelJob(k) \/ Expire(k)
    BY <2>1 DEF CancelJob, Expire
  <2>2. CASE \/ Enter(k) \/ parkForUpstreamBreak(k) \/ parkForOpenCircuits(k)
             \/ Poll(k) \/ Select(k) \/ Recheck(k)
    BY <2>2 DEF Enter, parkForUpstreamBreak, parkForOpenCircuits, EndPark, Poll,
           Select, Recheck
  <2>3. CASE beginDownload(k)
    BY <2>3 DEF beginDownload, failJob
  <2>4. CASE tryPrimary(k)
    BY <2>4 DEF tryPrimary
  <2>5. CASE Attempt(k) \/ handleCompleteEvent(k)
    BY <2>5 DEF Attempt, handleCompleteEvent
  <2>6. CASE RetryAttempt(k)
    BY <2>6 DEF RetryAttempt, shouldRetry
  <2>7. CASE AttemptsFailed(k)
    <3>1. pc'[k] = "chain"
      BY <2>7 DEF AttemptsFailed
    <3>2. PICK class \in Outcomes, d \in Breaks \cup {0} :
             observe(k, class, d) /\ (class = "cooldown" => d \in Breaks)
      BY <2>7 DEF AttemptsFailed
    <3>3. class = "cooldown"
      BY <3>2 DEF observe
    <3>4. d \in Nat /\ d > 0 /\ cooldown[k] \in Nat
      BY <3>2, <3>3, ChainAssumption
    <3>5. cooldown'[k] = IF d > cooldown[k] THEN d ELSE cooldown[k]
      BY <3>2, <3>3 DEF observe
    <3> QED
      BY <3>1, <3>4, <3>5
  <2>8. CASE runFallbackChain(k)
    BY <2>8 DEF runFallbackChain, tryFallback
  <2>9. CASE concludeFailedAttempts(k)
    BY <2>9 DEF concludeFailedAttempts, Requeued, failJob
  <2> QED
    BY <1>3, <2>1, <2>2, <2>3, <2>4, <2>5, <2>6, <2>7, <2>8, <2>9 DEF processDownload
<1> QED
  BY <1>1, <1>2, <1>3 DEF Next

(* A job that a service told to wait asks no other service in that pass:    *)
(* whichever attempt met the announcement, and whatever the order of the    *)
(* fallbacks, the next request of the job is one of another pass.           *)
THEOREM CooldownAlwaysStopsChain == Spec => CooldownStopsChain
<1>1. Init => AnnouncementKept
  BY DEF Init, AnnouncementKept
<1>2. Spec => []AnnouncementKept
  <2>1. TypeOK /\ AnnouncementKept /\ [Next]_vars => AnnouncementKept'
    BY AnnouncementStep
  <2> QED
    BY <1>1, <2>1, ChainTypeCorrect, PTL DEF Spec
<1>3. ASSUME TypeOK, AnnouncementKept, [Next]_vars,
             NEW k \in Jobs, pc[k] # "downloading", pc'[k] = "downloading"
      PROVE  lastErr[k] # "cooldown"
  <2>1. PICK j \in Jobs : processDownload(j) \/ CancelJob(j) \/ Expire(j)
    BY <1>3, TimeTouchesNoJob DEF Next
  <2>2. j = k
    BY <1>3, <2>1, OthersUntouched
  <2>3. Attempt(k)
    BY <1>3, <2>1, <2>2 DEF processDownload, CancelJob, Expire, Enter,
       parkForUpstreamBreak, parkForOpenCircuits, EndPark, Poll, Select, Recheck,
       beginDownload, tryPrimary, handleCompleteEvent, RetryAttempt, AttemptsFailed,
       runFallbackChain, tryFallback, concludeFailedAttempts, Requeued, failJob,
       Goto, TypeOK
  <2> QED
    BY <1>3, <2>3 DEF Attempt, Goto, AnnouncementKept, DonePCs
<1>4. TypeOK /\ AnnouncementKept /\ [Next]_vars =>
        [\A j \in Jobs : pc[j] # "downloading" /\ pc'[j] = "downloading" =>
            lastErr[j] # "cooldown"]_vars
  BY <1>3
<1> QED
  BY <1>2, <1>4, ChainTypeCorrect, PTL DEF Spec, CooldownStopsChain

-----------------------------------------------------------------------------
(* With one slot, an open circuit never fails a job.                        *)

(* Nothing is known of a release no backend was asked about, not even a     *)
(* break.                                                                   *)
UntriedIsClean == \A j \in Jobs : ~tried[j] => cooldown[j] = 0

(* Every step keeps it.                                                     *)
LEMMA UntriedStep ==
    ASSUME TypeOK, UntriedIsClean, [Next]_vars
    PROVE  UntriedIsClean'
<1> SUFFICES ASSUME NEW k \in Jobs, ~tried'[k] PROVE cooldown'[k] = 0
  BY DEF UntriedIsClean
<1>1. CASE Tick \/ UNCHANGED vars
  BY <1>1, TimeTouchesNoJob DEF UntriedIsClean
<1>2. ASSUME NEW j \in Jobs, processDownload(j) \/ CancelJob(j) \/ Expire(j), j # k
      PROVE  cooldown'[k] = 0
  BY <1>2, OthersUntouched DEF UntriedIsClean
<1>3. ASSUME processDownload(k) \/ CancelJob(k) \/ Expire(k) PROVE cooldown'[k] = 0
  <2> USE DEF TypeOK, UntriedIsClean, pass
  <2>1. CASE Attempt(k)
    BY <2>1 DEF Attempt
  <2>2. CASE AttemptsFailed(k)
    BY <2>2 DEF AttemptsFailed, observe
  <2>3. CASE concludeFailedAttempts(k)
    BY <2>3 DEF concludeFailedAttempts, Requeued
  <2>4. CASE ~(Attempt(k) \/ AttemptsFailed(k) \/ concludeFailedAttempts(k))
    BY <1>3, <2>4 DEF processDownload, CancelJob, Expire, Enter, parkForUpstreamBreak,
       parkForOpenCircuits, Poll, Select, Recheck, beginDownload, tryPrimary,
       handleCompleteEvent, RetryAttempt, runFallbackChain
  <2> QED
    BY <2>1, <2>2, <2>3, <2>4
<1> QED
  BY <1>1, <1>2, <1>3 DEF Next

(* A pass that is alive and has asked no backend.                           *)
Untried(j) == ctx[j] = "live" /\ ~tried[j]

(* The circuits as the pass of j found them, stage by stage: one that       *)
(* admits it is known from the second look to the end of the chain, among   *)
(* the services the job has not gone past.                                  *)
CircuitFound(j) ==
    /\ pc[j] \in {"begin", "primary"} => anyCandidateAllowed(j)
    /\ pc[j] = "chain" /\ Untried(j) =>
          candidateServices(j) = {} \/ \E i \in chain[j] : Admits(Fallbacks[i])
    /\ pc[j] = "conclude" /\ Untried(j) => candidateServices(j) = {}
    /\ pc[j] = "failed" /\ Untried(j) => lastErr[j] = "noDir" \/ candidateServices(j) = {}

(* RetryAfter and Allow agree on what a candidate is.                       *)
LEMMA CandidateAdmitted ==
    ASSUME TypeOK, NEW j \in Jobs
    PROVE  /\ candidateServices(j) \subseteq Services
           /\ anyCandidateAllowed(j) <=>
                candidateServices(j) = {} \/ \E s \in candidateServices(j) : Admits(s)
<1>1. candidateServices(j) \subseteq Services
  BY ChainAssumption DEF TypeOK, candidateServices, fallbackChain, Places
<1> QED
  BY <1>1, Views DEF TypeOK, ViewsAgree, anyCandidateAllowed, Available

(* With one slot, two holders are the same job.                             *)
LEMMA OneHolder ==
    ASSUME MaxConcurrent = 1, TypeOK, SlotsAccountedFor,
           NEW j \in Jobs, NEW k \in Jobs, pc[j] \in SlotPCs, pc[k] \in SlotPCs
    PROVE  j = k
<1>1. IsFiniteSet(SlotHolders) /\ Cardinality(SlotHolders) \in 0..1
  BY ChainAssumption, FS_Subset DEF SlotHolders, SlotsAccountedFor, TypeOK
<1>2. j \in SlotHolders /\ k \in SlotHolders
  BY DEF SlotHolders
<1>3. Cardinality(SlotHolders) # 0
  BY <1>1, <1>2, FS_EmptySet
<1>4. Cardinality(SlotHolders) = 1
  BY <1>1, <1>3
<1>5. PICK x : SlotHolders = {x}
  BY <1>1, <1>4, FS_Singleton
<1> QED
  BY <1>2, <1>5

(* While a job holds the only slot, no failure of another one reaches the   *)
(* breaker; its own are those of its attempts.                              *)
LEMMA CircuitsStayFound ==
    ASSUME MaxConcurrent = 1, TypeOK, SlotsAccountedFor, [Next]_vars,
           NEW k \in Jobs, pc[k] \in SlotPCs \ {"downloading"},
           NEW s \in Services, Admits(s)
    PROVE  Admits(s)'
<1>1. ~\E j \in Jobs : FailureRecorded(j)
  BY OneHolder DEF FailureRecorded, SlotPCs
<1> QED
  BY <1>1, ChainAndBreaker, RelentingAdmits DEF TypeOK

(* A job whose service does not change keeps its candidates, and with one   *)
(* slot also a circuit that admits it.                                      *)
LEMMA StillAllowed ==
    ASSUME MaxConcurrent = 1, TypeOK, TypeOK', SlotsAccountedFor, [Next]_vars,
           NEW k \in Jobs, pc[k] \in SlotPCs \ {"downloading"}, service'[k] = service[k]
    PROVE  /\ candidateServices(k)' = candidateServices(k)
           /\ anyCandidateAllowed(k) => anyCandidateAllowed(k)'
<1>1. candidateServices(k)' = candidateServices(k)
  BY DEF candidateServices, fallbackChain
<1>2. \A s \in Services : Admits(s)' => RetryAfter(s)' = 0
  BY BreakerAssumption DEF TypeOK, BreakerTypeOK, Admits, RetryAfter
<1>3. ASSUME anyCandidateAllowed(k) PROVE anyCandidateAllowed(k)'
  <2>1. CASE candidateServices(k) = {}
    BY <1>1, <2>1 DEF anyCandidateAllowed
  <2>2. ASSUME NEW s \in candidateServices(k), Admits(s) PROVE anyCandidateAllowed(k)'
    <3>1. s \in Services /\ Admits(s)'
      BY <2>2, CandidateAdmitted, CircuitsStayFound
    <3>2. RetryAfter(s)' = 0
      BY <1>2, <3>1
    <3> QED
      BY <1>1, <3>2 DEF anyCandidateAllowed, Available
  <2> QED
    BY <1>3, <2>1, <2>2, CandidateAdmitted
<1> QED
  BY <1>1, <1>3

(* Every step keeps what each job found.                                    *)
LEMMA CircuitFoundStep ==
    ASSUME MaxConcurrent = 1, TypeOK, TypeOK', SlotsAccountedFor, UntriedIsClean,
           [Next]_vars, NEW k \in Jobs, CircuitFound(k)
    PROVE  CircuitFound(k)'
<1>1. \A i \in Places : Fallbacks[i] \in Services
  BY ChainAssumption DEF Places
<1>2. chain[k] \subseteq Places /\ chain'[k] \subseteq Places
  BY DEF TypeOK
<1>3. ASSUME UNCHANGED <<pc[k], ctx[k], service[k], lastErr[k], tried[k], chain[k]>>
      PROVE  CircuitFound(k)'
  <2>1. candidateServices(k)' = candidateServices(k)
    BY <1>3 DEF candidateServices, fallbackChain
  <2>2. CASE pc[k] \in {"begin", "primary"}
    BY <1>3, <2>2, StillAllowed DEF CircuitFound, SlotPCs
  <2>3. CASE pc[k] = "chain"
    BY <1>1, <1>2, <1>3, <2>1, <2>3, CircuitsStayFound DEF CircuitFound, SlotPCs, Untried
  <2>4. CASE pc[k] \notin {"begin", "primary", "chain"}
    BY <1>3, <2>1, <2>4 DEF CircuitFound, Untried
  <2> QED
    BY <2>2, <2>3, <2>4
<1>4. CASE Tick \/ UNCHANGED vars
  BY <1>3, <1>4, TimeTouchesNoJob
<1>5. ASSUME NEW j \in Jobs, processDownload(j) \/ CancelJob(j) \/ Expire(j), j # k
      PROVE  CircuitFound(k)'
  BY <1>3, <1>5, OthersUntouched
<1>6. ASSUME processDownload(k) \/ CancelJob(k) \/ Expire(k) PROVE CircuitFound(k)'
  <2> USE DEF CircuitFound, TypeOK, Goto, pass
  <2>1. CASE CancelJob(k) \/ Expire(k)
    <3>1. pc'[k] = pc[k] /\ service'[k] = service[k] /\ ~Untried(k)'
      BY <2>1 DEF CancelJob, Expire, Untried
    <3> QED
      BY <3>1, StillAllowed DEF SlotPCs
  <2>2. CASE \/ Enter(k) \/ parkForUpstreamBreak(k) \/ parkForOpenCircuits(k)
             \/ Poll(k) \/ Select(k)
    <3>1. pc'[k] \in {"gate", "gone", "circuits", "select", "parked", "slot"}
      BY <2>2 DEF Enter, parkForUpstreamBreak, parkForOpenCircuits, EndPark, Poll, Select
    <3> QED
      BY <3>1
  <2>3. CASE Recheck(k)
    <3>1. CASE anyCandidateAllowed(k)
      <4>1. pc[k] = "slot" /\ pc'[k] = "begin" /\ service'[k] = service[k]
        BY <2>3, <3>1 DEF Recheck
      <4> QED
        BY <3>1, <4>1, StillAllowed DEF SlotPCs
    <3>2. CASE ~anyCandidateAllowed(k)
      BY <2>3, <3>2 DEF Recheck
    <3> QED
      BY <3>1, <3>2
  <2>4. CASE beginDownload(k)
    <3>1. pc[k] = "begin" /\ service'[k] = service[k]
      BY <2>4 DEF beginDownload
    <3>2. pc'[k] = "primary" \/ (pc'[k] = "failed" /\ lastErr'[k] = "noDir")
      BY <2>4 DEF beginDownload, failJob
    <3> QED
      BY <3>1, <3>2, StillAllowed DEF SlotPCs
  <2>5. CASE tryPrimary(k)
    <3>1. /\ pc[k] = "primary" /\ service'[k] = service[k]
          /\ chain'[k] = fallbackChain(service[k])
      BY <2>5 DEF tryPrimary
    <3>2. candidateServices(k)' = candidateServices(k)
      BY <3>1, StillAllowed DEF SlotPCs
    <3>3. CASE pc'[k] = "chain"
      <4>1. service[k] \notin Supported \/ ~Admits(service[k])
        BY <2>5, <3>3 DEF tryPrimary
      <4>2. candidateServices(k) = {} \/ \E s \in candidateServices(k) : Admits(s)
        BY <3>1, CandidateAdmitted
      <4>3. CASE candidateServices(k) = {}
        BY <3>2, <3>3, <4>3
      <4>4. ASSUME NEW s \in candidateServices(k), Admits(s) PROVE CircuitFound(k)'
        <5>1. PICK i \in fallbackChain(service[k]) : Fallbacks[i] = s
          BY <4>1, <4>4 DEF candidateServices
        <5>2. i \in chain'[k] /\ s \in Services
          BY <3>1, <5>1, <4>4, CandidateAdmitted
        <5>3. Admits(Fallbacks[i])'
          BY <3>1, <4>4, <5>1, <5>2, CircuitsStayFound DEF SlotPCs
        <5> QED
          BY <3>3, <5>2, <5>3
      <4> QED
        BY <4>2, <4>3, <4>4
    <3>4. CASE pc'[k] = "attempt"
      BY <3>4
    <3> QED
      BY <2>5, <3>3, <3>4 DEF tryPrimary
  <2>6. CASE Attempt(k)
    <3>1. pc'[k] = "downloading" \/ (pc'[k] = "chain" /\ ~Untried(k)')
      BY <2>6 DEF Attempt, Untried
    <3> QED
      BY <3>1
  <2>7. CASE handleCompleteEvent(k) \/ RetryAttempt(k)
    <3>1. pc'[k] \in {"completed", "attempt"}
      BY <2>7 DEF handleCompleteEvent, RetryAttempt
    <3> QED
      BY <3>1
  <2>8. CASE AttemptsFailed(k)
    <3>1. pc'[k] = "chain" /\ ~Untried(k)'
      BY <2>8 DEF AttemptsFailed, observe, Untried
    <3> QED
      BY <3>1
  <2>9. CASE runFallbackChain(k)
    <3>1. pc[k] = "chain" /\ ctx'[k] = ctx[k] /\ tried'[k] = tried[k]
      BY <2>9 DEF runFallbackChain
    <3>2. CASE ~Untried(k) /\ pc'[k] \in {"chain", "conclude"}
      BY <3>1, <3>2 DEF Untried
    <3>3. CASE pc'[k] = "attempt"
      BY <3>3
    <3>4. CASE Untried(k) /\ pc'[k] = "conclude"
      <4>1. service'[k] = service[k] /\ (chain[k] = {} \/ cooldown[k] > 0)
        BY <3>4 , <2>9 DEF runFallbackChain, tryFallback, Untried
      <4>2. chain[k] = {}
        BY <3>4, <4>1 DEF UntriedIsClean, Untried
      <4>3. candidateServices(k) = {}
        BY <3>1, <3>4, <4>2
      <4>4. candidateServices(k)' = {}
        BY <3>1, <4>1, <4>3, StillAllowed DEF SlotPCs
      <4> QED
        BY <3>4, <4>4
    <3>5. CASE Untried(k) /\ pc'[k] = "chain"
      <4>1. PICK i \in chain[k] : ~Admits(Fallbacks[i]) /\ chain'[k] = chain[k] \ {i}
        BY <2>9, <3>1, <3>5 DEF runFallbackChain, tryFallback
      <4>2. service'[k] = service[k]
        BY <2>9, <3>1, <3>5 DEF runFallbackChain, tryFallback
      <4>3. candidateServices(k)' = candidateServices(k)
        BY <3>1, <4>2, StillAllowed DEF SlotPCs
      <4>4. candidateServices(k) = {} \/ \E n \in chain'[k] : Admits(Fallbacks[n])
        BY <3>1, <3>5, <4>1
      <4>5. \A n \in chain'[k] : Admits(Fallbacks[n]) => Admits(Fallbacks[n])'
        BY <1>1, <1>2, <3>1, CircuitsStayFound DEF SlotPCs
      <4> QED
        BY <3>5, <4>3, <4>4, <4>5
    <3>6. pc'[k] \in {"chain", "conclude", "attempt"}
      BY <2>9 DEF runFallbackChain, tryFallback
    <3> QED
      BY <3>2, <3>3, <3>4, <3>5, <3>6
  <2>10. CASE concludeFailedAttempts(k)
    <3>1. CASE pc'[k] = "top"
      BY <3>1
    <3>2. CASE /\ pc'[k] = "failed"
               /\ UNCHANGED <<ctx, tried, lastErr, service>>
      <4>1. pc[k] = "conclude"
        BY <2>10 DEF concludeFailedAttempts
      <4>2. candidateServices(k)' = candidateServices(k)
        BY <3>2, <4>1, StillAllowed DEF SlotPCs
      <4>3. Untried(k)' => Untried(k)
        BY <3>2 DEF Untried
      <4> QED
        BY <3>2, <4>1, <4>2, <4>3
    <3> QED
      BY <2>10, <3>1, <3>2 DEF concludeFailedAttempts, Requeued, failJob
  <2> QED
    BY <1>6, <2>1, <2>2, <2>3, <2>4, <2>5, <2>6, <2>7, <2>8, <2>9, <2>10
       DEF processDownload
<1> QED
  BY <1>4, <1>5, <1>6 DEF Next

(* With SPF_MAX_CONCURRENT=1, the deployment the fix was made for, no       *)
(* sequence of parks, cancellations, timeouts and requeues of any number of *)
(* jobs lets an open circuit fail a job that no backend was asked about.    *)
THEOREM OpenCircuitFailsNoJob ==
    ASSUME MaxConcurrent = 1
    PROVE  Spec => []OpenCircuitNeverFails
<1> DEFINE Found == \A k \in Jobs : CircuitFound(k)
<1>1. Init => UntriedIsClean /\ Found
  BY DEF Init, UntriedIsClean, CircuitFound
<1>2. TypeOK /\ UntriedIsClean /\ [Next]_vars => UntriedIsClean'
  BY UntriedStep
<1>3. TypeOK /\ TypeOK' /\ SlotsAccountedFor /\ UntriedIsClean /\ Found /\ [Next]_vars
        => Found'
  BY CircuitFoundStep
<1>4. Found => OpenCircuitNeverFails
  BY DEF CircuitFound, OpenCircuitNeverFails, Untried
<1> HIDE DEF Found
<1> QED
  BY <1>1, <1>2, <1>3, <1>4, SlotsAlwaysAccounted, PTL DEF Spec

-----------------------------------------------------------------------------
(* The chain implements the contract of a pass.                             *)

Stage == [j \in Jobs |-> StageOf(pc[j])]

(* The contract counts with the same Cardinality.                           *)
LEMMA SameCardinality ==
    ASSUME NEW S
    PROVE  Contract!Cardinality(S) = Cardinality(S)
BY DEF Contract!Cardinality, Cardinality

(* The stage of every place.                                                *)
LEMMA Stages ==
    /\ \A p \in WaitingPCs : p \in PCs /\ StageOf(p) = "waiting"
    /\ "slot" \in PCs /\ StageOf("slot") = "waiting"
    /\ \A p \in SlotPCs \ {"slot"} : p \in PCs /\ StageOf(p) = "running"
    /\ \A p \in DonePCs : p \in PCs /\ StageOf(p) = p
<1>1. \A p \in WaitingPCs : p \in PCs /\ StageOf(p) = "waiting"
  BY DEF PCs, StageOf, WaitingPCs, SlotPCs
<1>2. "slot" \in PCs /\ StageOf("slot") = "waiting"
  BY DEF PCs, StageOf, WaitingPCs, SlotPCs
<1>3. \A p \in SlotPCs \ {"slot"} : p \in PCs /\ StageOf(p) = "running"
  BY DEF PCs, StageOf, WaitingPCs, SlotPCs
<1>4. \A p \in DonePCs : p \in PCs /\ StageOf(p) = p
  BY DEF PCs, StageOf, WaitingPCs, SlotPCs, DonePCs
<1> QED
  BY <1>1, <1>2, <1>3, <1>4

(* A job that moves within a stage, with its counter as it was, does        *)
(* nothing the contract can see.                                            *)
LEMMA StageKept ==
    ASSUME pc \in [Jobs -> PCs], NEW j \in Jobs, NEW to \in PCs,
           pc' = [pc EXCEPT ![j] = to], StageOf(to) = StageOf(pc[j])
    PROVE  Stage' = Stage
BY DEF Stage

(* A job that leaves its stage is all that moves.                           *)
LEMMA StageMoved ==
    ASSUME pc \in [Jobs -> PCs], NEW j \in Jobs, NEW to \in PCs,
           pc' = [pc EXCEPT ![j] = to]
    PROVE  Stage' = [Stage EXCEPT ![j] = StageOf(to)]
BY DEF Stage

(* A job that is told to begin leaves a slot for itself among the running   *)
(* ones: it holds one already.                                              *)
LEMMA RoomToRun ==
    ASSUME TypeOK, SlotsAccountedFor, NEW j \in Jobs, pc[j] = "slot"
    PROVE  Cardinality({k \in Jobs : Stage[k] = "running"}) < MaxConcurrent
<1> DEFINE R == {k \in Jobs : Stage[k] = "running"}
<1>1. /\ IsFiniteSet(SlotHolders) /\ Cardinality(SlotHolders) = sem
      /\ sem \in Nat /\ sem <= MaxConcurrent /\ MaxConcurrent \in Nat
  BY ChainAssumption, FS_Subset DEF SlotHolders, SlotsAccountedFor, TypeOK
<1>2. R \subseteq SlotHolders \ {j}
  BY DEF Stage, StageOf, SlotHolders, SlotPCs, WaitingPCs, DonePCs, TypeOK
<1>3. j \in SlotHolders
  BY DEF SlotHolders, SlotPCs
<1>4. /\ IsFiniteSet(SlotHolders \ {j})
      /\ Cardinality(SlotHolders \ {j}) = sem - 1
  BY <1>1, <1>3, FS_RemoveElement
<1> HIDE DEF R
<1>5. IsFiniteSet(R) /\ Cardinality(R) \in Nat /\ Cardinality(R) <= sem - 1
  BY <1>2, <1>4, FS_Subset, FS_CardinalityType
<1>6. Cardinality(R) < MaxConcurrent
  BY <1>1, <1>5
<1> QED
  BY <1>6 DEF R

(* Every step of a job is one of the contract's, or none.                   *)
LEMMA ChainStepsContract ==
    ASSUME TypeOK, SlotsAccountedFor, [Next]_vars
    PROVE  [Contract!Next]_<<Stage, requeues>>
<1>1. pc \in [Jobs -> PCs] /\ requeues \in [Jobs -> Nat]
  BY DEF TypeOK, PCs
<1>2. ASSUME pc' = pc, requeues' = requeues
      PROVE  UNCHANGED <<Stage, requeues>>
  BY <1>2 DEF Stage
<1>3. CASE Tick \/ UNCHANGED vars
  BY <1>2, <1>3 DEF Tick, vars
<1>4. ASSUME NEW j \in Jobs, CancelJob(j) \/ Expire(j)
      PROVE  UNCHANGED <<Stage, requeues>>
  BY <1>2, <1>4 DEF CancelJob, Expire
<1>5. ASSUME NEW j \in Jobs, NEW to \in PCs, pc' = [pc EXCEPT ![j] = to],
             requeues' = requeues, StageOf(to) = StageOf(pc[j])
      PROVE  UNCHANGED <<Stage, requeues>>
  BY <1>1, <1>5, StageKept
<1>6. ASSUME NEW j \in Jobs, processDownload(j)
      PROVE  Contract!Next \/ UNCHANGED <<Stage, requeues>>
  <2> USE DEF Goto, queue
  <2>1. CASE \/ parkForUpstreamBreak(j) \/ parkForOpenCircuits(j) \/ Poll(j)
             \/ tryPrimary(j) \/ Attempt(j) \/ RetryAttempt(j) \/ AttemptsFailed(j)
             \/ runFallbackChain(j)
    <3>1. requeues' = requeues
      BY <2>1 DEF parkForUpstreamBreak, parkForOpenCircuits, Poll, tryPrimary,
         Attempt, RetryAttempt, AttemptsFailed, runFallbackChain
    <3>2. CASE parkForUpstreamBreak(j) \/ parkForOpenCircuits(j) \/ Poll(j)
      <4>1. PICK to \in WaitingPCs : pc[j] \in WaitingPCs /\ pc' = [pc EXCEPT ![j] = to]
        BY <3>2 DEF parkForUpstreamBreak, parkForOpenCircuits, EndPark, Poll, WaitingPCs
      <4>2. to \in PCs /\ StageOf(to) = StageOf(pc[j])
        BY <4>1, Stages
      <4> QED
        BY <1>5, <3>1, <4>1, <4>2
    <3>3. CASE \/ tryPrimary(j) \/ Attempt(j) \/ RetryAttempt(j) \/ AttemptsFailed(j)
               \/ runFallbackChain(j)
      <4>1. \/ pc' = pc
            \/ \E to \in SlotPCs \ {"slot"} : /\ pc[j] \in SlotPCs \ {"slot"}
                                              /\ pc' = [pc EXCEPT ![j] = to]
        BY <3>3 DEF tryPrimary, Attempt, RetryAttempt, AttemptsFailed,
           runFallbackChain, tryFallback, SlotPCs
      <4>2. \A to \in SlotPCs \ {"slot"} : to \in PCs /\ StageOf(to) = "running"
        BY Stages
      <4> QED
        BY <1>2, <1>5, <3>1, <4>1, <4>2
    <3> QED
      BY <2>1, <3>2, <3>3
  <2>2. CASE Enter(j) \/ Select(j)
    <3>1. PICK to \in {"gate", "slot", "gone"} :
             pc[j] \in {"top", "select"} /\ pc' = [pc EXCEPT ![j] = to]
      BY <2>2 DEF Enter, Select
    <3>2. requeues' = requeues
      BY <2>2 DEF Enter, Select
    <3>3. to \in PCs /\ StageOf(pc[j]) = "waiting"
      BY <3>1, Stages DEF WaitingPCs, DonePCs
    <3>4. CASE to = "gone"
      <4>1. Stage[j] = "waiting"
        BY <3>3 DEF Stage
      <4>2. Stage' = [Stage EXCEPT ![j] = "gone"]
        <5>1. StageOf(to) = "gone"
          BY <3>4, Stages DEF DonePCs
        <5>2. Stage' = [Stage EXCEPT ![j] = StageOf(to)]
          BY <1>1, <3>1, <3>3, StageMoved
        <5> QED
          BY <5>1, <5>2
      <4>3. Contract!Leave(j)
        BY <3>2, <4>1, <4>2 DEF Contract!Leave, Stage
      <4> QED
        BY <4>3 DEF Contract!Next
    <3>5. CASE to # "gone"
      <4>1. StageOf(to) = "waiting"
        BY <3>1, <3>5, Stages DEF WaitingPCs
      <4> QED
        BY <1>5, <3>1, <3>2, <3>3, <4>1
    <3> QED
      BY <3>4, <3>5
  <2>3. CASE Recheck(j)
    <3>1. PICK to \in {"begin", "top"} : pc[j] = "slot" /\ pc' = [pc EXCEPT ![j] = to]
      BY <2>3 DEF Recheck
    <3>2. requeues' = requeues /\ to \in PCs
      BY <2>3, <3>1 DEF Recheck, PCs, WaitingPCs, SlotPCs
    <3>3. StageOf("slot") = "waiting" /\ StageOf("top") = "waiting"
      BY Stages DEF WaitingPCs
    <3>4. CASE to = "begin"
      <4>1. Stage[j] = "waiting"
        BY <3>1, <3>3 DEF Stage
      <4>2. Stage' = [Stage EXCEPT ![j] = "running"]
        <5>1. StageOf(to) = "running"
          BY <3>4, Stages DEF SlotPCs
        <5>2. Stage' = [Stage EXCEPT ![j] = StageOf(to)]
          BY <1>1, <3>1, <3>2, StageMoved
        <5> QED
          BY <5>1, <5>2
      <4>3. Cardinality({k \in Jobs : [i \in Jobs |-> StageOf(pc[i])][k] = "running"})
               < MaxConcurrent
        BY <3>1, RoomToRun DEF Stage
      <4>4. Contract!Start(j)
        BY <3>2, <4>1, <4>2, <4>3, SameCardinality DEF Contract!Start, Contract!Running, Stage
      <4> QED
        BY <4>4 DEF Contract!Next
    <3>5. CASE to = "top"
      BY <1>5, <3>1, <3>2, <3>3, <3>5
    <3> QED
      BY <3>4, <3>5
  <2>4. ASSUME NEW to \in {"completed", "failed"}, pc[j] \in SlotPCs \ {"slot"},
               pc' = [pc EXCEPT ![j] = to], requeues' = [requeues EXCEPT ![j] = 0]
        PROVE  Contract!Next
    <3>1. to \in PCs /\ StageOf(to) = to /\ Stage[j] = "running"
      BY <2>4, Stages DEF DonePCs, Stage
    <3>2. Stage' = [Stage EXCEPT ![j] = to]
      BY <1>1, <2>4, <3>1, StageMoved
    <3>3. Contract!Finish(j)
      BY <2>4, <3>1, <3>2 DEF Contract!Finish, Stage
    <3> QED
      BY <3>3 DEF Contract!Next
  <2>5. CASE beginDownload(j)
    <3>1. pc[j] = "begin" /\ "primary" \in PCs
      BY <2>5 DEF beginDownload, PCs, SlotPCs
    <3>2. CASE failJob(j)
      BY <2>4, <3>1, <3>2 DEF failJob, SlotPCs
    <3>3. CASE pc' = [pc EXCEPT ![j] = "primary"] /\ requeues' = requeues
      <4>1. StageOf("primary") = StageOf("begin")
        BY Stages DEF SlotPCs
      <4> QED
        BY <1>5, <3>1, <3>3, <4>1
    <3> QED
      BY <2>5, <3>2, <3>3 DEF beginDownload
  <2>6. CASE handleCompleteEvent(j)
    BY <2>4, <2>6 DEF handleCompleteEvent, SlotPCs
  <2>7. CASE concludeFailedAttempts(j)
    <3>1. pc[j] = "conclude"
      BY <2>7 DEF concludeFailedAttempts
    <3>2. CASE failJob(j)
      BY <2>4, <3>1, <3>2 DEF failJob, SlotPCs
    <3>3. ASSUME NEW n \in (requeues[j] + 1)..RequeueLimit, Requeued(j),
                 requeues' = [requeues EXCEPT ![j] = n]
          PROVE  Contract!Next
      <4>1. pc' = [pc EXCEPT ![j] = "top"] /\ "top" \in PCs
        BY <3>3, Stages DEF Requeued, WaitingPCs
      <4>2. Stage[j] = "running" /\ StageOf("top") = "waiting"
        BY <3>1, Stages DEF Stage, SlotPCs, WaitingPCs
      <4>3. Stage' = [Stage EXCEPT ![j] = "waiting"]
        BY <1>1, <4>1, <4>2, StageMoved
      <4>4. Contract!PutBack(j)
        BY <3>3, <4>2, <4>3 DEF Contract!PutBack, Stage
      <4> QED
        BY <4>4 DEF Contract!Next
    <3>4. /\ requeues[j] \in Nat /\ RequeueLimit \in Nat
          /\ MaxUnattempted \in Nat /\ MaxUnattempted <= RequeueLimit
          /\ MaxCooldowns \in Nat /\ MaxCooldowns <= RequeueLimit
      BY <1>1, ChainAssumption DEF RequeueLimit
    <3>5. \/ failJob(j)
          \/ Requeued(j) /\ \E n \in (requeues[j] + 1)..RequeueLimit :
                                requeues' = [requeues EXCEPT ![j] = n]
      BY <2>7, <3>4 DEF concludeFailedAttempts
    <3> QED
      BY <3>2, <3>3, <3>5
  <2> QED
    BY <1>6, <2>1, <2>2, <2>3, <2>5, <2>6, <2>7 DEF processDownload
<1> QED
  BY <1>3, <1>4, <1>6 DEF Next

(* processDownload does what the rest of the handler relies on: whatever    *)
(* the gate, the circuits and the fallbacks do, a job waits, runs in one of *)
(* MaxConcurrent slots, is put back at most RequeueLimit times in a row,    *)
(* and ends with exactly one outcome.                                       *)
THEOREM ChainMeetsContract == Spec => MeetsContract
<1>1. Init => Contract!Init
  <2>1. StageOf("top") = "waiting"
    BY Stages DEF WaitingPCs
  <2> QED
    BY <2>1 DEF Init, Contract!Init
<1>2. TypeOK /\ SlotsAccountedFor /\ [Next]_vars
        => [Contract!Next]_<<[j \in Jobs |-> StageOf(pc[j])], requeues>>
  BY ChainStepsContract DEF Stage
<1> QED
  BY <1>1, <1>2, SlotsAlwaysAccounted, PTL DEF Spec, MeetsContract, Contract!Spec
=============================================================================
