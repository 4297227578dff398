--------------------------- MODULE BreakerProofs ---------------------------
(***************************************************************************)
(* The agreement of Allow, RetryAfter and Status, for every set of         *)
(* services, threshold and cooldown.                                       *)
(***************************************************************************)
EXTENDS Breaker, TLAPS

(* No operation takes the counts out of their ranges.                       *)
LEMMA BreakerTypeStep ==
    ASSUME BreakerTypeOK, [BreakerNext]_breaker
    PROVE  BreakerTypeOK'
<1> USE BreakerAssumption DEF BreakerTypeOK
<1>1. ASSUME NEW s \in Services, Allow(s) PROVE BreakerTypeOK'
  BY <1>1 DEF Allow
<1>2. ASSUME NEW s \in Services, RecordFailure(s) PROVE BreakerTypeOK'
  BY <1>2 DEF RecordFailure
<1>3. ASSUME NEW s \in Services, Reset(s) PROVE BreakerTypeOK'
  BY <1>3 DEF Reset
<1>4. ASSUME NEW s \in Services, RecordSuccess(s) PROVE BreakerTypeOK'
  BY <1>4 DEF RecordSuccess
<1>5. CASE Age /\ UNCHANGED fails
  BY <1>5 DEF Age
<1>6. CASE UNCHANGED breaker
  BY <1>6 DEF breaker
<1> QED
  BY <1>1, <1>2, <1>3, <1>4, <1>5, <1>6 DEF BreakerNext

(* The counts stay in their ranges under any traffic.                       *)
THEOREM BreakerTypeCorrect == BreakerSpec => []BreakerTypeOK
<1>1. BreakerInit => BreakerTypeOK
  BY BreakerAssumption DEF BreakerInit, BreakerTypeOK
<1>2. BreakerTypeOK /\ [BreakerNext]_breaker => BreakerTypeOK'
  BY BreakerTypeStep
<1> QED
  BY <1>1, <1>2, PTL DEF BreakerSpec

(* While the counts are in their ranges, the three ways of asking agree.    *)
LEMMA Views ==
    ASSUME BreakerTypeOK
    PROVE  ViewsAgree
BY BreakerAssumption DEF BreakerTypeOK, ViewsAgree, RetryAfter, Admits, Open

(* parkForOpenCircuits waits on RetryAfter, the attempts ask Allow and the  *)
(* warnings show Status: in every reachable state the three agree.          *)
THEOREM ViewsAlwaysAgree == BreakerSpec => []ViewsAgree
<1>1. BreakerTypeOK => ViewsAgree
  BY Views
<1> QED
  BY <1>1, BreakerTypeCorrect, PTL

(* A failure that arrives after its circuit opened does not move openedAt:  *)
(* no step makes callers wait longer for a circuit that is already open.    *)
THEOREM CooldownNeverProlonged == BreakerSpec => NeverProlonged
<1>1. ASSUME BreakerTypeOK, [BreakerNext]_breaker, NEW s \in Services, Open(s)
      PROVE  RetryAfter(s)' <= RetryAfter(s)
  <2> USE BreakerAssumption, <1>1 DEF BreakerTypeOK, Open, RetryAfter
  <2>1. CASE UNCHANGED breaker
    BY <2>1 DEF breaker
  <2>2. ASSUME NEW t \in Services, Allow(t) PROVE RetryAfter(s)' <= RetryAfter(s)
    BY <2>2 DEF Allow, Admits
  <2>3. ASSUME NEW t \in Services, RecordFailure(t)
        PROVE  RetryAfter(s)' <= RetryAfter(s)
    BY <2>3 DEF RecordFailure
  <2>4. ASSUME NEW t \in Services, Reset(t) PROVE RetryAfter(s)' <= RetryAfter(s)
    BY <2>4 DEF Reset
  <2>5. ASSUME NEW t \in Services, RecordSuccess(t)
        PROVE  RetryAfter(s)' <= RetryAfter(s)
    BY <2>5 DEF RecordSuccess
  <2>6. CASE Age /\ UNCHANGED fails
    BY <2>6 DEF Age
  <2> QED
    BY <1>1, <2>1, <2>2, <2>3, <2>4, <2>5, <2>6 DEF BreakerNext
<1>2. BreakerTypeOK /\ [BreakerNext]_breaker
        => [\A s \in Services : Open(s) => RetryAfter(s)' <= RetryAfter(s)]_breaker
  BY <1>1
<1> QED
  BY <1>2, BreakerTypeCorrect, PTL DEF BreakerSpec, NeverProlonged
=============================================================================
