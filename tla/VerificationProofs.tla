------------------------- MODULE VerificationProofs -------------------------
(***************************************************************************)
(* The safety of community verification, for any number of challenges,      *)
(* browsers and stray requests, and under any settings.                     *)
(***************************************************************************)
EXTENDS Verification, TLAPS

(* The event of challenge c has left the parser, so it is recorded.         *)
Published(c) == reader[c] \in {"published", "shown", "lost"}

(* What is on record - for the relay, with the solver, in the store - has   *)
(* left the parser, and whatever is parsed was printed by a listening CLI.  *)
Announced ==
    /\ \A c \in Challenges : reader[c] # "none" => listener[c] # "off"
    /\ \A c \in states : Published(c)
    /\ \A c \in Challenges : fsl[c] # "off" => Published(c)
    /\ store.expectedCB # None => Published(store.expectedCB)

(* A published challenge is on record for the relay until its solver fails. *)
Recorded ==
    resolveRelayURL # "none" =>
        \A c \in Challenges : Published(c) /\ fsl[c] # "failed" => c \in states

(* A genuine request carries the callback and the state of its challenge;   *)
(* one that has matched or is forwarded goes to a listener that exists, and *)
(* a genuine one to its own.                                                *)
RequestOK(r) ==
    /\ r.grant # None => /\ resolveRelayURL # "none" /\ Published(r.grant)
                         /\ r.cb = r.grant /\ r.state = r.grant
    /\ r.at # "arrived" => /\ r.target \in Challenges /\ Published(r.target)
                           /\ r.grant # None => r.target = r.grant

Requested == \A b \in Browsers : handling[b] # NoRequest => RequestOK(handling[b])

(* The inductive invariant.  Announced gives every target a listener,       *)
(* Recorded makes a refusal the solver's fault.                             *)
RelayInv ==
    /\ TypeOK
    /\ Announced
    /\ Recorded
    /\ Requested
    /\ RefusedOnlyAfterSolverFailed

-----------------------------------------------------------------------------

(* A request being handled is a record of its own, an idle slot is not.     *)
LEMMA Handled ==
    ASSUME TypeOK, NEW b \in Browsers
    PROVE  /\ handling[b].via # "none" => handling[b] \in Requests
           /\ handling[b] # NoRequest => handling[b] \in Requests
           /\ handling[b] \in Requests => handling[b] # NoRequest
BY DEF TypeOK, Requests, NoRequest

(* The invariant holds before the first challenge.                          *)
LEMMA InitRelay == ASSUME Init PROVE RelayInv
<1> USE DEF Init
<1>1. TypeOK
  BY VerificationAssumption DEF TypeOK, Empty
<1>2. Announced
  BY DEF Announced, Empty
<1>3. Recorded /\ Requested /\ RefusedOnlyAfterSolverFailed
  BY DEF Recorded, Published, Requested, RefusedOnlyAfterSolverFailed
<1> QED
  BY <1>1, <1>2, <1>3 DEF RelayInv

-----------------------------------------------------------------------------
(* The actions, one lemma per group of actors.                              *)

Challenged(c) ==
    \/ Challenge(c) \/ CloseListener(c) \/ solveVerification(c)
    \/ HandleVerificationRequired(c) \/ LoseEvent(c) \/ fslRequest(c)

(* The CLI, the client, the job handler and the solver touch no request.    *)
LEMMA ChallengeSafe ==
    ASSUME RelayInv, NEW c \in Challenges, Challenged(c)
    PROVE  RelayInv'
<1> USE DEF RelayInv, Challenged
<1>1. TypeOK'
  BY VerificationAssumption DEF TypeOK, Challenge, CloseListener, solveVerification,
     HandleVerificationRequired, Set, LoseEvent, fslRequest
<1>2. \A d \in Challenges : Published(d) => Published(d)'
  BY DEF TypeOK, Announced, Published, Challenge, CloseListener, solveVerification,
     HandleVerificationRequired, LoseEvent, fslRequest
<1>3. Announced'
  BY <1>2, VerificationAssumption DEF TypeOK, Announced, Published, Challenge,
     CloseListener, solveVerification, HandleVerificationRequired, Set, LoseEvent,
     fslRequest
<1>4. Recorded'
  BY DEF TypeOK, Recorded, Published, resolveRelayURL, Challenge,
     CloseListener, solveVerification, HandleVerificationRequired, LoseEvent,
     fslRequest
<1>5. handling' = handling /\ config' = config /\ refused' = refused
  BY DEF Challenge, CloseListener, solveVerification, HandleVerificationRequired,
     LoseEvent, fslRequest
<1>6. Requested'
  BY <1>2, <1>5, Handled DEF Requested, RequestOK, Requests, resolveRelayURL
<1>7. RefusedOnlyAfterSolverFailed'
  BY <1>5 DEF TypeOK, Announced, Published, RefusedOnlyAfterSolverFailed, Challenge,
     CloseListener, solveVerification, HandleVerificationRequired, LoseEvent, fslRequest
<1> QED
  BY <1>1, <1>3, <1>4, <1>6, <1>7

(* A request arrives, from a browser that passed a challenge or from anyone.*)
LEMMA ArriveSafe ==
    ASSUME RelayInv, NEW b \in Browsers, NEW via \in {"callback", "relay"},
           NEW c \in Challenges \cup {None}, NEW cb \in Callbacks,
           NEW state \in Challenges \cup {None},
           Arrive(b, via, c, cb, state),
           c # None => /\ resolveRelayURL # "none" /\ Published(c)
                       /\ cb = c /\ state = c,
           UNCHANGED <<config, reader, states, fsl, refused>>
    PROVE  /\ handling' \in [Browsers -> Requests \cup {NoRequest}]
           /\ Requested'
<1> DEFINE r == [via |-> via, at |-> "arrived", grant |-> c, cb |-> cb,
                 state |-> state, target |-> None]
<1>1. r \in Requests /\ handling' = [handling EXCEPT ![b] = r]
  BY DEF Arrive, Requests
<1>2. handling \in [Browsers -> Requests \cup {NoRequest}]
  BY DEF RelayInv, TypeOK
<1>3. handling' \in [Browsers -> Requests \cup {NoRequest}]
  BY <1>1, <1>2 DEF RelayInv
<1>4. RequestOK(r)'
  BY DEF RequestOK, resolveRelayURL, Published
<1>5. \A d \in Browsers : d # b => handling'[d] = handling[d]
  BY <1>1, <1>2
<1>6. SUFFICES ASSUME NEW d \in Browsers, handling'[d] # NoRequest
               PROVE  RequestOK(handling[d])'
  BY <1>3 DEF Requested
<1>7. CASE d = b
  BY <1>1, <1>2, <1>4, <1>7 DEF RequestOK, Published, resolveRelayURL
<1>8. CASE d # b
  <2>1. RequestOK(handling[d]) /\ handling[d] \in Requests /\ handling'[d] = handling[d]
    BY <1>5, <1>6, <1>8, Handled DEF RelayInv, Requested
  <2> QED
    BY <2>1 DEF RequestOK, Published, resolveRelayURL
<1> QED
  BY <1>3, <1>7, <1>8

(* Challenges, records, the solver and the refusals are as they were.       *)
LEMMA OnlyRequestsMove ==
    ASSUME RelayInv, UNCHANGED <<config, reader, states, fsl>>,
           \A c \in Challenges : listener[c] # "off" => listener'[c] # "off",
           store'.expectedCB \in {None, store.expectedCB}
    PROVE  Announced' /\ Recorded'
<1>1. Announced'
  BY DEF RelayInv, Announced, Published
<1>2. Recorded'
  BY DEF RelayInv, Recorded, Published, resolveRelayURL
<1> QED
  BY <1>1, <1>2

(* A browser that is sent on brings a challenge that was announced.         *)
LEMMA PassSafe ==
    ASSUME RelayInv, NEW b \in Browsers, NEW c \in Challenges, PassChallenge(b, c)
    PROVE  RelayInv'
<1>1. Published(c)
  BY DEF PassChallenge, Solvers, RelayInv, Announced, Published
<1>2. handling' \in [Browsers -> Requests \cup {NoRequest}] /\ Requested'
  <2>1. CASE resolveRelayURL = "none"
    BY <2>1, Handled DEF PassChallenge, RelayInv, TypeOK, Requested, RequestOK, Published,
       resolveRelayURL
  <2>2. CASE resolveRelayURL # "none"
    <3>1. resolveRelayURL \in {"callback", "relay"} /\ c \in Callbacks /\ c # None
      BY <2>2, VerificationAssumption DEF RelayInv, TypeOK, resolveRelayURL, Callbacks
    <3> QED
      BY <1>1, <2>2, <3>1, ArriveSafe DEF PassChallenge
  <2> QED
    BY <2>1, <2>2
<1>3. TypeOK'
  BY <1>2 DEF RelayInv, TypeOK, PassChallenge, Solvers
<1>4. Announced' /\ Recorded'
  BY OnlyRequestsMove DEF PassChallenge, RelayInv, TypeOK
<1>5. RefusedOnlyAfterSolverFailed'
  BY DEF RelayInv, RefusedOnlyAfterSolverFailed, PassChallenge
<1> QED
  BY <1>2, <1>3, <1>4, <1>5 DEF RelayInv

(* A request out of nowhere brings what it likes.                           *)
LEMMA StraySafe ==
    ASSUME RelayInv, NEW b \in Browsers, NEW via \in {"callback", "relay"},
           NEW cb \in Callbacks, NEW state \in Challenges \cup {None},
           Stray(b, via, cb, state)
    PROVE  RelayInv'
<1>1. handling' \in [Browsers -> Requests \cup {NoRequest}] /\ Requested'
  BY ArriveSafe DEF Stray
<1>2. strays' \in 0..MaxStrays
  BY VerificationAssumption DEF Stray, RelayInv, TypeOK
<1>3. TypeOK'
  BY <1>1, <1>2 DEF RelayInv, TypeOK, Stray
<1>4. Announced' /\ Recorded'
  BY OnlyRequestsMove DEF Stray
<1>5. RefusedOnlyAfterSolverFailed'
  BY DEF RelayInv, RefusedOnlyAfterSolverFailed, Stray
<1> QED
  BY <1>1, <1>3, <1>4, <1>5 DEF RelayInv

(* A request that is done leaves the others as they are.                    *)
LEMMA RequestDone ==
    ASSUME RelayInv, NEW b \in Browsers, UNCHANGED <<config, reader>>, Done(b)
    PROVE  /\ handling' \in [Browsers -> Requests \cup {NoRequest}]
           /\ Requested'
<1>1. handling \in [Browsers -> Requests \cup {NoRequest}]
  BY DEF RelayInv, TypeOK
<1>2. handling' \in [Browsers -> Requests \cup {NoRequest}]
  BY <1>1 DEF Done
<1>3. SUFFICES ASSUME NEW d \in Browsers, handling'[d] # NoRequest
               PROVE  RequestOK(handling[d])'
  BY <1>2 DEF Requested
<1>4. handling'[d] = handling[d]
  BY <1>1, <1>3 DEF Done
<1>5. RequestOK(handling[d]) /\ handling[d] \in Requests
  BY <1>3, <1>4, Handled DEF RelayInv, Requested
<1> QED
  BY <1>4, <1>5 DEF RequestOK, Published, resolveRelayURL

(* A request moves from one stage to the next.                              *)
LEMMA RecordMoves ==
    ASSUME NEW r \in Requests, NEW pc \in {"matched", "forward"},
           NEW target \in Callbacks
    PROVE  [r EXCEPT !.at = pc, !.target = target] \in Requests
<1>1. PICK via \in {"callback", "relay"}, at \in {"arrived", "matched", "forward"},
           grant \in Challenges \cup {None}, cb \in Callbacks,
           state \in Challenges \cup {None}, old \in Callbacks \cup {None} :
         r = [via |-> via, at |-> at, grant |-> grant, cb |-> cb, state |-> state,
              target |-> old]
  BY DEF Requests
<1> QED
  BY <1>1 DEF Requests

(* A request that goes on keeps its type and its promise.                   *)
LEMMA RequestMoves ==
    ASSUME RelayInv, NEW b \in Browsers, handling[b] \in Requests,
           NEW pc \in {"matched", "forward"}, NEW target \in Challenges,
           UNCHANGED <<config, reader>>,
           Proceed(b, pc, target),
           Published(target),
           handling[b].grant # None => target = handling[b].grant
    PROVE  /\ handling' \in [Browsers -> Requests \cup {NoRequest}]
           /\ Requested'
<1>1. handling \in [Browsers -> Requests \cup {NoRequest}]
  BY DEF RelayInv, TypeOK
<1>2. handling' \in [Browsers -> Requests \cup {NoRequest}]
  <2>1. [handling[b] EXCEPT !.at = pc, !.target = target] \in Requests
    BY RecordMoves DEF Callbacks
  <2>2. handling' = [handling EXCEPT ![b] =
                         [handling[b] EXCEPT !.at = pc, !.target = target]]
    BY <1>1 DEF Proceed
  <2> QED
    BY <1>1, <2>1, <2>2
<1>3. SUFFICES ASSUME NEW d \in Browsers, handling'[d] # NoRequest
               PROVE  RequestOK(handling[d])'
  BY <1>2 DEF Requested
<1>4. CASE d = b
  <2>1. RequestOK(handling[b])
    BY Handled DEF RelayInv, Requested
  <2>2. /\ handling'[b].at = pc /\ handling'[b].target = target
        /\ handling'[b].grant = handling[b].grant /\ handling'[b].cb = handling[b].cb
        /\ handling'[b].state = handling[b].state
    BY <1>1 DEF Proceed, Requests
  <2> QED
    BY <1>4, <2>1, <2>2 DEF RequestOK, Published, resolveRelayURL
<1>5. CASE d # b
  <2>1. handling'[d] = handling[d]
    BY <1>1, <1>5 DEF Proceed
  <2>2. RequestOK(handling[d]) /\ handling[d] \in Requests
    BY <1>3, <2>1, Handled DEF RelayInv, Requested
  <2> QED
    BY <2>1, <2>2 DEF RequestOK, Published, resolveRelayURL
<1> QED
  BY <1>2, <1>4, <1>5

(* /verify/callback: a match names the pending challenge itself.            *)
LEMMA CallbackSafe ==
    ASSUME RelayInv, NEW b \in Browsers, ExpectedCB(b) \/ ClearPending(b)
    PROVE  RelayInv'
<1>1. handling[b] \in Requests /\ RequestOK(handling[b])
  BY Handled DEF ExpectedCB, ClearPending, RelayInv, Requested
<1>2. handling' \in [Browsers -> Requests \cup {NoRequest}] /\ Requested'
  <2>1. CASE ExpectedCB(b)
    <3>1. CASE Done(b)
      BY <2>1, <3>1, RequestDone DEF ExpectedCB
    <3>2. CASE ~Done(b)
      <4>1. /\ store.expectedCB # None /\ handling[b].cb = store.expectedCB
            /\ Proceed(b, "matched", store.expectedCB)
        BY <2>1, <3>2 DEF ExpectedCB
      <4>2. store.expectedCB \in Challenges /\ Published(store.expectedCB)
        BY <4>1 DEF RelayInv, TypeOK, Announced
      <4>3. handling[b].grant # None => store.expectedCB = handling[b].grant
        BY <1>1, <4>1 DEF RequestOK
      <4> QED
        BY <1>1, <2>1, <4>1, <4>2, <4>3, RequestMoves DEF ExpectedCB
    <3> QED
      BY <3>1, <3>2
  <2>2. CASE ClearPending(b)
    <3>1. handling[b].at = "matched" /\ Proceed(b, "forward", handling[b].target)
      BY <2>2 DEF ClearPending
    <3>2. /\ handling[b].target \in Challenges /\ Published(handling[b].target)
          /\ handling[b].grant # None => handling[b].target = handling[b].grant
      BY <1>1, <3>1 DEF RequestOK
    <3> QED
      BY <1>1, <2>2, <3>1, <3>2, RequestMoves DEF ClearPending
  <2> QED
    BY <2>1, <2>2
<1>3. UNCHANGED <<config, reader, listener, states, fsl, opened, strays, refused>>
  BY DEF ExpectedCB, ClearPending
<1>4. store' = store \/ store' = Empty
  BY DEF ExpectedCB, ClearPending, Clear
<1>5. TypeOK'
  BY <1>2, <1>3, <1>4 DEF RelayInv, TypeOK, Empty
<1>6. Announced' /\ Recorded'
  BY <1>3, <1>4, OnlyRequestsMove DEF Empty
<1>7. RefusedOnlyAfterSolverFailed'
  BY <1>3 DEF RelayInv, RefusedOnlyAfterSolverFailed
<1> QED
  BY <1>2, <1>5, <1>6, <1>7 DEF RelayInv

(* /api/verify-relay: a genuine request names its own state, which is on    *)
(* record unless the solver failed on it.                                   *)
LEMMA RelaySafe ==
    ASSUME RelayInv, NEW b \in Browsers, ResolveUpstream(b)
    PROVE  RelayInv'
<1> DEFINE r == handling[b]
           t == resolveUpstream(r)
<1>1. r \in Requests /\ RequestOK(r)
  BY Handled DEF ResolveUpstream, RelayInv, Requested
<1>2. UNCHANGED <<config, reader, listener, states, fsl, store, opened, strays>>
  BY DEF ResolveUpstream
<1>3. states \subseteq Challenges /\ \A c \in states : Published(c)
  BY DEF RelayInv, TypeOK, Announced
<1>4. t # None => t \in states
  BY DEF resolveUpstream, LookupUpstreamCB, IsRecordedUpstreamCB
<1>5. r.grant # None /\ t # None => t = r.grant
  BY <1>1 DEF RequestOK, resolveUpstream, LookupUpstreamCB, IsRecordedUpstreamCB
<1>6. r.grant # None /\ t = None => fsl[r.grant] = "failed"
  <2> SUFFICES ASSUME r.grant # None, t = None PROVE fsl[r.grant] = "failed"
    OBVIOUS
  <2>1. r.grant \in Challenges /\ r.state = r.grant /\ r.grant \notin states
    <3>1. r.grant \in Challenges /\ r.state = r.grant
      BY <1>1 DEF Requests, RequestOK
    <3>2. r.grant \in states => t = r.grant
      BY <3>1 DEF resolveUpstream, LookupUpstreamCB
    <3> QED
      BY <3>1, <3>2, VerificationAssumption
  <2> QED
    BY <1>1, <2>1 DEF RequestOK, RelayInv, Recorded
<1> HIDE DEF t
<1>7. CASE t # None
  <2>1. Proceed(b, "forward", t) /\ refused' = refused
    BY <1>7 DEF ResolveUpstream, t
  <2>2. handling' \in [Browsers -> Requests \cup {NoRequest}] /\ Requested'
    BY <1>1, <1>2, <1>3, <1>4, <1>5, <1>7, <2>1, RequestMoves
  <2>3. TypeOK'
    BY <1>2, <2>1, <2>2 DEF RelayInv, TypeOK
  <2>4. Announced' /\ Recorded'
    BY <1>2, OnlyRequestsMove
  <2>5. RefusedOnlyAfterSolverFailed'
    BY <1>2, <2>1 DEF RelayInv, RefusedOnlyAfterSolverFailed
  <2> QED
    BY <2>2, <2>3, <2>4, <2>5 DEF RelayInv
<1>8. CASE t = None
  <2>1. Done(b) /\ refused' = refused \cup ({r.grant} \ {None})
    BY <1>8 DEF ResolveUpstream, t
  <2>2. handling' \in [Browsers -> Requests \cup {NoRequest}] /\ Requested'
    BY <1>2, <2>1, RequestDone
  <2>3. TypeOK'
    BY <1>1, <1>2, <2>1, <2>2 DEF RelayInv, TypeOK, Requests
  <2>4. Announced' /\ Recorded'
    BY <1>2, OnlyRequestsMove
  <2>5. RefusedOnlyAfterSolverFailed'
    BY <1>2, <1>6, <1>8, <2>1 DEF RelayInv, RefusedOnlyAfterSolverFailed
  <2> QED
    BY <2>2, <2>3, <2>4, <2>5 DEF RelayInv
<1> QED
  BY <1>7, <1>8

(* The GET to the listener.                                                 *)
LEMMA ForwardSafe ==
    ASSUME RelayInv, NEW b \in Browsers, Forward(b)
    PROVE  RelayInv'
<1>1. handling' \in [Browsers -> Requests \cup {NoRequest}] /\ Requested'
  BY RequestDone DEF Forward
<1>2. TypeOK'
  BY <1>1 DEF RelayInv, TypeOK, Forward
<1>3. Announced' /\ Recorded'
  BY OnlyRequestsMove DEF Forward, RelayInv, TypeOK
<1>4. RefusedOnlyAfterSolverFailed'
  BY DEF RelayInv, RefusedOnlyAfterSolverFailed, Forward
<1> QED
  BY <1>1, <1>2, <1>3, <1>4 DEF RelayInv

-----------------------------------------------------------------------------

(* What the relay and the callback endpoint rely on holds in every          *)
(* reachable state.                                                         *)
THEOREM RelayInvariant == Spec => []RelayInv
<1>1. RelayInv /\ [Next]_vars => RelayInv'
  <2> SUFFICES ASSUME RelayInv, [Next]_vars PROVE RelayInv'
    OBVIOUS
  <2>1. ASSUME NEW c \in Challenges, Challenged(c) PROVE RelayInv'
    BY <2>1, ChallengeSafe
  <2>2. ASSUME NEW b \in Browsers,
               \E c \in Challenges : PassChallenge(b, c) \/ Stray(b, "relay", Elsewhere, c)
        PROVE  RelayInv'
    BY <2>2, PassSafe, StraySafe DEF Callbacks
  <2>3. ASSUME NEW b \in Browsers,
               \E via \in {"callback", "relay"}, cb \in Callbacks : Stray(b, via, cb, None)
        PROVE  RelayInv'
    BY <2>3, StraySafe
  <2>4. ASSUME NEW b \in Browsers,
               ExpectedCB(b) \/ ClearPending(b) \/ ResolveUpstream(b) \/ Forward(b)
        PROVE  RelayInv'
    BY <2>4, CallbackSafe, RelaySafe, ForwardSafe
  <2>5. CASE UNCHANGED vars
    BY <2>5 DEF vars, RelayInv, TypeOK, Announced, Recorded, Requested, RequestOK,
       Published, resolveRelayURL, RefusedOnlyAfterSolverFailed
  <2> QED
    BY <2>1, <2>2, <2>3, <2>4, <2>5 DEF Next, Challenged
<1> QED
  BY <1>1, InitRelay, PTL DEF Spec

(* Every variable keeps its type, and the two halves of the store always    *)
(* belong together.                                                         *)
THEOREM VerificationTypeCorrect == Spec => []TypeOK
<1>1. RelayInv => TypeOK
  BY DEF RelayInv
<1> QED
  BY <1>1, RelayInvariant, PTL

(* The two open endpoints contact no listener but those of our own CLIs,    *)
(* whatever anyone sends them.                                              *)
THEOREM OnlyAnnouncedListeners == Spec => []ForwardsOnlyToAnnounced
<1>1. RelayInv => ForwardsOnlyToAnnounced
  <2> SUFFICES ASSUME RelayInv, NEW b \in Browsers, Forwarding(b)
               PROVE  /\ handling[b].target \in Challenges
                      /\ listener[handling[b].target] # "off"
    BY DEF ForwardsOnlyToAnnounced
  <2>1. RequestOK(handling[b]) /\ handling[b].at = "forward"
    BY Handled DEF RelayInv, Requested, Forwarding
  <2> QED
    BY <2>1 DEF RequestOK, RelayInv, Announced, Published
<1> QED
  BY <1>1, RelayInvariant, PTL

(* No challenge is answered with the grant of another, however many are     *)
(* pending and in whatever order their callbacks are handled.               *)
THEOREM GrantsAreNotMixed == Spec => []GrantGoesToItsChallenge
<1>1. RelayInv => GrantGoesToItsChallenge
  <2> SUFFICES ASSUME RelayInv, NEW b \in Browsers, Forwarding(b),
                      handling[b].grant # None
               PROVE  handling[b].target = handling[b].grant
    BY DEF GrantGoesToItsChallenge
  <2>1. RequestOK(handling[b]) /\ handling[b].at = "forward"
    BY Handled DEF RelayInv, Requested, Forwarding
  <2> QED
    BY <2>1 DEF RequestOK
<1> QED
  BY <1>1, RelayInvariant, PTL

(* A genuine callback is turned away only where the solver failed first.    *)
THEOREM RefusalsAreTheSolvers == Spec => []RefusedOnlyAfterSolverFailed
<1>1. RelayInv => RefusedOnlyAfterSolverFailed
  BY DEF RelayInv
<1> QED
  BY <1>1, RelayInvariant, PTL
=============================================================================
