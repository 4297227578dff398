---------------------------- MODULE Verification ----------------------------
(***************************************************************************)
(* Community verification: a spotiflac-cli run that must prove it is not a *)
(* bot opens a local listener, prints a challenge and waits for a grant.   *)
(* The proxy records the listener (solveVerification, client.go), shows    *)
(* the challenge to the operator (verify.Store), may hand it to a headless *)
(* browser (fslRequest), and lets the grant back in through one of two     *)
(* endpoints: /verify/callback, which knows the one pending challenge      *)
(* (verify/handler.go), and /api/verify-relay, which knows every recorded  *)
(* one (verify_relay.go).                                                  *)
(*                                                                         *)
(* A challenge stands for the CLI run that made it, for its state          *)
(* parameter and for its callback URL.  Browsers, the headless solver and  *)
(* the CLI are the environment.                                            *)
(***************************************************************************)
EXTENDS Naturals, FiniteSets

CONSTANTS
    Challenges,
    None,       \* no challenge, no state
    Elsewhere,  \* a callback URL no CLI ever printed
    Browsers,   \* callback requests handled at a time
    Configs,    \* the settings to look at
    MaxStrays   \* requests of no browser of ours

ASSUME VerificationAssumption ==
    /\ {None, Elsewhere} \cap Challenges = {}
    /\ None # Elsewhere
    /\ Configs \subseteq [explicit : {"none", "relay", "callback"},
                          fsl : {"none", "remote", "local"}, address : BOOLEAN]
    /\ MaxStrays \in Nat

Callbacks == Challenges \cup {Elsewhere}

VARIABLES
    config,
    reader,    \* parseProgress at the line of the challenge
    listener,  \* the CLI's listener: "off", "open", "granted" or "gone"
    states,    \* Client.verificationStates
    fsl,       \* the goroutine that asks the headless solver
    store,     \* verify.Store
    opened,    \* who has opened the challenge in a browser
    handling,  \* the callback requests being handled
    strays,    \* stray requests so far
    refused    \* challenges whose own callback the relay refused

vars == <<config, reader, listener, states, fsl, store, opened, handling,
          strays, refused>>

(* Where a browser that passed the challenge is sent.                       *)
(* Client.resolveRelayURL: the operator's own URL first; a solver in our    *)
(* own network namespace needs none; otherwise the address, if there is one.*)
resolveRelayURL ==
    IF config.explicit # "none" THEN config.explicit
    ELSE IF config.fsl = "remote" /\ config.address THEN "relay" ELSE "none"

NoRequest == [via |-> "none"]
Empty == [url |-> None, expectedCB |-> None]

Init ==
    /\ config \in Configs
    /\ reader = [c \in Challenges |-> "none"]
    /\ listener = [c \in Challenges |-> "off"]
    /\ states = {}
    /\ fsl = [c \in Challenges |-> "off"]
    /\ store = Empty
    /\ opened = [c \in Challenges |-> {}]
    /\ handling = [b \in Browsers |-> NoRequest]
    /\ strays = 0
    /\ refused = {}

-----------------------------------------------------------------------------
(* The CLI.                                                                 *)

(* The CLI opens its listener and prints the challenge.                     *)
Challenge(c) ==
    /\ listener[c] = "off"
    /\ listener' = [listener EXCEPT ![c] = "open"]
    /\ reader' = [reader EXCEPT ![c] = "parsed"]
    /\ UNCHANGED <<config, states, fsl, store, opened, handling, strays, refused>>

(* The CLI gives up waiting or is killed.                                   *)
CloseListener(c) ==
    /\ listener[c] = "open"
    /\ listener' = [listener EXCEPT ![c] = "gone"]
    /\ UNCHANGED <<config, reader, states, fsl, store, opened, handling, strays, refused>>

-----------------------------------------------------------------------------
(* The client and the job handler.                                          *)

(* A bug: a challenge is recorded only for the headless solver.             *)
RecordForSolver(c) ==
    /\ reader[c] = "parsed"
    /\ reader' = [reader EXCEPT ![c] = "published"]
    /\ IF config.fsl = "none" THEN UNCHANGED <<states, fsl>>
       ELSE /\ states' = IF resolveRelayURL # "none" THEN states \cup {c} ELSE states
            /\ fsl' = [fsl EXCEPT ![c] = "asked"]
    /\ UNCHANGED <<config, listener, store, opened, handling, strays, refused>>

(* parseProgress calls onVerify and publishes the event when it returns.    *)
(* Only a challenge whose cb names a relay carries an upstream_cb to record.*)
solveVerification(c) ==
    /\ reader[c] = "parsed"
    /\ reader' = [reader EXCEPT ![c] = "published"]
    /\ states' = IF resolveRelayURL # "none" THEN states \cup {c} ELSE states
    /\ fsl' = IF config.fsl # "none" THEN [fsl EXCEPT ![c] = "asked"] ELSE fsl
    /\ UNCHANGED <<config, listener, store, opened, handling, strays, refused>>

Set(c) == store' = [url |-> c, expectedCB |-> c]

(* A bug: the link goes, the expectation stays.                             *)
ClearLink == store' = [store EXCEPT !.url = None]

Clear == store' = Empty

(* The handler takes the event, shows it and notifies the operator.         *)
HandleVerificationRequired(c) ==
    /\ reader[c] = "published"
    /\ reader' = [reader EXCEPT ![c] = "shown"]
    /\ Set(c)
    /\ UNCHANGED <<config, listener, states, fsl, opened, handling, strays, refused>>

(* The handler has left the event loop and nobody takes the event.          *)
LoseEvent(c) ==
    /\ reader[c] = "published"
    /\ reader' = [reader EXCEPT ![c] = "lost"]
    /\ UNCHANGED <<config, listener, states, fsl, store, opened, handling, strays, refused>>

(* A bug: the record goes with the solver's answer, whatever it was.        *)
ForgetWhenAnswered(c) ==
    /\ fsl[c] = "asked"
    /\ \E answer \in {"answered", "failed"} : fsl' = [fsl EXCEPT ![c] = answer]
    /\ states' = states \ {c}
    /\ UNCHANGED <<config, reader, listener, store, opened, handling, strays, refused>>

(* The solver answers, in time and with 200, or not.  It may have sent its  *)
(* browser to the callback in either case.                                  *)
fslRequest(c) ==
    /\ fsl[c] = "asked"
    /\ \/ /\ fsl' = [fsl EXCEPT ![c] = "answered"]
          /\ UNCHANGED states
       \/ /\ fsl' = [fsl EXCEPT ![c] = "failed"]
          /\ states' = states \ {c}
    /\ UNCHANGED <<config, reader, listener, store, opened, handling, strays, refused>>

-----------------------------------------------------------------------------
(* Callback requests.                                                       *)

Idle(b) == handling[b] = NoRequest

Arrive(b, via, c, cb, state) ==
    /\ Idle(b)
    /\ handling' = [handling EXCEPT ![b] =
           [via |-> via, at |-> "arrived", grant |-> c, cb |-> cb, state |-> state,
            target |-> None]]

(* Somebody who saw the challenge passes it in a browser: the headless      *)
(* solver, or the operator, from the notification or from mode=warnings.    *)
Solvers(c) ==
    (IF fsl[c] = "asked" THEN {"solver"} ELSE {})
        \cup (IF reader[c] = "shown" THEN {"operator"} ELSE {})

PassChallenge(b, c) ==
    /\ \E who \in Solvers(c) \ opened[c] :
           opened' = [opened EXCEPT ![c] = @ \cup {who}]
    /\ IF resolveRelayURL = "none"
       THEN \* The browser reaches the listener itself, or nothing at all.
            /\ listener' = IF config.fsl = "local" /\ listener[c] = "open"
                           THEN [listener EXCEPT ![c] = "granted"] ELSE listener
            /\ UNCHANGED handling
       ELSE /\ Arrive(b, resolveRelayURL, c, c, c)
            /\ UNCHANGED listener
    /\ UNCHANGED <<config, reader, states, fsl, store, strays, refused>>

(* Both endpoints are open to anyone.  The relay looks at the callback only *)
(* when it does not know the state, so a request has one or the other.      *)
Stray(b, via, cb, state) ==
    /\ strays < MaxStrays
    /\ strays' = strays + 1
    /\ Arrive(b, via, None, cb, state)
    /\ UNCHANGED <<config, reader, listener, states, fsl, store, opened, refused>>

Done(b) == handling' = [handling EXCEPT ![b] = NoRequest]
Proceed(b, pc, target) ==
    handling' = [handling EXCEPT ![b].at = pc, ![b].target = target]

(* handleCallback: only the exact callback of the pending challenge.        *)
ExpectedCB(b) ==
    /\ handling[b].via = "callback" /\ handling[b].at = "arrived"
    /\ IF store.expectedCB # None /\ handling[b].cb = store.expectedCB
       THEN Proceed(b, "matched", store.expectedCB)
       ELSE Done(b)
    /\ UNCHANGED <<config, reader, listener, states, fsl, store, opened, strays, refused>>

(* A bug: the target is looked up again when the slot is cleared.           *)
ClearAndForwardPending(b) ==
    /\ handling[b].via = "callback" /\ handling[b].at = "matched"
    /\ Clear
    /\ Proceed(b, "forward", store.expectedCB)
    /\ UNCHANGED <<config, reader, listener, states, fsl, opened, strays, refused>>

ClearPending(b) ==
    /\ handling[b].via = "callback" /\ handling[b].at = "matched"
    /\ Clear
    /\ Proceed(b, "forward", handling[b].target)
    /\ UNCHANGED <<config, reader, listener, states, fsl, opened, strays, refused>>

LookupUpstreamCB(state) == state \in states

(* A bug: any loopback callback will do.                                    *)
AnyCallback(cb) == TRUE

IsRecordedUpstreamCB(cb) == cb \in states

(* VerifyRelayHandler.resolveUpstream: the callback recorded for the state, *)
(* else the supplied one if it names a recorded listener.  Both loads look  *)
(* at one concurrent map and can be placed at one instant.                  *)
resolveUpstream(r) ==
    IF LookupUpstreamCB(r.state) THEN r.state
    ELSE IF IsRecordedUpstreamCB(r.cb) THEN r.cb ELSE None

ResolveUpstream(b) ==
    LET r == handling[b]
    IN  /\ r.via = "relay" /\ r.at = "arrived"
        /\ IF resolveUpstream(r) # None
           THEN /\ Proceed(b, "forward", resolveUpstream(r))
                /\ UNCHANGED refused
           ELSE /\ Done(b)
                /\ refused' = refused \cup ({r.grant} \ {None})
        /\ UNCHANGED <<config, reader, listener, states, fsl, store, opened, strays>>

Forwarding(b) == handling[b].via # "none" /\ handling[b].at = "forward"

(* The GET to the listener.  The CLI takes a grant only for its own state.  *)
Forward(b) ==
    LET r == handling[b]
        t == r.target
    IN  /\ Forwarding(b)
        /\ listener' = IF r.grant = t /\ listener[t] = "open"
                       THEN [listener EXCEPT ![t] = "granted"] ELSE listener
        /\ Done(b)
        /\ UNCHANGED <<config, reader, states, fsl, store, opened, strays, refused>>

-----------------------------------------------------------------------------
Next ==
    \/ \E c \in Challenges :
          \/ Challenge(c) \/ CloseListener(c)
          \/ solveVerification(c)
          \/ HandleVerificationRequired(c) \/ LoseEvent(c) \/ fslRequest(c)
    \/ \E b \in Browsers :
          \/ \E c \in Challenges : PassChallenge(b, c)
          \/ \E via \in {"callback", "relay"}, cb \in Callbacks : Stray(b, via, cb, None)
          \/ \E c \in Challenges : Stray(b, "relay", Elsewhere, c)
          \/ ExpectedCB(b) \/ ClearPending(b) \/ ResolveUpstream(b) \/ Forward(b)

Spec == Init /\ [][Next]_vars

(* Goroutines run, and the solver's request has a deadline.  Nobody has to  *)
(* pass a challenge, and the CLI may wait for ever.                         *)
FairSpec ==
    /\ Spec
    /\ \A c \in Challenges :
          WF_vars(solveVerification(c) \/ fslRequest(c))
    /\ \A b \in Browsers :
          WF_vars(ExpectedCB(b) \/ ClearPending(b) \/ ResolveUpstream(b) \/ Forward(b))

-----------------------------------------------------------------------------
Requests ==
    [via : {"callback", "relay"}, at : {"arrived", "matched", "forward"},
     grant : Challenges \cup {None}, cb : Callbacks, state : Challenges \cup {None},
     target : Callbacks \cup {None}]

(* The types, and that the two halves of the store belong together: the    *)
(* link shown is that of the callback expected.                             *)
TypeOK ==
    /\ config \in Configs
    /\ reader \in [Challenges -> {"none", "parsed", "published", "shown", "lost"}]
    /\ listener \in [Challenges -> {"off", "open", "granted", "gone"}]
    /\ states \subseteq Challenges
    /\ fsl \in [Challenges -> {"off", "asked", "answered", "failed"}]
    /\ store.url \in Challenges \cup {None} /\ store.expectedCB = store.url
    /\ opened \in [Challenges -> SUBSET {"solver", "operator"}]
    /\ handling \in [Browsers -> Requests \cup {NoRequest}]
    /\ strays \in 0..MaxStrays
    /\ refused \subseteq Challenges

(* Whatever a caller claims, the proxy contacts only listeners some CLI run *)
(* of its own has announced.                                                *)
ForwardsOnlyToAnnounced ==
    \A b \in Browsers : Forwarding(b) =>
        handling[b].target \in Challenges /\ listener[handling[b].target] # "off"

(* The grant of one challenge never goes to the listener of another, also   *)
(* when a newer challenge replaces the pending one while its callback is    *)
(* being handled.                                                           *)
GrantGoesToItsChallenge ==
    \A b \in Browsers : Forwarding(b) /\ handling[b].grant # None =>
        handling[b].target = handling[b].grant

(* A browser that really passed a challenge is refused by the relay only if *)
(* the headless solver has failed on that challenge: the callback is        *)
(* recorded before anyone can see the link, with or without a solver.       *)
RefusedOnlyAfterSolverFailed ==
    \A c \in refused : fsl[c] = "failed"

(* A challenge passed through the relay reaches the CLI that waits for it,  *)
(* unless the solver's failure took the record away.                        *)
PassedIsGranted ==
    \A c \in Challenges :
        opened[c] # {} /\ listener[c] = "open" /\ resolveRelayURL = "relay"
            ~> listener[c] \in {"granted", "gone"} \/ fsl[c] = "failed"
=============================================================================
