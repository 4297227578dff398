------------------------- MODULE AttemptStartProofs -------------------------
(***************************************************************************)
(* Theorems about the preparation of a job, for any number of workers and   *)
(* upstreams, every interval, deadline and session, and every answer of     *)
(* solvers and mirrors.                                                     *)
(***************************************************************************)
EXTENDS AttemptStart, WellFoundedInduction, TLAPS

-----------------------------------------------------------------------------
(* Session renewal.                                                         *)

Calls == {"off", "waiting", "solving", "returned"}
Solvers == {"off", "running", "orphaned"}

(* Whoever runs a solver, or waits for one, holds the mutex; and the stamp  *)
(* that the interval is measured from is that of the last solver started.   *)
RenewalInv ==
    /\ call \in [Workers -> Calls]
    /\ solver \in [Workers -> Solvers]
    /\ \A w \in Workers : call[w] = "solving" => renewMu = w
    /\ \A w \in Workers : solver[w] # "off" => renewMu = w
    /\ lastRenewAt = sinceSolver

(* What the renewal does in a step of the whole, apart from time.           *)
RenewalStep ==
    \/ \E w \in Workers :
          \/ CheckSession(w) \/ Renew(w) \/ FinishRenewal(w) \/ NextCall(w)
          \/ KillSolver(w) \/ SolverExits(w) \/ OrphanExits(w)
    \/ WriteSession

(* A step of the whole is one of these, or time, or leaves the renewal alone. *)
LEMMA NextIsRenewal ==
    ASSUME [Next]_vars
    PROVE  RenewalStep \/ RenewalTick \/ UNCHANGED renewalVars
<1>1. CASE UNCHANGED vars
  BY <1>1 DEF vars
<1>2. CASE \E w \in Workers : Ensure(w) \/ Deadline(w)
  BY <1>2 DEF Ensure, Deadline, EnsureCommunitySession, RenewalStep
<1>3. CASE \E w \in Workers : StartCLI(w) \/ UseAdapter(w) \/ Answer(w) \/ EndCLI(w)
  BY <1>3 DEF StartCLI, UseAdapter, Answer, EndCLI
<1>4. CASE Outside
  BY <1>4 DEF Outside, RenewalStep
<1>5. CASE Tick
  BY <1>5 DEF Tick
<1> QED
  BY <1>1, <1>2, <1>3, <1>4, <1>5 DEF Next

(* The invariant holds before the first call.                               *)
LEMMA RenewalInit0 == ASSUME RenewalInit PROVE RenewalInv
  BY DEF RenewalInit, RenewalInv, Calls, Solvers

(* Every step of a worker, of a solver and of the session file keeps it.    *)
LEMMA RenewalSafe ==
    ASSUME RenewalInv, RenewalStep PROVE RenewalInv'
<1> USE DEF RenewalInv, Calls, Solvers
<1>1. ASSUME NEW w \in Workers, CheckSession(w) PROVE RenewalInv'
  BY <1>1 DEF CheckSession, Return
<1>2. ASSUME NEW w \in Workers, Renew(w) PROVE RenewalInv'
  <2>1. \A v \in Workers : solver[v] = "off" /\ call[v] # "solving"
    BY <1>2, AgesAssumption DEF Renew
  <2> QED
    BY <1>2, <2>1 DEF Renew, Return, StartSolver
<1>3. ASSUME NEW w \in Workers, FinishRenewal(w) PROVE RenewalInv'
  <2>1. \A v \in Workers : solver[v] = "off" /\ (call[v] = "solving" => v = w)
    BY <1>3 DEF FinishRenewal
  <2> QED
    BY <1>3, <2>1 DEF FinishRenewal, Return
<1>4. ASSUME NEW w \in Workers, NextCall(w) PROVE RenewalInv'
  BY <1>4 DEF NextCall
<1>5. ASSUME NEW w \in Workers, KillSolver(w) \/ SolverExits(w) PROVE RenewalInv'
  BY <1>5 DEF KillSolver, SolverExits, EndShell
<1>6. ASSUME NEW w \in Workers, OrphanExits(w) PROVE RenewalInv'
  BY <1>6 DEF OrphanExits
<1>7. CASE WriteSession
  BY <1>7 DEF WriteSession
<1> QED
  BY <1>1, <1>2, <1>3, <1>4, <1>5, <1>6, <1>7 DEF RenewalStep

(* So does time.                                                            *)
LEMMA RenewalTime ==
    ASSUME RenewalInv, RenewalTick PROVE RenewalInv'
  BY DEF RenewalInv, RenewalTick

(* The invariant behind the two theorems below holds in every reachable     *)
(* state of EnsureCommunitySession.                                         *)
THEOREM RenewalInvariant == Spec => []RenewalInv
<1>1. Init => RenewalInv
  BY RenewalInit0 DEF Init
<1>2. RenewalInv /\ [Next]_vars => RenewalInv'
  <2> SUFFICES ASSUME RenewalInv, [Next]_vars PROVE RenewalInv'
    OBVIOUS
  <2>1. CASE UNCHANGED renewalVars
    BY <2>1 DEF RenewalInv, renewalVars
  <2> QED
    BY <2>1, NextIsRenewal, RenewalSafe, RenewalTime
<1> QED
  BY <1>1, <1>2, PTL DEF Spec

(* There is never more than one solver, whatever the deadline has killed    *)
(* and whatever it has left behind.                                         *)
THEOREM OneSolverAtATime == Spec => []OneSolver
<1>1. RenewalInv => OneSolver
  BY DEF RenewalInv, OneSolver
<1> QED
  BY <1>1, RenewalInvariant, PTL

(* A solver starts only if no usable session is in the store and the        *)
(* interval since the last one, of any worker, has passed.                  *)
THEOREM RenewalsAlwaysNeeded == Spec => RenewalsAreNeeded
<1> DEFINE Needed == \A w \in Workers : SolverStarts(w) =>
           /\ ~communitySessionValid
           /\ Past(sinceSolver, renewInterval)
<1>1. RenewalInv /\ [Next]_vars => [Needed]_renewalVars
  <2> SUFFICES ASSUME RenewalInv, [Next]_vars, NEW w \in Workers, SolverStarts(w),
                      ~UNCHANGED renewalVars
               PROVE  ~communitySessionValid /\ Past(sinceSolver, renewInterval)
    OBVIOUS
  <2>1. ASSUME RenewalTick PROVE FALSE
    BY <2>1 DEF RenewalTick, SolverStarts
  <2>2. ASSUME RenewalStep PROVE \E v \in Workers : Renew(v) /\ ~UNCHANGED solver
    BY <2>2 DEF RenewalStep, SolverStarts, RenewalInv, CheckSession, FinishRenewal,
       NextCall, KillSolver, SolverExits, OrphanExits, EndShell, WriteSession
  <2>3. PICK v \in Workers : Renew(v) /\ ~UNCHANGED solver
    BY <2>1, <2>2, NextIsRenewal
  <2> QED
    BY <2>3 DEF Renew, IntervalPassed, RenewalInv
<1> QED
  BY <1>1, RenewalInvariant, PTL DEF Spec, RenewalsAreNeeded

-----------------------------------------------------------------------------
(* The walk of the mirrors.                                                 *)

Fields == {"at", "i", "url", "kind"}

(* Whoever walks a list holds the mutex; and the verdict is as old as the   *)
(* last walk, also if it was that nothing works.                            *)
WalkInv ==
    /\ DOMAIN resolve = Workers
    /\ \A w \in Workers : DOMAIN resolve[w] = Fields
    /\ DOMAIN cache = {"url", "kind", "age"}
    /\ Listed => \A w \in Workers : At(w) \in {"root", "track"} => tidalMu = w
    /\ cache.age = sinceWalk

(* What the resolver does in a step of the whole, apart from time.          *)
ResolverStep ==
    \E w \in Workers :
        ResolveStart(w) \/ CheckCache(w) \/ ProbeAPI(w) \/ ProbeHiFiTrack(w)
            \/ GiveURL(w) \/ EndRun(w)

(* A step of the whole, as the resolver sees it.                            *)
LEMMA NextIsResolver ==
    ASSUME [Next]_vars
    PROVE  ResolverStep \/ ResolverTick \/ UNCHANGED resolverVars
<1>1. CASE UNCHANGED vars
  BY <1>1 DEF vars
<1>2. CASE \E w \in Workers : Ensure(w) \/ Deadline(w) \/ UseAdapter(w) \/ Answer(w)
  BY <1>2 DEF Ensure, Deadline, UseAdapter, Answer
<1>3. CASE \E w \in Workers : StartCLI(w) \/ EndCLI(w)
  BY <1>3 DEF StartCLI, resolveTidalAPIURL, EndCLI, ResolverStep
<1>4. CASE Outside
  BY <1>4 DEF Outside
<1>5. CASE Tick
  BY <1>5 DEF Tick
<1> QED
  BY <1>1, <1>2, <1>3, <1>4, <1>5 DEF Next

(* The invariant holds before the first run.                                *)
LEMMA WalkInit == ASSUME ResolverInit PROVE WalkInv
  BY DEF ResolverInit, WalkInv, NotResolving, Fields, At

(* Every step of a run keeps it.                                            *)
LEMMA WalkSafe ==
    ASSUME WalkInv, ResolverStep PROVE WalkInv'
<1> USE DEF WalkInv, Fields, At, Listed
<1>1. ASSUME NEW w \in Workers, ResolveStart(w) PROVE WalkInv'
  BY <1>1 DEF ResolveStart, Goto, Resolved
<1>2. ASSUME NEW w \in Workers, CheckCache(w) PROVE WalkInv'
  <2>1. CASE Fresh
    BY <1>2, <2>1 DEF CheckCache, Resolved
  <2>2. CASE ~Fresh
    <3>1. Listed => \A v \in Workers : At(v) \notin {"root", "track"}
      BY <1>2, AgesAssumption DEF CheckCache
    <3>2. DOMAIN cache' = {"url", "kind", "age"} /\ cache'.age = cache.age
      BY <1>2, <2>2 DEF CheckCache
    <3>3. DOMAIN resolve' = Workers /\ \A v \in Workers : DOMAIN resolve'[v] = Fields
      BY <1>2, <2>2 DEF CheckCache, Goto
    <3>4. tidalMu' = w /\ \A v \in Workers \ {w} : resolve'[v] = resolve[v]
      BY <1>2, <2>2 DEF CheckCache, Goto
    <3> QED
      BY <1>2, <3>1, <3>2, <3>3, <3>4 DEF CheckCache
  <2> QED
    BY <2>1, <2>2
<1>3. ASSUME NEW w \in Workers, ProbeAPI(w) PROVE WalkInv'
  BY <1>3 DEF ProbeAPI, Goto, Skip, Conclude, EndWalk, Resolved
<1>4. ASSUME NEW w \in Workers, ProbeHiFiTrack(w) PROVE WalkInv'
  BY <1>4 DEF ProbeHiFiTrack, Skip, Conclude, EndWalk, Resolved
<1>5. ASSUME NEW w \in Workers, GiveURL(w) PROVE WalkInv'
  BY <1>5 DEF GiveURL, Goto
<1>6. ASSUME NEW w \in Workers, EndRun(w) PROVE WalkInv'
  BY <1>6 DEF EndRun, NotResolving
<1> QED
  BY <1>1, <1>2, <1>3, <1>4, <1>5, <1>6 DEF ResolverStep

(* So does time.                                                            *)
LEMMA WalkTime ==
    ASSUME WalkInv, ResolverTick PROVE WalkInv'
  BY DEF WalkInv, ResolverTick, At, Listed

(* The invariant behind the theorem below holds in every reachable state.   *)
THEOREM WalkInvariant == Spec => []WalkInv
<1>1. Init => WalkInv
  BY WalkInit DEF Init
<1>2. WalkInv /\ [Next]_vars => WalkInv'
  <2> SUFFICES ASSUME WalkInv, [Next]_vars PROVE WalkInv'
    OBVIOUS
  <2>1. CASE UNCHANGED resolverVars
    BY <2>1 DEF WalkInv, resolverVars, At, Listed
  <2> QED
    BY <2>1, NextIsResolver, WalkSafe, WalkTime
<1> QED
  BY <1>1, <1>2, PTL DEF Spec

(* However many workers ask and whatever the mirrors answer, a list is      *)
(* walked once in cacheTTL, by one worker at a time.                        *)
THEOREM ListWalkedOncePerWindow == Spec => WalkedOncePerWindow
<1> DEFINE Once == \A w \in Workers : At(w) = "locking" /\ At(w)' = "root" =>
           /\ Past(sinceWalk, cacheTTL)
           /\ \A v \in Workers : Listed => At(v) \notin {"root", "track"}
<1>1. WalkInv /\ [Next]_vars => [Once]_resolverVars
  <2> SUFFICES ASSUME WalkInv, [Next]_vars, NEW w \in Workers, At(w) = "locking",
                      At(w)' = "root"
               PROVE  /\ Past(sinceWalk, cacheTTL)
                      /\ \A v \in Workers : Listed => At(v) \notin {"root", "track"}
    OBVIOUS
  <2>1. ASSUME ResolverTick \/ UNCHANGED resolverVars PROVE FALSE
    BY <2>1 DEF ResolverTick, resolverVars, At
  <2>2. PICK v \in Workers : ResolveStart(v) \/ CheckCache(v) \/ ProbeAPI(v)
                                 \/ ProbeHiFiTrack(v) \/ GiveURL(v) \/ EndRun(v)
    BY <2>1, NextIsResolver DEF ResolverStep
  <2>3. ASSUME v # w PROVE At(w)' = At(w)
    BY <2>2, <2>3 DEF ResolveStart, CheckCache, ProbeAPI, ProbeHiFiTrack, GiveURL,
       EndRun, Goto, Resolved, Skip, Conclude, EndWalk, WalkInv, At
  <2>4. CheckCache(w)
    BY <2>2, <2>3 DEF ResolveStart, ProbeAPI, ProbeHiFiTrack, GiveURL, EndRun,
       GivenPCs, At
  <2>5. ~Fresh /\ tidalMu = None
    BY <2>4 DEF CheckCache, Resolved, WalkInv, Fields, At
  <2> QED
    BY <2>5, AgesAssumption DEF Fresh, WalkInv
<1> QED
  BY <1>1, WalkInvariant, PTL DEF Spec, WalkedOncePerWindow

-----------------------------------------------------------------------------
(* Types.                                                                   *)

(* Every step of the renewal keeps its types.                               *)
LEMMA RenewalTypes ==
    ASSUME RenewalTypeOK, RenewalStep \/ RenewalTick \/ UNCHANGED renewalVars
    PROVE  RenewalTypeOK'
<1> USE RenewalAssumption, AgesAssumption DEF RenewalTypeOK
<1>1. ASSUME NEW w \in Workers, CheckSession(w) \/ NextCall(w) PROVE RenewalTypeOK'
  BY <1>1 DEF CheckSession, NextCall, Return
<1>2. ASSUME NEW w \in Workers, Renew(w) PROVE RenewalTypeOK'
  BY <1>2 DEF Renew, Return, StartSolver
<1>3. ASSUME NEW w \in Workers, FinishRenewal(w) PROVE RenewalTypeOK'
  BY <1>3 DEF FinishRenewal, Return
<1>4. ASSUME NEW w \in Workers, KillSolver(w) \/ SolverExits(w) \/ OrphanExits(w)
      PROVE  RenewalTypeOK'
  BY <1>4 DEF KillSolver, SolverExits, OrphanExits, EndShell
<1>5. CASE WriteSession
  BY <1>5 DEF WriteSession
<1>6. CASE RenewalTick
  <2>1. session' \in Nat
    BY <1>6 DEF RenewalTick
  <2>2. \A age, limit : limit \in Nat /\ age \in 0..limit \cup {Never} =>
            Older(age, limit) \in 0..limit \cup {Never}
    BY DEF Older
  <2>3. {lastRenewAt', sinceSolver'} \subseteq 0..renewInterval \cup {Never}
    BY <1>6, <2>2 DEF RenewalTick
  <2>4. \A w \in Workers : Older(solverAge[w], renewTimeout) \in 0..renewTimeout
    BY DEF Older
  <2>5. solverAge' \in [Workers -> 0..renewTimeout]
    BY <1>6, <2>4 DEF RenewalTick
  <2> QED
    BY <1>6, <2>1, <2>3, <2>5 DEF RenewalTick
<1>7. CASE UNCHANGED renewalVars
  BY <1>7 DEF renewalVars
<1> QED
  BY <1>1, <1>2, <1>3, <1>4, <1>5, <1>6, <1>7 DEF RenewalStep

(* What the adapters do in a step of the whole.                             *)
LEMMA NextIsAdapter ==
    ASSUME [Next]_vars
    PROVE  \/ \E w \in Workers : AskTrack(w) \/ answerTrack(w) \/ DropRequest(w)
           \/ AdapterTick
           \/ UNCHANGED adapterVars
<1>1. CASE UNCHANGED vars
  BY <1>1 DEF vars
<1>2. CASE \E w \in Workers : Ensure(w) \/ Deadline(w) \/ StartCLI(w)
  BY <1>2 DEF Ensure, Deadline, StartCLI
<1>3. CASE \E w \in Workers : UseAdapter(w) \/ Answer(w) \/ EndCLI(w)
  BY <1>3 DEF UseAdapter, Answer, EndCLI
<1>4. CASE Outside
  BY <1>4 DEF Outside
<1>5. CASE Tick
  BY <1>5 DEF Tick
<1> QED
  BY <1>1, <1>2, <1>3, <1>4, <1>5 DEF Next

(* Every step of an adapter keeps its types; a ticket is waited for at most *)
(* one poll longer than playbackQueueWait.                                  *)
LEMMA AdapterTypes == ASSUME AdapterTypeOK, [Next]_vars PROVE AdapterTypeOK'
<1> USE AdapterAssumption DEF AdapterTypeOK, RequestGoto
<1>1. ASSUME NEW w \in Workers, AskTrack(w) \/ DropRequest(w) PROVE AdapterTypeOK'
  BY <1>1 DEF AskTrack, DropRequest
<1>2. ASSUME NEW w \in Workers, ResolveTrackURL(w) PROVE AdapterTypeOK'
  BY <1>2 DEF ResolveTrackURL, decodeManifest
<1>3. ASSUME NEW w \in Workers, CheckQueueWait(w) PROVE AdapterTypeOK'
  BY <1>3 DEF CheckQueueWait
<1>4. ASSUME NEW w \in Workers, PollTicket(w) PROVE AdapterTypeOK'
  BY <1>4 DEF PollTicket, decodeManifest
<1>5. CASE AdapterTick
  BY <1>5 DEF AdapterTick
<1>6. CASE UNCHANGED adapterVars
  BY <1>6 DEF adapterVars
<1> QED
  BY <1>1, <1>2, <1>3, <1>4, <1>5, <1>6, NextIsAdapter DEF answerTrack

(* The candidates are upstreams, and are what was configured for good.      *)
LEMMA CandidatesKept ==
    ASSUME ResolverTypeOK
    PROVE  /\ candidates \in Seq(Upstreams)
           /\ Len(candidates) \in Nat
           /\ Listed => candidates # <<>>
           /\ \A i \in 1..Len(candidates) : candidates[i] \in Upstreams
           /\ [Next]_vars => UNCHANGED <<tidalAPI, tidalFallbacks, candidates, Listed>>
<1>1. tidalFallbacks \in Seq(Upstreams) /\ (tidalAPI # None => tidalAPI \in Upstreams)
  BY DEF ResolverTypeOK
<1>2. candidates \in Seq(Upstreams) /\ (Listed => candidates # <<>>)
  BY <1>1 DEF candidates, Listed
<1>3. ASSUME [Next]_vars PROVE UNCHANGED <<tidalAPI, tidalFallbacks>>
  BY <1>3, NextIsResolver DEF ResolverStep, ResolverTick, resolverVars, ResolveStart,
     CheckCache, ProbeAPI, ProbeHiFiTrack, GiveURL, EndRun
<1> HIDE DEF candidates
<1>4. Len(candidates) \in Nat /\ \A i \in 1..Len(candidates) : candidates[i] \in Upstreams
  BY <1>2
<1> QED
  BY <1>2, <1>3, <1>4 DEF candidates, Listed

(* Every step of the resolver keeps its types: an index never runs past the *)
(* candidates, and no upstream gets a second adapter.                       *)
InRange(r) ==
    /\ r.at \in {"locking", "root", "track"} => r.i <= Len(candidates)
    /\ r.at = "off" => r.i = 1

ResolverInv ==
    /\ ResolverTypeOK
    /\ \A w \in Workers : InRange(resolve[w])
    /\ \A u \in Upstreams \ hifiAdapters : listeners[u] = 0

Resolutions ==
    [at : {"off", "locking", "root", "track", "resolved"} \cup GivenPCs,
     i : 1..(Len(candidates) + 1),
     url : Upstreams \cup {None}, kind : Kinds]

(* What is left to show of a step of one worker.                            *)
LEMMA ResolverTypes ==
    ASSUME ResolverInv, [Next]_vars PROVE ResolverInv'
<1>1. /\ UNCHANGED <<tidalAPI, tidalFallbacks, candidates, Listed>>
      /\ Len(candidates) \in Nat
      /\ \A i \in 1..Len(candidates) : candidates[i] \in Upstreams
      /\ Listed => candidates # <<>>
  BY CandidatesKept DEF ResolverInv
<1>2. resolve \in [Workers -> Resolutions]
  BY DEF ResolverInv, ResolverTypeOK, Resolutions
<1>3. candidates # <<>> => 1 <= Len(candidates)
  <2>1. candidates \in Seq(Upstreams)
    BY CandidatesKept DEF ResolverInv
  <2> HIDE DEF candidates
  <2> QED
    BY <2>1
<1> USE DEF At
<1>4. ASSUME NEW w \in Workers, NEW r \in Resolutions, resolve' = [resolve EXCEPT ![w] = r],
             InRange(r)
      PROVE  /\ resolve' \in [Workers -> Resolutions] /\ Resolutions' = Resolutions
             /\ \A v \in Workers : InRange(resolve'[v])
  <2>1. Resolutions' = Resolutions
    BY <1>1 DEF Resolutions
  <2>2. resolve' \in [Workers -> Resolutions]
    BY <1>2, <1>4
  <2>3. ASSUME NEW v \in Workers PROVE InRange(resolve'[v])
    BY <1>2, <1>4, <2>3 DEF ResolverInv
  <2> QED
    BY <2>1, <2>2, <2>3
<1>5. ASSUME NEW w \in Workers, NEW url \in Upstreams \cup {None}, NEW kind \in Kinds,
             Resolved(w, url, kind)
      PROVE  \E r \in Resolutions : InRange(r) /\ resolve' = [resolve EXCEPT ![w] = r]
  <2> DEFINE r == [at |-> "resolved", i |-> 1, url |-> url, kind |-> kind]
  <2>1. r \in Resolutions /\ InRange(r)
    BY <1>1 DEF Resolutions, InRange
  <2>2. resolve' = [resolve EXCEPT ![w] = r]
    BY <1>5 DEF Resolved
  <2> QED
    BY <2>1, <2>2
<1>6. ASSUME NEW w \in Workers, NEW pc \in {"locking", "root", "track"} \cup GivenPCs, Goto(w, pc),
             pc \in {"locking", "root", "track"} => resolve[w].i <= Len(candidates)
      PROVE  \E r \in Resolutions : InRange(r) /\ resolve' = [resolve EXCEPT ![w] = r]
  <2> DEFINE r == [resolve[w] EXCEPT !.at = pc]
  <2>1. r \in Resolutions /\ r.at = pc /\ r.i = resolve[w].i
    BY <1>2 DEF Resolutions
  <2>2. resolve' = [resolve EXCEPT ![w] = r]
    BY <1>2, <1>6 DEF Goto, Resolutions
  <2>3. InRange(r)
    BY <1>6, <2>1 DEF InRange, GivenPCs
  <2> QED
    BY <2>1, <2>2, <2>3
<1> DEFINE Moved(w) ==
               \E r \in Resolutions : InRange(r) /\ resolve' = [resolve EXCEPT ![w] = r]
           CacheOK == cache' \in [url : Upstreams \cup {None}, kind : Kinds,
                                  age : 0..cacheTTL \cup {Never}]
           RestOK == /\ tidalMu' \in Workers \cup {None} /\ CacheOK
                     /\ sinceWalk' \in 0..cacheTTL \cup {Never}
<1>7. CacheOK <=> cache' \in [url : Upstreams \cup {None}, kind : Kinds,
                              age : 0..cacheTTL \cup {Never}]
  OBVIOUS
<1>8. ASSUME NEW w \in Workers, NEW url \in Upstreams \cup {None}, NEW kind \in Kinds,
             Conclude(w, url, kind)
      PROVE  Moved(w) /\ RestOK
  <2>1. Resolved(w, url, kind)
    BY <1>8 DEF Conclude, EndWalk
  <2>2. RestOK
    <3>1. CASE Listed
      BY <1>8, <3>1, ResolverAssumption DEF Conclude, EndWalk
    <3>2. CASE ~Listed
      BY <1>8, <3>2 DEF Conclude, ResolverInv, ResolverTypeOK
    <3> QED
      BY <3>1, <3>2
  <2> QED
    BY <1>5, <2>1, <2>2
<1>9. ASSUME NEW w \in Workers, At(w) \in {"root", "track"}, Skip(w) PROVE Moved(w) /\ RestOK
  <2>1. CASE resolve[w].i < Len(candidates)
    <3> DEFINE r == [resolve[w] EXCEPT !.i = @ + 1, !.at = "root"]
    <3>1. r \in Resolutions /\ InRange(r)
      <4>1. /\ resolve[w] \in Resolutions /\ resolve[w].i \in Nat
            /\ resolve[w].i + 1 \in 1..(Len(candidates) + 1)
            /\ resolve[w].i + 1 <= Len(candidates)
        BY <1>1, <1>2, <2>1 DEF Resolutions
      <4> QED
        BY <4>1 DEF Resolutions, InRange
    <3>2. resolve' = [resolve EXCEPT ![w] = r]
      BY <1>2, <1>9, <2>1 DEF Skip, Resolutions
    <3>3. RestOK
      BY <1>9, <2>1 DEF Skip, ResolverInv, ResolverTypeOK
    <3> QED
      BY <3>1, <3>2, <3>3
  <2>2. CASE Conclude(w, None, "apiDead")
    BY <1>8, <2>2 DEF Kinds
  <2> QED
    BY <1>9, <2>1, <2>2 DEF Skip
<1>10. ASSUME NEW w \in Workers, At(w) \in {"root", "track"}
       PROVE  /\ resolve[w].i \in 1..Len(candidates) /\ Candidate(w) \in Upstreams
              /\ \A kind \in Kinds :
                    Answered(Candidate(w), kind) => walk' \in [Upstreams -> Kinds \cup {"unasked"}]
  <2>1. resolve[w].i \in 1..Len(candidates)
    BY <1>1, <1>2, <1>10 DEF ResolverInv, InRange, Resolutions
  <2>2. Candidate(w) \in Upstreams
    BY <1>1, <2>1 DEF Candidate
  <2>3. walk \in [Upstreams -> Kinds \cup {"unasked"}]
    BY DEF ResolverInv, ResolverTypeOK
  <2> QED
    BY <2>1, <2>2, <2>3 DEF Answered
<1>11. ASSUME NEW w \in Workers, Moved(w), RestOK, walk' \in [Upstreams -> Kinds \cup {"unasked"}],
              hifiAdapters' \subseteq Upstreams, listeners' \in [Upstreams -> 0..1],
              \A u \in Upstreams \ hifiAdapters' : listeners'[u] = 0
       PROVE  ResolverInv'
  <2>1. PICK r \in Resolutions : InRange(r) /\ resolve' = [resolve EXCEPT ![w] = r]
    BY <1>11
  <2>2. resolve' \in [Workers -> Resolutions'] /\ \A v \in Workers : InRange(resolve'[v])
    BY <1>4, <2>1
  <2>3. \A v \in Workers : InRange(resolve[v])'
    BY <1>1, <2>2 DEF InRange
  <2>4. ResolverTypeOK'
    BY <1>1, <1>11, <2>2 DEF ResolverInv, ResolverTypeOK, Resolutions
  <2> QED
    BY <1>11, <2>3, <2>4 DEF ResolverInv
<1>12. ASSUME UNCHANGED <<hifiAdapters, listeners>>
       PROVE  /\ hifiAdapters' \subseteq Upstreams /\ listeners' \in [Upstreams -> 0..1]
              /\ \A u \in Upstreams \ hifiAdapters' : listeners'[u] = 0
  BY <1>12 DEF ResolverInv, ResolverTypeOK
<1>13. ASSUME UNCHANGED <<tidalMu, cache, sinceWalk>> PROVE RestOK
  BY <1>13 DEF ResolverInv, ResolverTypeOK
<1>14. ASSUME UNCHANGED walk PROVE walk' \in [Upstreams -> Kinds \cup {"unasked"}]
  BY <1>14 DEF ResolverInv, ResolverTypeOK
<1> HIDE DEF Moved, RestOK, CacheOK
<1>15. ASSUME NEW w \in Workers, ResolveStart(w) PROVE ResolverInv'
  <2>1. Moved(w)
    <3>1. CASE Resolved(w, None, "apiDead")
      BY <1>5, <3>1 DEF Kinds, Moved
    <3>2. CASE candidates # <<>> /\ (Goto(w, "locking") \/ Goto(w, "root"))
      <4>1. resolve[w].i <= Len(candidates)
        BY <1>3, <1>15, <3>2 DEF ResolveStart, ResolverInv, InRange
      <4> QED
        BY <1>6, <3>2, <4>1 DEF Moved
    <3> QED
      BY <1>15, <3>1, <3>2 DEF ResolveStart
  <2>2. UNCHANGED <<tidalMu, cache, hifiAdapters, listeners, walk, sinceWalk>>
    BY <1>15 DEF ResolveStart
  <2> QED
    BY <1>11, <1>12, <1>13, <1>14, <2>1, <2>2
<1>16. ASSUME NEW w \in Workers, CheckCache(w) PROVE ResolverInv'
  <2>1. CASE Fresh
    <3>1. cache.url \in Upstreams \cup {None} /\ cache.kind \in Kinds
      BY DEF ResolverInv, ResolverTypeOK
    <3>2. Moved(w)
      BY <1>5, <1>16, <2>1, <3>1 DEF CheckCache, Moved
    <3>3. UNCHANGED <<tidalMu, cache, hifiAdapters, listeners, walk, sinceWalk>>
      BY <1>16, <2>1 DEF CheckCache
    <3> QED
      BY <1>11, <1>12, <1>13, <1>14, <3>2, <3>3
  <2>2. CASE ~Fresh
    <3>1. Moved(w)
      <4>1. resolve[w].i <= Len(candidates) /\ Goto(w, "root")
        BY <1>16, <2>2 DEF CheckCache, ResolverInv, InRange
      <4> QED
        BY <1>6, <4>1 DEF Moved
    <3>2. RestOK
      <4>1. /\ cache \in [url : Upstreams \cup {None}, kind : Kinds,
                          age : 0..cacheTTL \cup {Never}]
            /\ sinceWalk \in 0..cacheTTL \cup {Never}
        BY DEF ResolverInv, ResolverTypeOK
      <4>2. /\ tidalMu' = w /\ sinceWalk' = sinceWalk
            /\ cache' = [cache EXCEPT !.url = None, !.kind = "apiDead"]
        BY <1>16, <2>2 DEF CheckCache
      <4>3. CacheOK
        BY <4>1, <4>2 DEF CacheOK, Kinds
      <4> QED
        BY <4>1, <4>2, <4>3 DEF RestOK
    <3>3. walk' \in [Upstreams -> Kinds \cup {"unasked"}]
      BY <1>16, <2>2 DEF CheckCache, NoAnswer
    <3>4. UNCHANGED <<hifiAdapters, listeners>>
      BY <1>16 DEF CheckCache
    <3> QED
      BY <1>11, <1>12, <3>1, <3>2, <3>3, <3>4
  <2> QED
    BY <2>1, <2>2
<1>17. ASSUME NEW w \in Workers, ProbeAPI(w) PROVE ResolverInv'
  <2>1. PICK kind \in Kinds :
           /\ Answered(Candidate(w), kind)
           /\ \/ Goto(w, "track") /\ UNCHANGED <<tidalMu, cache, sinceWalk>>
              \/ Skip(w)
              \/ Conclude(w, Candidate(w), kind)
    BY <1>17 DEF ProbeAPI
  <2>2. At(w) = "root" /\ UNCHANGED <<hifiAdapters, listeners>>
    BY <1>17 DEF ProbeAPI
  <2>3. walk' \in [Upstreams -> Kinds \cup {"unasked"}]
    BY <1>10, <2>1, <2>2
  <2>4. Moved(w) /\ RestOK
    <3>1. CASE Goto(w, "track") /\ UNCHANGED <<tidalMu, cache, sinceWalk>>
      <4>1. resolve[w].i <= Len(candidates)
        BY <1>10, <2>2
      <4> QED
        BY <1>6, <1>13, <3>1, <4>1 DEF Moved
    <3>2. CASE Skip(w)
      BY <1>9, <2>2, <3>2
    <3>3. CASE Conclude(w, Candidate(w), kind)
      BY <1>8, <1>10, <2>2, <3>3
    <3> QED
      BY <2>1, <3>1, <3>2, <3>3
  <2> QED
    BY <1>11, <1>12, <2>2, <2>3, <2>4
<1>18. ASSUME NEW w \in Workers, ProbeHiFiTrack(w) PROVE ResolverInv'
  <2>1. At(w) = "track" /\ UNCHANGED <<hifiAdapters, listeners>>
    BY <1>18 DEF ProbeHiFiTrack
  <2>2. walk' \in [Upstreams -> Kinds \cup {"unasked"}]
    BY <1>10, <1>18, <2>1 DEF ProbeHiFiTrack, Kinds
  <2>3. Moved(w) /\ RestOK
    <3>1. CASE Skip(w)
      BY <1>9, <2>1, <3>1
    <3>2. CASE Conclude(w, Candidate(w), "apiHiFi")
      BY <1>8, <1>10, <2>1, <3>2 DEF Kinds
    <3> QED
      BY <1>18, <3>1, <3>2 DEF ProbeHiFiTrack
  <2> QED
    BY <1>11, <1>12, <2>1, <2>2, <2>3
<1>19. ASSUME NEW w \in Workers, GiveURL(w) PROVE ResolverInv'
  <2>1. \E pc \in GivenPCs : Goto(w, pc)
    BY <1>19 DEF GiveURL, GivenPCs
  <2>2. Moved(w)
    <3>1. PICK pc \in GivenPCs : Goto(w, pc)
      BY <2>1
    <3>2. pc \notin {"locking", "root", "track"}
      BY DEF GivenPCs
    <3> QED
      BY <1>6, <3>1, <3>2 DEF Moved
  <2>3. UNCHANGED <<tidalMu, cache, walk, sinceWalk>>
    BY <1>19 DEF GiveURL
  <2>4. /\ hifiAdapters' \subseteq Upstreams /\ listeners' \in [Upstreams -> 0..1]
        /\ \A u \in Upstreams \ hifiAdapters' : listeners'[u] = 0
    <3>1. CASE UNCHANGED <<hifiAdapters, listeners>>
      BY <1>12, <3>1
    <3>2. CASE resolve[w].url \notin hifiAdapters /\ resolve[w].url # None
               /\ StartAdapter(resolve[w].url)
      <4> DEFINE u == resolve[w].url
      <4>1. u \in Upstreams /\ listeners[u] = 0
        BY <1>2, <3>2 DEF Resolutions, ResolverInv
      <4>2. listeners' = [listeners EXCEPT ![u] = 0 + 1] /\ hifiAdapters' = hifiAdapters \cup {u}
        BY <3>2, <4>1 DEF StartAdapter
      <4> QED
        BY <4>1, <4>2 DEF ResolverInv, ResolverTypeOK
    <3> QED
      BY <1>19, <3>1, <3>2 DEF GiveURL
  <2> QED
    BY <1>11, <1>13, <1>14, <2>2, <2>3, <2>4
<1>20. ASSUME NEW w \in Workers, EndRun(w) PROVE ResolverInv'
  <2>1. NotResolving \in Resolutions /\ InRange(NotResolving)
    BY <1>1 DEF NotResolving, Resolutions, InRange, Kinds
  <2>2. Moved(w)
    BY <1>20, <2>1 DEF EndRun, Moved
  <2>3. UNCHANGED <<tidalMu, cache, hifiAdapters, listeners, walk, sinceWalk>>
    BY <1>20 DEF EndRun
  <2> QED
    BY <1>11, <1>12, <1>13, <1>14, <2>2, <2>3
<1>21. ASSUME UNCHANGED resolve, RestOK, UNCHANGED <<hifiAdapters, listeners, walk>>
       PROVE  ResolverInv'
  <2>1. ResolverTypeOK'
    BY <1>1, <1>21 DEF ResolverInv, ResolverTypeOK, RestOK, CacheOK
  <2>2. \A v \in Workers : InRange(resolve[v])'
    BY <1>1, <1>21 DEF ResolverInv, InRange
  <2> QED
    BY <1>21, <2>1, <2>2 DEF ResolverInv
<1>22. CASE ResolverTick
  <2>1. \A age \in 0..cacheTTL \cup {Never} : Older(age, cacheTTL) \in 0..cacheTTL \cup {Never}
    BY ResolverAssumption, AgesAssumption DEF Older
  <2>2. RestOK
    BY <1>22, <2>1 DEF ResolverTick, ResolverInv, ResolverTypeOK, RestOK, CacheOK
  <2> QED
    BY <1>21, <1>22, <2>2 DEF ResolverTick
<1>23. CASE UNCHANGED resolverVars
  BY <1>13, <1>21, <1>23 DEF resolverVars
<1> QED
  BY <1>15, <1>16, <1>17, <1>18, <1>19, <1>20, <1>22, <1>23, NextIsResolver DEF ResolverStep

(* The first state has its types, for whatever setting.                     *)
LEMMA TypesInit == Init => RenewalTypeOK /\ ResolverInv /\ AdapterTypeOK
<1> SUFFICES ASSUME Init PROVE RenewalTypeOK /\ ResolverInv /\ AdapterTypeOK
  OBVIOUS
<1>1. /\ renewCmd \in BOOLEAN /\ tidalAPI \in Upstreams \cup {None}
      /\ tidalFallbacks \in Seq(Upstreams)
  BY SettingsAssumption DEF Init
<1>2. RenewalTypeOK
  BY <1>1, RenewalAssumption DEF Init, RenewalInit, RenewalTypeOK
<1>3. AdapterTypeOK
  BY AdapterAssumption DEF Init, AdapterInit, AdapterTypeOK
<1>4. Len(candidates) \in Nat
  <2>1. candidates \in Seq(Upstreams)
    BY <1>1 DEF candidates
  <2> HIDE DEF candidates
  <2> QED
    BY <2>1
<1>5. ResolverTypeOK
  <2>1. NotResolving \in [at : {"off", "locking", "root", "track", "resolved"} \cup GivenPCs,
                          i : 1..(Len(candidates) + 1),
                          url : Upstreams \cup {None}, kind : Kinds]
    BY <1>4 DEF NotResolving, Kinds
  <2> QED
    BY <1>1, <2>1, ResolverAssumption DEF Init, ResolverInit, ResolverTypeOK, NoAnswer, Kinds
<1> QED
  BY <1>2, <1>3, <1>5 DEF ResolverInv, InRange, Init, ResolverInit, NotResolving

(* Every variable keeps its type: no index runs past the candidates, no     *)
(* upstream gets a second adapter, no age passes its limit.                 *)
THEOREM StartInvariant == Spec => [](TypeOK /\ ResolverInv)
<1> DEFINE Inv == RenewalTypeOK /\ ResolverInv /\ AdapterTypeOK
<1>1. Init => Inv
  BY TypesInit
<1>2. Inv /\ [Next]_vars => Inv'
  <2> SUFFICES ASSUME Inv, [Next]_vars PROVE Inv'
    OBVIOUS
  <2>1. RenewalTypeOK'
    BY RenewalTypes, NextIsRenewal
  <2> QED
    BY <2>1, ResolverTypes, AdapterTypes
<1>3. Inv => TypeOK /\ ResolverInv
  BY DEF TypeOK, ResolverInv
<1> QED
  BY <1>1, <1>2, <1>3, PTL DEF Spec

(* In particular its type is an invariant.                                  *)
THEOREM StartTypeCorrect == Spec => []TypeOK
BY StartInvariant, PTL

-----------------------------------------------------------------------------
(* What a run is given.                                                     *)

(* A walk has found the candidates it has passed dead, but for those it is  *)
(* asking again: mirrors may be configured twice.                           *)
PassedAreDead(w) ==
    \A k \in 1..(resolve[w].i - 1) :
        \/ walk[candidates[k]] = "apiDead"
        \/ At(w) = "track" /\ candidates[k] = Candidate(w)

AllDead(n) == \A k \in 1..n : walk[candidates[k]] = "apiDead"

(* A verdict is what the walk was told.                                     *)
Verdict(url, kind) ==
    IF url = None THEN AllDead(Len(candidates))
    ELSE \E i \in 1..Len(candidates) :
             /\ candidates[i] = url /\ AllDead(i - 1)
             /\ walk[url] = kind /\ walk[url] # "apiDead"

(* A walk knows what it has been told so far, and the cache what the last   *)
(* one was told in the end, unless there is a new one.                      *)
VerdictInv ==
    Listed =>
        /\ \A w \in Workers : At(w) = "locking" => resolve[w].i = 1
        /\ \A w \in Workers : At(w) \in {"root", "track"} => PassedAreDead(w)
        /\ tidalMu = None /\ cache.age # Never => Verdict(cache.url, cache.kind)

(* An element of a sequence has a first occurrence.                         *)
LEMMA FirstOccurrence ==
    ASSUME NEW s, NEW i \in Nat \ {0}
    PROVE  \E j \in 1..i : s[j] = s[i] /\ \A k \in 1..(j - 1) : s[k] # s[i]
<1> DEFINE T == {j \in 1..i : s[j] = s[i]}
<1>1. T \subseteq Nat /\ T # {}
  OBVIOUS
<1>2. PICK j \in T : \A k \in T : ~(<<k, j>> \in OpToRel(<, Nat))
  <2> HIDE DEF T
  <2> QED
    BY <1>1, NatLessThanWellFounded, WFMin
<1>3. \A k \in T : ~(k < j)
  BY <1>1, <1>2 DEF OpToRel
<1>4. \A k \in 1..(j - 1) : s[k] # s[i]
  <2> SUFFICES ASSUME NEW k \in 1..(j - 1), s[k] = s[i] PROVE FALSE
    OBVIOUS
  <2>1. k \in T /\ k < j
    OBVIOUS
  <2> QED
    BY <1>3, <2>1
<1> QED
  BY <1>4

(* A walk that ends with a candidate has found all before it dead: before   *)
(* its first occurrence, if it was asked twice.                             *)
LEMMA FoundFirst ==
    ASSUME NEW list, NEW answers, NEW i \in Nat \ {0},
           \A k \in 1..(i - 1) : answers[list[k]] = "apiDead" \/ list[k] = list[i]
    PROVE  \E j \in 1..i : /\ list[j] = list[i]
                          /\ \A k \in 1..(j - 1) : answers[list[k]] = "apiDead"
<1>1. PICK j \in 1..i : list[j] = list[i] /\ \A k \in 1..(j - 1) : list[k] # list[i]
  BY FirstOccurrence
<1> QED
  BY <1>1

(* Every step keeps what walks and cache know.                              *)
LEMMA VerdictStep ==
    ASSUME WalkInv, ResolverInv, VerdictInv, [Next]_vars PROVE VerdictInv'
<1>1. /\ UNCHANGED <<candidates, Listed>> /\ Len(candidates) \in Nat
      /\ \A i \in 1..Len(candidates) : candidates[i] \in Upstreams
      /\ Listed => candidates # <<>>
  BY CandidatesKept DEF ResolverInv
<1> SUFFICES ASSUME Listed PROVE VerdictInv'
  BY <1>1 DEF VerdictInv
<1>2. /\ \A v \in Workers : At(v) = "locking" => resolve[v].i = 1
      /\ \A v \in Workers : At(v) \in {"root", "track"} => PassedAreDead(v)
      /\ tidalMu = None /\ cache.age # Never => Verdict(cache.url, cache.kind)
      /\ \A v \in Workers : At(v) \in {"root", "track"} => tidalMu = v
  BY DEF VerdictInv, WalkInv
<1>3. /\ DOMAIN resolve = Workers /\ \A v \in Workers : DOMAIN resolve[v] = Fields
      /\ DOMAIN cache = {"url", "kind", "age"}
      /\ walk \in [Upstreams -> Kinds \cup {"unasked"}]
      /\ \A v \in Workers : InRange(resolve[v]) /\ resolve[v].i \in Nat \ {0}
  BY <1>1 DEF WalkInv, ResolverInv, ResolverTypeOK
<1>4. None \notin Workers /\ None \notin Upstreams /\ 0 # Never
  BY AgesAssumption, ResolverAssumption
<1> HIDE DEF Listed, candidates
(* A step of a worker that is not walking, and does not begin to.           *)
<1>5. ASSUME NEW w \in Workers, \A v \in Workers \ {w} : resolve'[v] = resolve[v],
             At(w)' \notin {"root", "track"}, At(w)' = "locking" => resolve'[w].i = 1,
             UNCHANGED <<tidalMu, cache, walk>>
      PROVE  VerdictInv'
  <2>1. \A v \in Workers : At(v)' = "locking" => resolve'[v].i = 1
    BY <1>2, <1>5 DEF At
  <2>2. ASSUME NEW v \in Workers, At(v)' \in {"root", "track"} PROVE PassedAreDead(v)'
    <3>1. v # w /\ resolve'[v] = resolve[v]
      BY <1>5, <2>2
    <3> QED
      BY <1>1, <1>2, <1>5, <2>2, <3>1 DEF PassedAreDead, Candidate, At
  <2>3. tidalMu' = None /\ cache'.age # Never => Verdict(cache.url, cache.kind)'
    BY <1>1, <1>2, <1>5 DEF Verdict, AllDead
  <2> QED
    BY <2>1, <2>2, <2>3 DEF VerdictInv
(* A step of the worker that walks and goes on doing so.                    *)
<1>6. ASSUME NEW w \in Workers, \A v \in Workers \ {w} : resolve'[v] = resolve[v],
             tidalMu' = w, \A v \in Workers \ {w} : At(v) \notin {"root", "track"},
             At(w)' \in {"root", "track"}, PassedAreDead(w)'
      PROVE  VerdictInv'
  BY <1>2, <1>4, <1>6 DEF VerdictInv, At
(* A step in which a walk ends.                                             *)
<1>7. ASSUME NEW w \in Workers, At(w) \in {"root", "track"}, NEW url, NEW kind, EndWalk(w, url, kind),
             Verdict(url, kind)'
      PROVE  VerdictInv'
  <2>1. cache'.url = url /\ cache'.kind = kind
    BY <1>7 DEF EndWalk
  <2>2. \A v \in Workers : At(v)' \notin {"root", "track"}
    BY <1>2, <1>3, <1>7 DEF EndWalk, Resolved, At
  <2>3. \A v \in Workers : At(v)' = "locking" => resolve'[v].i = 1
    BY <1>2, <1>3, <1>7 DEF EndWalk, Resolved, At
  <2>4. Verdict(cache.url, cache.kind)'
    BY <1>7, <2>1 DEF Verdict
  <2> QED
    BY <2>2, <2>3, <2>4 DEF VerdictInv
(* The candidate a walk is at is found dead.                                *)
<1>8. ASSUME NEW w \in Workers, At(w) \in {"root", "track"}, Answered(Candidate(w), "apiDead"), Skip(w)
      PROVE  VerdictInv'
  <2>1. resolve[w].i \in 1..Len(candidates) /\ Candidate(w) \in Upstreams
    BY <1>1, <1>3, <1>8 DEF InRange, At, Candidate
  <2>2. \A k \in 1..resolve[w].i : walk'[candidates[k]] = "apiDead"
    <3>1. walk' = [walk EXCEPT ![Candidate(w)] = "apiDead"]
      BY <1>8 DEF Answered
    <3>2. \A k \in 1..(resolve[w].i - 1) :
              walk[candidates[k]] = "apiDead" \/ candidates[k] = Candidate(w)
      BY <1>2, <1>8 DEF PassedAreDead
    <3>3. \A k \in 1..resolve[w].i : candidates[k] \in Upstreams
      BY <1>1, <2>1
    <3>4. \A k \in 1..resolve[w].i : k \in 1..(resolve[w].i - 1) \/ candidates[k] = Candidate(w)
      BY <2>1, <1>1 DEF Candidate
    <3> QED
      BY <1>3, <3>1, <3>2, <3>3, <3>4
  <2>3. CASE resolve[w].i < Len(candidates)
    <3>1. /\ resolve'[w].i = resolve[w].i + 1 /\ At(w)' = "root" /\ tidalMu' = w
          /\ \A v \in Workers \ {w} : resolve'[v] = resolve[v]
      BY <1>2, <1>3, <1>8, <2>3 DEF Skip, At, Fields
    <3>2. \A v \in Workers \ {w} : At(v) \notin {"root", "track"}
      BY <1>2, <1>8
    <3>3. PassedAreDead(w)'
      BY <1>1, <1>3, <2>2, <3>1 DEF PassedAreDead
    <3> QED
      BY <1>6, <3>1, <3>2, <3>3
  <2>4. CASE ~(resolve[w].i < Len(candidates))
    <3>1. EndWalk(w, None, "apiDead")
      BY <1>8, <2>4 DEF Skip, Conclude
    <3>2. resolve[w].i = Len(candidates)
      BY <1>1, <2>1, <2>4
    <3>3. Verdict(None, "apiDead")'
      BY <1>1, <2>2, <3>2 DEF Verdict, AllDead
    <3> QED
      BY <1>7, <1>8, <3>1, <3>3
  <2> QED
    BY <2>3, <2>4
(* It is found alive.                                                       *)
<1>9. ASSUME NEW w \in Workers, At(w) \in {"root", "track"}, NEW kind \in Kinds, kind # "apiDead",
             Answered(Candidate(w), kind), Conclude(w, Candidate(w), kind)
      PROVE  VerdictInv'
  <2>1. resolve[w].i \in 1..Len(candidates) /\ Candidate(w) \in Upstreams
    BY <1>1, <1>3, <1>9 DEF InRange, At, Candidate
  <2>2. walk' = [walk EXCEPT ![Candidate(w)] = kind]
    BY <1>9 DEF Answered
  <2>3. \A k \in 1..(resolve[w].i - 1) :
            walk'[candidates[k]] = "apiDead" \/ candidates[k] = candidates[resolve[w].i]
    BY <1>1, <1>2, <1>3, <1>9, <2>1, <2>2 DEF PassedAreDead, Candidate
  <2>4. \E j \in 1..resolve[w].i :
            /\ candidates[j] = candidates[resolve[w].i]
            /\ \A k \in 1..(j - 1) : walk'[candidates[k]] = "apiDead"
    <3> DEFINE i == resolve[w].i
    <3>1. i \in Nat \ {0}
      BY <1>3
    <3>2. \A k \in 1..(i - 1) : walk'[candidates[k]] = "apiDead" \/ candidates[k] = candidates[i]
      BY <2>3
    <3> HIDE DEF i
    <3>3. \E j \in 1..i : /\ candidates[j] = candidates[i]
                          /\ \A k \in 1..(j - 1) : walk'[candidates[k]] = "apiDead"
      BY <3>1, <3>2, FoundFirst
    <3> QED
      BY <3>3 DEF i
  <2>5. PICK url \in Upstreams : url = Candidate(w)
    BY <2>1
  <2>6. Verdict(url, kind)'
    <3>1. walk'[url] = kind /\ url # None
      BY <1>3, <1>4, <2>1, <2>2, <2>5
    <3>2. PICK j \in 1..Len(candidates) :
             /\ candidates[j] = url
             /\ \A k \in 1..(j - 1) : walk'[candidates[k]] = "apiDead"
      BY <1>1, <2>1, <2>4, <2>5 DEF Candidate
    <3> QED
      BY <1>1, <1>9, <3>1, <3>2 DEF Verdict, AllDead
  <2>7. EndWalk(w, url, kind)
    BY <1>9, <2>5 DEF Conclude
  <2> QED
    BY <1>7, <1>9, <2>6, <2>7
<1>10. ASSUME NEW w \in Workers, At(w) \in {"root", "track"}
       PROVE  tidalMu = w /\ \A v \in Workers \ {w} : At(v) \notin {"root", "track"}
  BY <1>2, <1>10
<1>11. ASSUME NEW w \in Workers, ResolveStart(w) PROVE VerdictInv'
  <2>1. At(w)' \notin {"root", "track"} /\ resolve'[w].i = 1
    BY <1>3, <1>11 DEF ResolveStart, Resolved, Goto, At, InRange, Fields
  <2>2. /\ \A v \in Workers \ {w} : resolve'[v] = resolve[v]
        /\ UNCHANGED <<tidalMu, cache, walk>>
    BY <1>3, <1>11 DEF ResolveStart, Resolved, Goto
  <2> QED
    BY <1>5, <2>1, <2>2
<1>12. ASSUME NEW w \in Workers, CheckCache(w) PROVE VerdictInv'
  <2>1. At(w) = "locking" /\ tidalMu = None /\ resolve[w].i = 1
    BY <1>2, <1>12 DEF CheckCache
  <2>2. \A v \in Workers \ {w} : resolve'[v] = resolve[v]
    BY <1>3, <1>12 DEF CheckCache, Resolved, Goto
  <2>3. CASE Fresh
    <3>1. At(w)' = "resolved" /\ UNCHANGED <<tidalMu, cache, walk>>
      BY <1>3, <1>12, <2>3 DEF CheckCache, Resolved, At
    <3> QED
      BY <1>5, <2>2, <3>1
  <2>4. CASE ~Fresh
    <3>1. tidalMu' = w /\ At(w)' = "root" /\ resolve'[w].i = 1
      BY <1>3, <1>12, <2>1, <2>4 DEF CheckCache, Goto, At, Fields
    <3>2. \A v \in Workers \ {w} : At(v) \notin {"root", "track"}
      BY <1>2, <1>4, <2>1
    <3>3. PassedAreDead(w)'
      BY <3>1 DEF PassedAreDead
    <3> QED
      BY <1>6, <2>2, <3>1, <3>2, <3>3
  <2> QED
    BY <2>3, <2>4
<1>13. ASSUME NEW w \in Workers, ProbeAPI(w) PROVE VerdictInv'
  <2>1. At(w) = "root"
    BY <1>13 DEF ProbeAPI
  <2>2. PICK kind \in Kinds :
           /\ Answered(Candidate(w), kind)
           /\ \/ kind = "apiHiFi" /\ Goto(w, "track") /\ UNCHANGED tidalMu
              \/ kind = "apiDead" /\ Skip(w)
              \/ kind # "apiDead" /\ Conclude(w, Candidate(w), kind)
    BY <1>13 DEF ProbeAPI
  <2>3. CASE kind = "apiHiFi" /\ Goto(w, "track") /\ UNCHANGED tidalMu
    <3>1. /\ At(w)' = "track" /\ resolve'[w].i = resolve[w].i
          /\ \A v \in Workers \ {w} : resolve'[v] = resolve[v]
      BY <1>3, <2>3 DEF Goto, At, Fields
    <3>2. \A k \in 1..(resolve[w].i - 1) : walk[candidates[k]] = "apiDead"
      BY <1>2, <2>1 DEF PassedAreDead
    <3>3. /\ walk' = [walk EXCEPT ![Candidate(w)] = kind]
          /\ Candidate(w) = candidates[resolve[w].i]
          /\ \A k \in 1..(resolve[w].i - 1) : candidates[k] \in Upstreams
      BY <1>1, <1>3, <2>1, <2>2 DEF Answered, Candidate, InRange, At
    <3>4. \A k \in 1..(resolve[w].i - 1) :
              walk'[candidates[k]] = "apiDead" \/ candidates[k] = candidates[resolve[w].i]
      BY <1>3, <3>2, <3>3
    <3>5. PassedAreDead(w)'
      BY <1>1, <3>1, <3>4 DEF PassedAreDead, Candidate
    <3> QED
      BY <1>6, <1>10, <2>1, <2>3, <3>1, <3>5
  <2>4. CASE kind = "apiDead" /\ Skip(w)
    BY <1>8, <2>1, <2>2, <2>4
  <2>5. CASE kind # "apiDead" /\ Conclude(w, Candidate(w), kind)
    BY <1>9, <2>1, <2>2, <2>5
  <2> QED
    BY <2>2, <2>3, <2>4, <2>5
<1>14. ASSUME NEW w \in Workers, ProbeHiFiTrack(w) PROVE VerdictInv'
  BY <1>8, <1>9, <1>14 DEF ProbeHiFiTrack, Kinds
<1>15. ASSUME NEW w \in Workers, GiveURL(w) PROVE VerdictInv'
  <2>1. \E pc \in GivenPCs : Goto(w, pc)
    BY <1>15 DEF GiveURL, GivenPCs
  <2>2. \A v \in Workers \ {w} : resolve'[v] = resolve[v]
    BY <1>3, <2>1 DEF Goto
  <2>3. At(w)' \in GivenPCs
    BY <1>3, <2>1 DEF Goto, At, Fields
  <2>4. UNCHANGED <<tidalMu, cache, walk>>
    BY <1>15 DEF GiveURL
  <2> QED
    BY <1>5, <2>2, <2>3, <2>4 DEF GivenPCs
<1>16. ASSUME NEW w \in Workers, EndRun(w) PROVE VerdictInv'
  <2>1. At(w)' = "off" /\ \A v \in Workers \ {w} : resolve'[v] = resolve[v]
    BY <1>3, <1>16 DEF EndRun, NotResolving, At
  <2>2. UNCHANGED <<tidalMu, cache, walk>>
    BY <1>16 DEF EndRun
  <2> QED
    BY <1>5, <2>1, <2>2
<1>17. ASSUME UNCHANGED <<resolve, tidalMu, walk>>,
              cache'.url = cache.url, cache'.kind = cache.kind,
              cache'.age # Never => cache.age # Never
       PROVE  VerdictInv'
  <2>1. \A v \in Workers : PassedAreDead(v) => PassedAreDead(v)'
    BY <1>1, <1>17 DEF PassedAreDead, Candidate, At
  <2>2. Verdict(cache.url, cache.kind) => Verdict(cache.url, cache.kind)'
    BY <1>1, <1>17 DEF Verdict, AllDead
  <2> QED
    BY <1>2, <1>17, <2>1, <2>2 DEF VerdictInv, At
<1>18. CASE ResolverTick
  <2>1. cache'.age # Never => cache.age # Never
    BY <1>3, <1>18 DEF ResolverTick, Older
  <2>2. cache'.url = cache.url /\ cache'.kind = cache.kind /\ UNCHANGED <<resolve, tidalMu, walk>>
    BY <1>3, <1>18 DEF ResolverTick
  <2> QED
    BY <1>17, <2>1, <2>2
<1>19. CASE UNCHANGED resolverVars
  BY <1>17, <1>19 DEF resolverVars
<1> QED
  BY <1>11, <1>12, <1>13, <1>14, <1>15, <1>16, <1>18, <1>19, NextIsResolver DEF ResolverStep

(* The three invariants hold together in every reachable state.             *)
THEOREM VerdictInvariant == Spec => [](WalkInv /\ ResolverInv /\ VerdictInv)
<1>1. Init => VerdictInv
  <2> SUFFICES ASSUME Init PROVE VerdictInv
    OBVIOUS
  <2>1. cache.age = Never /\ \A w \in Workers : At(w) = "off"
    BY DEF Init, ResolverInit, NotResolving, At
  <2> QED
    BY <2>1 DEF VerdictInv
<1>2. WalkInv /\ ResolverInv /\ VerdictInv /\ [Next]_vars => VerdictInv'
  BY VerdictStep
<1> QED
  BY <1>1, <1>2, WalkInvariant, StartInvariant, PTL DEF Spec

(* Whatever the mirrors answer and however the workers interleave, a run is  *)
(* given the first URL of the list that the last finished walk found to     *)
(* work, with that URL's kind, or none if it found none.                    *)
THEOREM EveryRunGivenAsProbed == Spec => GivenAsProbed
<1> DEFINE Given == \A w \in Workers : Listed =>
        /\ At(w) # "resolved" /\ At(w)' = "resolved" =>
              LET url == resolve'[w].url
                  Rejected(n) == \A k \in 1..n : walk'[candidates[k]] = "apiDead"
              IN  IF url = None THEN Rejected(Len(candidates))
                  ELSE \E i \in 1..Len(candidates) :
                           /\ candidates[i] = url /\ Rejected(i - 1)
                           /\ walk'[url] = resolve'[w].kind /\ walk'[url] # "apiDead"
        /\ At(w) = "resolved" /\ At(w)' \in {"direct", "adapter"} =>
              At(w)' = IF resolve[w].kind = "apiHiFi" THEN "adapter" ELSE "direct"
<1>1. WalkInv /\ ResolverInv /\ VerdictInv /\ VerdictInv' /\ [Next]_vars => [Given]_resolverVars
  <2> SUFFICES ASSUME WalkInv, ResolverInv, VerdictInv, VerdictInv', [Next]_vars, Listed,
                      NEW w \in Workers
               PROVE  /\ At(w) # "resolved" /\ At(w)' = "resolved" =>
                            IF resolve'[w].url = None
                            THEN \A k \in 1..Len(candidates) : walk'[candidates[k]] = "apiDead"
                            ELSE \E i \in 1..Len(candidates) :
                                    /\ candidates[i] = resolve'[w].url
                                    /\ \A k \in 1..(i - 1) : walk'[candidates[k]] = "apiDead"
                                    /\ walk'[resolve'[w].url] = resolve'[w].kind
                                    /\ walk'[resolve'[w].url] # "apiDead"
                      /\ At(w) = "resolved" /\ At(w)' \in {"direct", "adapter"} =>
                            At(w)' = IF resolve[w].kind = "apiHiFi" THEN "adapter" ELSE "direct"
    OBVIOUS
  <2>1. /\ UNCHANGED <<candidates, Listed>> /\ candidates # <<>>
        /\ DOMAIN resolve = Workers /\ DOMAIN resolve[w] = Fields
    BY CandidatesKept DEF ResolverInv, WalkInv
  <2> HIDE DEF Listed, candidates
  <2>2. ASSUME At(w) # At(w)'
        PROVE  ResolveStart(w) \/ CheckCache(w) \/ ProbeAPI(w) \/ ProbeHiFiTrack(w)
                   \/ GiveURL(w) \/ EndRun(w)
    <3>1. ~(ResolverTick \/ UNCHANGED resolverVars)
      BY <2>2 DEF ResolverTick, resolverVars, At
    <3>2. PICK v \in Workers : ResolveStart(v) \/ CheckCache(v) \/ ProbeAPI(v)
                                   \/ ProbeHiFiTrack(v) \/ GiveURL(v) \/ EndRun(v)
      BY <3>1, NextIsResolver DEF ResolverStep
    <3>3. v # w => At(w)' = At(w)
      BY <2>1, <3>2 DEF ResolveStart, CheckCache, ProbeAPI, ProbeHiFiTrack, GiveURL,
         EndRun, Goto, Resolved, Skip, Conclude, EndWalk, At
    <3> QED
      BY <2>2, <3>2, <3>3
  <2>3. ASSUME At(w) # "resolved", At(w)' = "resolved"
        PROVE  /\ resolve'[w].url = cache'.url /\ resolve'[w].kind = cache'.kind
               /\ tidalMu' = None /\ cache'.age # Never
    <3>1. \/ \E url, kind : EndWalk(w, url, kind)
          \/ At(w) = "locking" /\ CheckCache(w) /\ Fresh
      BY <2>1, <2>2, <2>3 DEF ResolveStart, CheckCache, ProbeAPI, ProbeHiFiTrack, GiveURL,
         EndRun, NotResolving, GivenPCs, Goto, Skip, Conclude, At, Fields
    <3>2. CASE \E url, kind : EndWalk(w, url, kind)
      BY <2>1, <3>2, AgesAssumption DEF EndWalk, Resolved
    <3>3. CASE At(w) = "locking" /\ CheckCache(w) /\ Fresh
      BY <2>1, <3>3 DEF CheckCache, Resolved, Fresh, Past
    <3> QED
      BY <3>1, <3>2, <3>3
  <2>4. ASSUME At(w) # "resolved", At(w)' = "resolved"
        PROVE  /\ cache'.url = None =>
                      \A k \in 1..Len(candidates) : walk'[candidates[k]] = "apiDead"
               /\ cache'.url # None =>
                      \E i \in 1..Len(candidates) :
                          /\ candidates[i] = cache'.url
                          /\ \A k \in 1..(i - 1) : walk'[candidates[k]] = "apiDead"
                          /\ walk'[cache'.url] = cache'.kind /\ walk'[cache'.url] # "apiDead"
    BY <2>1, <2>3, <2>4 DEF VerdictInv, Verdict, AllDead
  <2>5. ASSUME At(w) = "resolved", At(w)' \in {"direct", "adapter"}
        PROVE  At(w)' = IF resolve[w].kind = "apiHiFi" THEN "adapter" ELSE "direct"
    <3>1. GiveURL(w)
      BY <2>2, <2>5 DEF ResolveStart, CheckCache, ProbeAPI, ProbeHiFiTrack, EndRun, GivenPCs
    <3> QED
      BY <2>1, <2>5, <3>1 DEF GiveURL, Goto, At, Fields
  <2> QED
    BY <2>3, <2>4, <2>5
<1> QED
  BY <1>1, VerdictInvariant, PTL DEF Spec, GivenAsProbed
=============================================================================
