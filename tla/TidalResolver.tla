---------------------------- MODULE TidalResolver ----------------------------
(***************************************************************************)
(* Which Tidal API a CLI run is given (client.go): one configured URL is    *)
(* classified on every run; a list is walked under a mutex, the first that  *)
(* works is kept for five minutes, and so is the news that none does.  A    *)
(* hifi-api speaks manifests, so a local adapter is put in front of it, one *)
(* for each upstream.                                                       *)
(*                                                                         *)
(* Upstreams change at will: a probe answers anything at any time.          *)
(***************************************************************************)
EXTENDS Ages, Sequences

CONSTANTS
    Upstreams,
    cacheTTL    \* five minutes

ASSUME ResolverAssumption ==
    /\ None \notin Upstreams
    /\ cacheTTL \in Nat

VARIABLES
    tidalAPI,      \* the configured URL, or None
    tidalFallbacks,\* the configured mirrors, in order
    tidalMu,       \* who holds Client.tidalMu
    cache,         \* resolvedTidalAPI, resolvedTidalKind, the age of resolvedTidalCheck
    resolve,       \* resolveTidalAPIURL and what follows, per worker
    hifiAdapters,  \* the upstreams that have an adapter
    listeners,     \* how many listeners were opened for each upstream
    walk,          \* what the walk under way, or else the last one, was told
    sinceWalk      \* the time since the last walk ended

resolverVars == <<tidalAPI, tidalFallbacks, tidalMu, cache, resolve, hifiAdapters,
                  listeners, walk, sinceWalk>>

Kinds == {"apiDead", "apiSpotiFLAC", "apiHiFi"}

NoAnswer == [u \in Upstreams |-> "unasked"]

NotResolving == [at |-> "off", i |-> 1, url |-> None, kind |-> "apiDead"]

ResolverInit ==
    /\ tidalMu = None
    /\ cache = [url |-> None, kind |-> "apiDead", age |-> Never]
    /\ resolve = [w \in Workers |-> NotResolving]
    /\ hifiAdapters = {}
    /\ listeners = [u \in Upstreams |-> 0]
    /\ walk = NoAnswer
    /\ sinceWalk = Never

(* A single URL is the operator's own choice; mirrors make it a list.       *)
Listed == tidalFallbacks # <<>>

candidates == (IF tidalAPI = None THEN <<>> ELSE <<tidalAPI>>) \o tidalFallbacks

Fresh == ~Past(cache.age, cacheTTL)

At(w) == resolve[w].at
Goto(w, pc) == resolve' = [resolve EXCEPT ![w].at = pc]
Resolved(w, url, kind) ==
    resolve' = [resolve EXCEPT ![w] = [at |-> "resolved", i |-> 1, url |-> url, kind |-> kind]]

-----------------------------------------------------------------------------
(* resolveTidalAPIURL.                                                      *)

ResolveStart(w) ==
    /\ At(w) = "off"
    /\ IF candidates = <<>> THEN Resolved(w, None, "apiDead")
       ELSE Goto(w, IF Listed THEN "locking" ELSE "root")
    /\ UNCHANGED <<tidalAPI, tidalFallbacks, tidalMu, cache, hifiAdapters, listeners, walk, sinceWalk>>

(* The lock is taken, and the cached verdict used if it is fresh.           *)
CheckCache(w) ==
    /\ At(w) = "locking" /\ tidalMu = None
    /\ IF Fresh
       THEN /\ Resolved(w, cache.url, cache.kind)
            /\ UNCHANGED <<tidalMu, cache, walk>>
       ELSE /\ tidalMu' = w
            /\ cache' = [cache EXCEPT !.url = None, !.kind = "apiDead"]
            /\ walk' = NoAnswer
            /\ Goto(w, "root")
    /\ UNCHANGED <<tidalAPI, tidalFallbacks, hifiAdapters, listeners, sinceWalk>>

(* A bug: only a success is worth keeping.                                  *)
KeepSuccess(w, url, kind) ==
    /\ cache' = [url |-> url, kind |-> kind, age |-> IF url = None THEN Never ELSE 0]
    /\ tidalMu' = None
    /\ sinceWalk' = 0
    /\ Resolved(w, url, kind)

(* The walk ends: verdict, stamp and unlock.                                *)
EndWalk(w, url, kind) ==
    /\ cache' = [url |-> url, kind |-> kind, age |-> 0]
    /\ tidalMu' = None
    /\ sinceWalk' = 0
    /\ Resolved(w, url, kind)

Conclude(w, url, kind) ==
    IF Listed THEN EndWalk(w, url, kind)
    ELSE /\ Resolved(w, url, kind)
         /\ UNCHANGED <<tidalMu, cache, sinceWalk>>

(* The next candidate, or the end of the list.                              *)
Skip(w) ==
    IF resolve[w].i < Len(candidates)
    THEN /\ resolve' = [resolve EXCEPT ![w].i = @ + 1, ![w].at = "root"]
         /\ UNCHANGED <<tidalMu, cache, sinceWalk>>
    ELSE Conclude(w, None, "apiDead")

Candidate(w) == candidates[resolve[w].i]

Answered(u, what) == walk' = IF Listed THEN [walk EXCEPT ![u] = what] ELSE walk

(* The root answers with JSON, with a hifi banner, or not as an API.  A     *)
(* single URL is used even if its root is dead.                             *)
ProbeAPI(w) ==
    /\ At(w) = "root"
    /\ \E kind \in Kinds :
          /\ Answered(Candidate(w), kind)
          /\ CASE kind = "apiHiFi" ->
                    Goto(w, "track") /\ UNCHANGED <<tidalMu, cache, sinceWalk>>
               [] kind = "apiDead" /\ Listed -> Skip(w)
               [] OTHER -> Conclude(w, Candidate(w), kind)
    /\ UNCHANGED <<tidalAPI, tidalFallbacks, hifiAdapters, listeners>>

(* A bug: the banner of a hifi-api is enough.                               *)
TrustRoot(w) ==
    /\ At(w) = "track"
    /\ \E kind \in {"apiDead", "apiHiFi"} : Answered(Candidate(w), kind)
    /\ Conclude(w, Candidate(w), "apiHiFi")
    /\ UNCHANGED <<tidalAPI, tidalFallbacks, hifiAdapters, listeners>>

(* A hifi-api must also be able to look up a track.                         *)
ProbeHiFiTrack(w) ==
    /\ At(w) = "track"
    /\ \/ /\ Answered(Candidate(w), "apiHiFi")
          /\ Conclude(w, Candidate(w), "apiHiFi")
       \/ /\ Answered(Candidate(w), "apiDead")
          /\ Skip(w)
    /\ UNCHANGED <<tidalAPI, tidalFallbacks, hifiAdapters, listeners>>

-----------------------------------------------------------------------------
(* runCLIBackend, from the URL to the CLI's arguments.                      *)

(* A bug: an adapter that is started is not remembered.                     *)
StartAdapterAnew(u) ==
    /\ listeners' = [listeners EXCEPT ![u] = @ + 1]
    /\ UNCHANGED hifiAdapters

(* startHiFiAdapter, a listener for an upstream that has none.              *)
StartAdapter(u) ==
    /\ listeners' = [listeners EXCEPT ![u] = @ + 1]
    /\ hifiAdapters' = hifiAdapters \cup {u}

(* --tidal-api-url: none, the URL itself, or the adapter in front of it.    *)
(* An adapter that cannot listen costs the run its API.                     *)
GiveURL(w) ==
    LET u == resolve[w].url
    IN  /\ At(w) = "resolved"
        /\ IF u = None \/ resolve[w].kind # "apiHiFi"
           THEN /\ Goto(w, IF u = None THEN "community" ELSE "direct")
                /\ UNCHANGED <<hifiAdapters, listeners>>
           ELSE IF u \in hifiAdapters
           THEN /\ Goto(w, "adapter")
                /\ UNCHANGED <<hifiAdapters, listeners>>
           ELSE \/ StartAdapter(u) /\ Goto(w, "adapter")
                \/ Goto(w, "community") /\ UNCHANGED <<hifiAdapters, listeners>>
        /\ UNCHANGED <<tidalAPI, tidalFallbacks, tidalMu, cache, walk, sinceWalk>>

GivenPCs == {"community", "direct", "adapter"}

(* The CLI run is over.                                                     *)
EndRun(w) ==
    /\ At(w) \in GivenPCs
    /\ resolve' = [resolve EXCEPT ![w] = NotResolving]
    /\ UNCHANGED <<tidalAPI, tidalFallbacks, tidalMu, cache, hifiAdapters, listeners, walk, sinceWalk>>

ResolverTick ==
    /\ cache' = [cache EXCEPT !.age = Older(@, cacheTTL)]
    /\ sinceWalk' = Older(sinceWalk, cacheTTL)
    /\ UNCHANGED <<tidalAPI, tidalFallbacks, tidalMu, resolve, hifiAdapters, listeners, walk>>

resolveTidalAPIURL(w) ==
    ResolveStart(w) \/ CheckCache(w) \/ ProbeAPI(w) \/ ProbeHiFiTrack(w) \/ GiveURL(w)

-----------------------------------------------------------------------------
(* One adapter for each upstream is part of the type of listeners.          *)
ResolverTypeOK ==
    /\ tidalAPI \in Upstreams \cup {None}
    /\ tidalFallbacks \in Seq(Upstreams)
    /\ tidalMu \in Workers \cup {None}
    /\ cache \in [url : Upstreams \cup {None}, kind : Kinds,
                  age : 0..cacheTTL \cup {Never}]
    /\ resolve \in [Workers ->
          [at : {"off", "locking", "root", "track", "resolved"} \cup GivenPCs,
           i : 1..(Len(candidates) + 1),
           url : Upstreams \cup {None}, kind : Kinds]]
    /\ hifiAdapters \subseteq Upstreams
    /\ listeners \in [Upstreams -> 0..1]
    /\ walk \in [Upstreams -> Kinds \cup {"unasked"}]
    /\ sinceWalk \in 0..cacheTTL \cup {Never}

(* However many workers ask, and also if nothing works: the mirrors are     *)
(* walked at most once in cacheTTL, one walk at a time.                     *)
WalkedOncePerWindow ==
    [][\A w \in Workers : At(w) = "locking" /\ At(w)' = "root" =>
           /\ Past(sinceWalk, cacheTTL)
           /\ \A v \in Workers : Listed => At(v) \notin {"root", "track"}]_resolverVars

(* From a list, a run is given the first URL that the last finished walk    *)
(* found to work, or none if it found none: the cached URL and its kind     *)
(* belong together.  A hifi-api that could look a track up goes behind an   *)
(* adapter or nowhere, everything else is given as it is.                   *)
GivenAsProbed ==
    [][\A w \in Workers : Listed =>
        /\ At(w) # "resolved" /\ At(w)' = "resolved" =>
              LET url == resolve'[w].url
                  Rejected(n) == \A k \in 1..n : walk'[candidates[k]] = "apiDead"
              IN  IF url = None THEN Rejected(Len(candidates))
                  ELSE \E i \in 1..Len(candidates) :
                           /\ candidates[i] = url /\ Rejected(i - 1)
                           /\ walk'[url] = resolve'[w].kind /\ walk'[url] # "apiDead"
        /\ At(w) = "resolved" /\ At(w)' \in {"direct", "adapter"} =>
              At(w)' = IF resolve[w].kind = "apiHiFi" THEN "adapter" ELSE "direct"
      ]_resolverVars

(* Every run comes to its URL.                                              *)
EveryRunIsGiven ==
    \A w \in Workers : At(w) \in {"locking", "root"} ~> At(w) \in GivenPCs
=============================================================================
