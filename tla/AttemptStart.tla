---------------------------- MODULE AttemptStart ----------------------------
(***************************************************************************)
(* What a job does before audio can flow: its worker makes sure of a        *)
(* community session, then each CLI run of the job is given a Tidal API,    *)
(* and a CLI that was given an adapter asks it for tracks.                  *)
(***************************************************************************)
EXTENDS SessionRenewal, TidalResolver, HiFiAdapter

CONSTANT
    Settings  \* the settings to look at

ASSUME SettingsAssumption ==
    Settings \subseteq [renewCmd : BOOLEAN, tidalAPI : Upstreams \cup {None},
                        tidalFallbacks : Seq(Upstreams)]

vars == <<renewalVars, resolverVars, adapterVars>>

Init ==
    /\ \E s \in Settings :
          /\ renewCmd = s.renewCmd
          /\ tidalAPI = s.tidalAPI
          /\ tidalFallbacks = s.tidalFallbacks
    /\ RenewalInit
    /\ ResolverInit
    /\ AdapterInit

Ensure(w) ==
    /\ EnsureCommunitySession(w)
    /\ UNCHANGED <<resolverVars, adapterVars>>

RenewNext(w) ==
    /\ Renew(w)
    /\ UNCHANGED <<resolverVars, adapterVars>>

Deadline(w) ==
    /\ KillSolver(w)
    /\ UNCHANGED <<resolverVars, adapterVars>>

(* Solvers end, sessions appear, a worker turns to its next job.            *)
Outside ==
    /\ \/ WriteSession
       \/ \E w \in Workers : SolverExits(w) \/ OrphanExits(w)
       \/ \E w \in Workers : At(w) = "off" /\ NextCall(w)
    /\ UNCHANGED <<resolverVars, adapterVars>>

(* A CLI run begins when the job is past its waits.                         *)
StartCLI(w) ==
    /\ call[w] = "returned"
    /\ resolveTidalAPIURL(w)
    /\ UNCHANGED <<renewalVars, adapterVars>>

LockTidal(w) ==
    /\ CheckCache(w)
    /\ UNCHANGED <<renewalVars, adapterVars>>

UseAdapter(w) ==
    /\ At(w) = "adapter" /\ AskTrack(w)
    /\ UNCHANGED <<renewalVars, resolverVars>>

Answer(w) ==
    /\ answerTrack(w)
    /\ UNCHANGED <<renewalVars, resolverVars>>

(* The CLI run ends, whether or not it has its track.                       *)
EndCLI(w) ==
    /\ EndRun(w)
    /\ DropRequest(w)
    /\ UNCHANGED renewalVars

Tick == RenewalTick /\ ResolverTick /\ AdapterTick

Next ==
    \/ \E w \in Workers :
          \/ Ensure(w) \/ Deadline(w)
          \/ StartCLI(w) \/ UseAdapter(w) \/ Answer(w) \/ EndCLI(w)
    \/ Outside
    \/ Tick

Spec == Init /\ [][Next]_vars

(* Time passes, goroutines run, sync.Mutex serves its waiters, and deadlines *)
(* are kept: the renewal's and those of all HTTP requests.  Nothing is       *)
(* assumed of solvers, the CLI and the upstreams.                            *)
FairSpec ==
    /\ Spec
    /\ WF_vars(Tick)
    /\ \A w \in Workers :
          /\ WF_vars(Ensure(w)) /\ SF_vars(RenewNext(w)) /\ WF_vars(Deadline(w))
          /\ WF_vars(StartCLI(w)) /\ SF_vars(LockTidal(w)) /\ WF_vars(Answer(w))

-----------------------------------------------------------------------------
TypeOK == RenewalTypeOK /\ ResolverTypeOK /\ AdapterTypeOK

(* Nothing a job waits for before its audio flows keeps it for ever: not the *)
(* renewals of others, not the probing of dead mirrors, not a busy hifi-api. *)
EveryStartConcludes == EveryCallReturns /\ EveryRunIsGiven /\ EveryTrackAnswered
=============================================================================
