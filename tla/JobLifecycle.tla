---------------------------- MODULE JobLifecycle ----------------------------
(***************************************************************************)
(* The life of a download job in internal/api/sabnzbd: the SABnzbd API     *)
(* handlers that create, pause, resume, retry and delete jobs, the worker  *)
(* goroutine that runs one, the registry that keeps it to one worker per   *)
(* job, the concurrency slots, and the restart that re-dispatches what a   *)
(* dead process left behind.                                               *)
(*                                                                         *)
(* Every HTTP request runs in a goroutine of its own, and so does every    *)
(* worker.  A step of this specification is one access to shared state:    *)
(* one SQL statement, one operation on a sync.Map, one channel operation.  *)
(* What the backends do during an attempt is left open here: a running job *)
(* completes, fails or is put back, at any time (AttemptChain refines      *)
(* that choice).                                                           *)
(***************************************************************************)
EXTENDS JobStore, Sequences

CONSTANTS
    Clients,        \* goroutines serving HTTP requests
    Main,           \* the goroutine that starts the server
    Workers,        \* jobRun objects, each with the goroutine it belongs to
    NoRun,          \* "no jobRun"
    Ops,            \* the API operations the clients use
    MaxConcurrent,  \* capacity of h.sem (SPF_MAX_CONCURRENT)
    MaxRequeues,    \* maxCooldownRequeues
    PageSize,       \* `page' of ResumeQueuedJobs and listAllActive
    Keep,           \* SPF_HISTORY_RETENTION_COUNT
    MaxCrashes      \* bound: process restarts

AllOps == {"AddURL", "Pause", "Resume", "Delete", "HistoryDelete",
           "ChangeCat", "Retry", "PauseAll", "ResumeAll"}

ASSUME LifecycleAssumption ==
    /\ Main \notin Clients
    /\ NoRun \notin Workers
    /\ IsFiniteSet(Workers)
    /\ Ops \subseteq AllOps
    /\ MaxConcurrent \in Nat \ {0}
    /\ PageSize \in Nat \ {0}
    /\ {MaxRequeues, Keep, MaxCrashes} \subseteq Nat

VARIABLES
    rows,       \* the jobs table: survives a restart
    nextId,     \* the next nzo_id to be generated
    crashes,    \* restarts so far
    inFlight,   \* h.inFlight : nzo_id -> jobRun
    running,    \* h.running : nzo_id -> the worker whose context it cancels
    requeues,   \* h.requeues : nzo_id -> requeue count
    sem,        \* slots of h.sem in use
    rerun,      \* jobRun.rerun
    cancelled,  \* has the context of the worker's current pass been cancelled?
    wpc,        \* where the worker is
    wid,        \* the nzo_id the worker runs (0: none)
    wrec,       \* RecoverCount in the worker's copy of the job
    prog,       \* the steps a request has still to take
    op,         \* the operation it executes
    cjob,       \* its copy of the job
    cref,       \* the jobRun it is about to askAgain
    todo,       \* the copies a batch operation has listed
    page        \* the offset of its next page; 0 when there is none

table   == <<rows, nextId, crashes>>
shared  == <<inFlight, running, requeues, sem>>
worker  == <<rerun, cancelled, wpc, wid, wrec>>
request == <<prog, op, cjob, cref, todo, page>>
vars    == <<table, shared, worker, request>>

Procs == Clients \cup {Main}

(* The in-memory queue.Job, as far as it is copied and written back.        *)
Job == [id : 0..MaxJobs, url : Urls \cup {""},
        status : Statuses \cup {"None"}, recover : Nat]
NoJob == [id |-> 0, url |-> "", status |-> "None", recover |-> 0]
JobOf(i) == [id |-> i, url |-> rows[i].url, status |-> rows[i].status,
             recover |-> rows[i].recover]

-----------------------------------------------------------------------------
(* Each handler is the sequence of its accesses to shared state; the steps  *)
(* themselves follow.  A step that returns early drops the rest.            *)

handleAddURL        == <<"find", "prune", "insert", "dispatch">>
handlePause         == <<"get", "cancelDownload", "update">>
handleResume        == <<"get", "update", "dispatch">>
handleChangeCat     == <<"get", "update">>
handleDelete        == <<"cancel", "clear", "delete">>
handleHistoryDelete == <<"cancel", "deleteHistory", "clear">>
handleRetry         == <<"getAny", "cancel", "toQueue", "update", "clear", "dispatch">>
handlePauseAll      == <<"listAll", "each">>
handleResumeAll     == <<"listAll", "each">>
ResumeQueuedJobs    == <<"listPage", "each">>

dispatch(o) ==
    CASE o = "AddURL"        -> handleAddURL
      [] o = "Pause"         -> handlePause
      [] o = "Resume"        -> handleResume
      [] o = "ChangeCat"     -> handleChangeCat
      [] o = "Delete"        -> handleDelete
      [] o = "HistoryDelete" -> handleHistoryDelete
      [] o = "Retry"         -> handleRetry
      [] o = "PauseAll"      -> handlePauseAll
      [] o = "ResumeAll"     -> handleResumeAll
      [] OTHER               -> <<>>

(* The loop bodies of the batch operations, and the jobs each acts on.      *)
LoopBody(o) ==
    CASE o = "PauseAll"     -> <<"cancelDownload", "update">>
      [] o = "ResumeAll"    -> <<"update", "dispatch">>
      [] o = "ResumeQueued" -> <<"dispatch">>
      [] OTHER              -> <<>>

LoopStatuses(o) ==
    CASE o = "PauseAll"     -> {"Downloading", "Queued"}
      [] o = "ResumeAll"    -> {"Paused"}
      [] o = "ResumeQueued" -> {"Queued", "Paused"}
      [] OTHER              -> {}

(* The status an operation gives its copy of the job before Update.         *)
NewStatus(p) ==
    CASE op[p] \in {"Pause", "PauseAll"}            -> "Paused"
      [] op[p] \in {"Resume", "ResumeAll", "Retry"} -> "Queued"
      [] OTHER                                      -> cjob[p].status

-----------------------------------------------------------------------------

Init ==
    /\ rows = [i \in Ids |-> NoRow]
    /\ nextId = 1
    /\ crashes = 0
    /\ inFlight = [i \in Ids |-> NoRun]
    /\ running = [i \in Ids |-> NoRun]
    /\ requeues = [i \in Ids |-> 0]
    /\ sem = 0
    /\ rerun = [w \in Workers |-> FALSE]
    /\ cancelled = [w \in Workers |-> FALSE]
    /\ wpc = [w \in Workers |-> "idle"]
    /\ wid = [w \in Workers |-> 0]
    /\ wrec = [w \in Workers |-> 0]
    /\ prog = [p \in Procs |-> <<>>]
    /\ op = [p \in Procs |-> "none"]
    /\ cjob = [p \in Procs |-> NoJob]
    /\ cref = [p \in Procs |-> NoRun]
    /\ todo = [p \in Procs |-> {}]
    /\ page = [p \in Procs |-> 0]

(* A request arrives.  The server listens once ResumeQueuedJobs returned.   *)
Request(c) ==
    /\ prog[c] = <<>>
    /\ prog[Main] = <<>>
    /\ \E o \in Ops :
        /\ prog' = [prog EXCEPT ![c] = dispatch(o)]
        /\ op' = [op EXCEPT ![c] = o]
        /\ \/ /\ o = "AddURL"
              /\ \E u \in Urls : cjob' = [cjob EXCEPT ![c].url = u]
           \/ /\ o \in {"PauseAll", "ResumeAll"}
              /\ cjob' = cjob
           \/ /\ o \notin {"AddURL", "PauseAll", "ResumeAll"}
              /\ \E i \in Ids :
                    /\ i < nextId
                    /\ cjob' = [cjob EXCEPT ![c].id = i]
    /\ UNCHANGED <<table, shared, worker, cref, todo, page>>

(* Go on with `rest' of the handler, holding `job'; or answer the request.  *)
Continue(p, rest, job) ==
    /\ prog' = [prog EXCEPT ![p] = rest]
    /\ cjob' = [cjob EXCEPT ![p] = IF rest = <<>> THEN NoJob ELSE job]
    /\ op' = [op EXCEPT ![p] = IF rest = <<>> THEN "none" ELSE @]

At(p, step) == prog[p] # <<>> /\ Head(prog[p]) = step

FindActive(p) ==
    /\ At(p, "find")
    /\ IF FindActiveBySpotifyURL(rows, cjob[p].url) # {}
       THEN Continue(p, <<>>, NoJob)
       ELSE Continue(p, Tail(prog[p]), cjob[p])
    /\ UNCHANGED <<table, shared, worker, cref, todo, page>>

Prune(p) ==
    /\ At(p, "prune")
    /\ rows' \in PruneHistory(rows, Keep)
    /\ Continue(p, Tail(prog[p]), cjob[p])
    /\ UNCHANGED <<nextId, crashes, shared, worker, cref, todo, page>>

(* The INSERT.  With no nzo_id left it fails, and so does the request.      *)
Insert(p) ==
    /\ At(p, "insert")
    /\ \/ /\ nextId \in Ids
          /\ rows' = Add(rows, nextId, cjob[p].url)
          /\ nextId' = nextId + 1
          /\ Continue(p, Tail(prog[p]), [cjob[p] EXCEPT !.id = nextId])
       \/ /\ nextId \notin Ids
          /\ Continue(p, <<>>, NoJob)
          /\ UNCHANGED <<rows, nextId>>
    /\ UNCHANGED <<crashes, shared, worker, cref, todo, page>>

(* queue.Get reads active rows only, queue.GetByNzoID any row; 404 if none. *)
Get(p) ==
    /\ At(p, "get") \/ At(p, "getAny")
    /\ LET row == rows[cjob[p].id]
       IN  IF Active(row) \/ (Head(prog[p]) = "getAny" /\ Present(row))
           THEN Continue(p, Tail(prog[p]), JobOf(cjob[p].id))
           ELSE Continue(p, <<>>, NoJob)
    /\ UNCHANGED <<table, shared, worker, cref, todo, page>>

(* CancelJob: LoadAndDelete the cancel func of the job's current pass.  The *)
(* pause handlers call it only when their copy of the job is Downloading.   *)
CancelJob(p) ==
    /\ At(p, "cancel") \/ At(p, "cancelDownload")
    /\ LET i == cjob[p].id
       IN  IF \/ running[i] = NoRun
              \/ Head(prog[p]) = "cancelDownload" /\ cjob[p].status # "Downloading"
           THEN UNCHANGED <<running, cancelled>>
           ELSE /\ cancelled' = [cancelled EXCEPT ![running[i]] = TRUE]
                /\ running' = [running EXCEPT ![i] = NoRun]
    /\ Continue(p, Tail(prog[p]), cjob[p])
    /\ UNCHANGED <<table, inFlight, requeues, sem, rerun, wpc, wid, wrec,
                   cref, todo, page>>

ClearRequeues(p) ==
    /\ At(p, "clear")
    /\ requeues' = [requeues EXCEPT ![cjob[p].id] = 0]
    /\ Continue(p, Tail(prog[p]), cjob[p])
    /\ UNCHANGED <<table, inFlight, running, sem, worker, cref, todo, page>>

(* The statements that write the row a handler names.                       *)
WriteRow(p) ==
    /\ LET i == cjob[p].id
       IN  \/ /\ At(p, "update")
              /\ rows' = Update(rows, i, NewStatus(p), cjob[p].recover)
           \/ /\ At(p, "toQueue")
              /\ rows' = MoveToQueue(rows, i)
           \/ /\ At(p, "delete")
              /\ rows' = Delete(rows, i)
           \/ /\ At(p, "deleteHistory")
              /\ rows' = DeleteFromHistory(rows, i)
    /\ Continue(p, Tail(prog[p]), cjob[p])
    /\ UNCHANGED <<nextId, crashes, shared, worker, cref, todo, page>>

(* One page of queue.List.  listAllActive collects every page before the    *)
(* loop runs; ResumeQueuedJobs runs the loop on each page.                  *)
ListPage(p) ==
    /\ At(p, "listAll") \/ At(p, "listPage")
    /\ LET more == page[p] + PageSize < Cardinality(ActiveIds(rows))
           listed == {i \in List(rows, page[p], PageSize) :
                        rows[i].status \in LoopStatuses(op[p])}
       IN  /\ todo' = [todo EXCEPT ![p] = @ \cup {JobOf(i) : i \in listed}]
           /\ page' = [page EXCEPT ![p] = IF more THEN @ + PageSize ELSE 0]
           /\ Continue(p, IF more /\ Head(prog[p]) = "listAll"
                          THEN prog[p] ELSE Tail(prog[p]), cjob[p])
    /\ UNCHANGED <<table, shared, worker, cref>>

(* The head of a batch loop: the next listed job in time_added order, the   *)
(* next page, or the end.                                                   *)
Each(p) ==
    /\ At(p, "each")
    /\ \/ \E j \in todo[p] :
            /\ \A k \in todo[p] : j.id <= k.id
            /\ todo' = [todo EXCEPT ![p] = @ \ {j}]
            /\ Continue(p, LoopBody(op[p]) \o <<"each">>, j)
       \/ /\ todo[p] = {}
          /\ Continue(p, IF page[p] = 0 THEN <<>> ELSE <<"listPage", "each">>, NoJob)
          /\ todo' = todo
    /\ UNCHANGED <<table, shared, worker, cref, page>>

-----------------------------------------------------------------------------
(* The worker registry.                                                     *)

(* A jobRun nobody refers to: its goroutine is gone, no registry entry and  *)
(* no request holds it.                                                     *)
Fresh(w) ==
    /\ wpc[w] = "idle"
    /\ \A i \in Ids : inFlight[i] # w
    /\ \A p \in Procs : cref[p] # w

(* LoadOrStore found no entry: register a new jobRun and start its worker.  *)
StartWorker(i) ==
    \E w \in Workers :
        /\ Fresh(w)
        /\ inFlight' = [inFlight EXCEPT ![i] = w]
        /\ rerun' = [rerun EXCEPT ![w] = FALSE]
        /\ wpc' = [wpc EXCEPT ![w] = "load"]
        /\ wid' = [wid EXCEPT ![w] = i]

(* Mutant of dispatchNzoID: every route starts a worker of its own.         *)
DispatchAlwaysStarts(p) ==
    /\ At(p, "dispatch")
    /\ StartWorker(cjob[p].id)
    /\ Continue(p, Tail(prog[p]), cjob[p])
    /\ UNCHANGED <<table, running, requeues, sem, cancelled, wrec, cref, todo, page>>

dispatchNzoID(p) ==
    /\ At(p, "dispatch")
    /\ LET i == cjob[p].id
       IN  \/ /\ inFlight[i] = NoRun
              /\ StartWorker(i)
              /\ Continue(p, Tail(prog[p]), cjob[p])
              /\ cref' = cref
           \/ /\ inFlight[i] # NoRun
              /\ cref' = [cref EXCEPT ![p] = inFlight[i]]
              /\ Continue(p, <<"ask">> \o Tail(prog[p]), cjob[p])
              /\ UNCHANGED <<inFlight, rerun, wpc, wid>>
    /\ UNCHANGED <<table, running, requeues, sem, cancelled, wrec, todo, page>>

askAgain(p) ==
    /\ At(p, "ask")
    /\ rerun' = [rerun EXCEPT ![cref[p]] = TRUE]
    /\ cref' = [cref EXCEPT ![p] = NoRun]
    /\ Continue(p, Tail(prog[p]), cjob[p])
    /\ UNCHANGED <<table, shared, cancelled, wpc, wid, wrec, todo, page>>

-----------------------------------------------------------------------------
(* The worker.                                                              *)

Goto(w, from, to) ==
    /\ wpc[w] = from
    /\ wpc' = [wpc EXCEPT ![w] = to]

(* Mutant of Load: reload with GetByNzoID, which also finds history rows.   *)
LoadAnyRow(w) ==
    /\ Goto(w, "load", IF Present(rows[wid[w]]) THEN "register" ELSE "quit")
    /\ wrec' = [wrec EXCEPT ![w] = rows[wid[w]].recover]
    /\ UNCHANGED <<table, shared, rerun, cancelled, wid, request>>

(* The top of runJob's loop: reload the job.                                *)
Load(w) ==
    /\ wpc[w] = "load"
    /\ LET row == rows[wid[w]]
       IN  IF Active(row)
           THEN /\ Goto(w, "load", "register")
                /\ wrec' = [wrec EXCEPT ![w] = row.recover]
           ELSE /\ Goto(w, "load", "quit")
                /\ wrec' = wrec
    /\ UNCHANGED <<table, shared, rerun, cancelled, wid, request>>

(* processDownload makes a fresh context and registers its cancel func.     *)
Register(w) ==
    /\ Goto(w, "register", "check")
    /\ running' = [running EXCEPT ![wid[w]] = w]
    /\ cancelled' = [cancelled EXCEPT ![w] = FALSE]
    /\ UNCHANGED <<table, inFlight, requeues, sem, rerun, wid, wrec, request>>

(* The top of the admission loop, up to the select: give up if cancelled,   *)
(* else park for as long as the break gate and the circuits ask.            *)
CheckCancelled(w) ==
    /\ Goto(w, "check", IF cancelled[w] THEN "unregister" ELSE "select")
    /\ UNCHANGED <<table, shared, rerun, cancelled, wid, wrec, request>>

(* The select: take a slot, or see the cancellation.  When both are ready   *)
(* Go picks either.                                                         *)
TakeSlot(w) ==
    /\ sem < MaxConcurrent
    /\ Goto(w, "select", "slot")
    /\ sem' = sem + 1
    /\ UNCHANGED <<table, inFlight, running, requeues, rerun, cancelled, wid,
                   wrec, request>>

(* Mutant of LeaveSelect: the release is deferred before the slot is taken. *)
LeaveSelectReleasing(w) ==
    /\ cancelled[w]
    /\ Goto(w, "select", "unregister")
    /\ sem' = sem - 1
    /\ UNCHANGED <<table, inFlight, running, requeues, rerun, cancelled, wid,
                   wrec, request>>

LeaveSelect(w) ==
    /\ cancelled[w]
    /\ Goto(w, "select", "unregister")
    /\ UNCHANGED <<table, shared, rerun, cancelled, wid, wrec, request>>

(* Mutant of GiveSlotBack: park again without giving the slot back.         *)
ParkWithSlot(w) ==
    /\ Goto(w, "slot", "check")
    /\ UNCHANGED <<table, shared, rerun, cancelled, wid, wrec, request>>

(* anyCandidateAllowed said no: give the slot back and park again.          *)
GiveSlotBack(w) ==
    /\ Goto(w, "slot", "check")
    /\ sem' = sem - 1
    /\ UNCHANGED <<table, inFlight, running, requeues, rerun, cancelled, wid,
                   wrec, request>>

(* What the worker writes to its row: its own copy, with a new status.      *)
WriteStatus(w, status) == rows' = Update(rows, wid[w], status, wrec[w])

beginDownload(w) ==
    /\ Goto(w, "slot", "run")
    /\ WriteStatus(w, "Downloading")
    /\ UNCHANGED <<nextId, crashes, shared, rerun, cancelled, wid, wrec, request>>

(* Progress and metadata events, and the switch to a fallback service.      *)
handleProgressEvent(w) ==
    /\ wpc[w] = "run"
    /\ WriteStatus(w, "Downloading")
    /\ UNCHANGED <<nextId, crashes, shared, worker, request>>

(* Mutant of handleCompleteEvent: the row is archived but attemptDownload   *)
(* goes on reading events.                                                  *)
CompleteKeepsReading(w) ==
    /\ wpc[w] = "run"
    /\ rows' = MoveToHistory(Update(rows, wid[w], "Completed", wrec[w]), wid[w])
    /\ UNCHANGED <<nextId, crashes, shared, worker, request>>

handleCompleteEvent(w) ==
    /\ Goto(w, "run", "archive")
    /\ requeues' = [requeues EXCEPT ![wid[w]] = 0]
    /\ WriteStatus(w, "Completed")
    /\ UNCHANGED <<nextId, crashes, inFlight, running, sem, rerun, cancelled,
                   wid, wrec, request>>

(* The attempts failed (or the output directory could not be prepared).     *)
failJob(w) ==
    /\ Goto(w, "run", "archive") \/ Goto(w, "slot", "archive")
    /\ requeues' = [requeues EXCEPT ![wid[w]] = 0]
    /\ WriteStatus(w, "Failed")
    /\ UNCHANGED <<nextId, crashes, inFlight, running, sem, rerun, cancelled,
                   wid, wrec, request>>

(* The second statement of handleCompleteEvent and of failJob.              *)
Archive(w) ==
    /\ Goto(w, "archive", "release")
    /\ rows' = MoveToHistory(rows, wid[w])
    /\ UNCHANGED <<nextId, crashes, shared, rerun, cancelled, wid, wrec, request>>

(* requeueAfterCooldown and requeueUnattempted: back to Queued ...          *)
requeue(w) ==
    /\ Goto(w, "run", "redispatch")
    /\ requeues[wid[w]] < MaxRequeues
    /\ requeues' = [requeues EXCEPT ![wid[w]] = @ + 1]
    /\ WriteStatus(w, "Queued")
    /\ UNCHANGED <<nextId, crashes, inFlight, running, sem, rerun, cancelled,
                   wid, wrec, request>>

(* Mutant of Redispatch: "already in flight" refuses the request.           *)
RedispatchRefused(w) ==
    /\ Goto(w, "redispatch", "release")
    /\ UNCHANGED <<table, shared, rerun, cancelled, wid, wrec, request>>

(* ... and dispatch it from inside the worker that is about to return.      *)
(* LoadOrStore finds the worker's own entry, which only it can remove.      *)
Redispatch(w) ==
    /\ Goto(w, "redispatch", "release")
    /\ inFlight[wid[w]] # NoRun
    /\ rerun' = [rerun EXCEPT ![inFlight[wid[w]]] = TRUE]
    /\ UNCHANGED <<table, shared, cancelled, wid, wrec, request>>

(* The deferred calls of processDownload, innermost first.                  *)
ReleaseSlot(w) ==
    /\ Goto(w, "release", "unregister")
    /\ sem' = sem - 1
    /\ UNCHANGED <<table, inFlight, running, requeues, rerun, cancelled, wid,
                   wrec, request>>

(* Mutant of Unregister: the cancel func stays in h.running.                *)
UnregisterNothing(w) ==
    /\ Goto(w, "unregister", "again")
    /\ cancelled' = [cancelled EXCEPT ![w] = FALSE]
    /\ UNCHANGED <<table, shared, rerun, wid, wrec, request>>

(* running.Delete and cancelWait; the context of the pass is gone.          *)
Unregister(w) ==
    /\ Goto(w, "unregister", "again")
    /\ running' = [running EXCEPT ![wid[w]] = NoRun]
    /\ cancelled' = [cancelled EXCEPT ![w] = FALSE]
    /\ UNCHANGED <<table, inFlight, requeues, sem, rerun, wid, wrec, request>>

takeRerun(w) ==
    /\ Goto(w, "again", IF rerun[w] THEN "load" ELSE "retire")
    /\ rerun' = [rerun EXCEPT ![w] = FALSE]
    /\ UNCHANGED <<table, shared, cancelled, wid, wrec, request>>

(* retireJob, for its two callers.  The one after a failed reload ("quit")  *)
(* returns whatever the answer was.                                         *)
Exit(w) ==
    /\ wpc' = [wpc EXCEPT ![w] = "idle"]
    /\ wid' = [wid EXCEPT ![w] = 0]
    /\ wrec' = [wrec EXCEPT ![w] = 0]

(* Mutant of retireJob: the worker goes without removing its entry.         *)
RetireWithoutDelete(w) ==
    /\ wpc[w] \in {"retire", "quit"}
    /\ Exit(w)
    /\ UNCHANGED <<table, shared, rerun, cancelled, request>>

retireJob(w) ==
    /\ wpc[w] \in {"retire", "quit"}
    /\ IF rerun[w]
       THEN /\ rerun' = [rerun EXCEPT ![w] = FALSE]
            /\ inFlight' = inFlight
            /\ IF wpc[w] = "quit" THEN Exit(w)
               ELSE Goto(w, "retire", "load") /\ UNCHANGED <<wid, wrec>>
       ELSE /\ inFlight' = [i \in Ids |-> IF i = wid[w] /\ inFlight[i] = w
                                          THEN NoRun ELSE inFlight[i]]
            /\ Exit(w)
            /\ rerun' = rerun
    /\ UNCHANGED <<table, running, requeues, sem, cancelled, request>>

-----------------------------------------------------------------------------

(* The process dies and starts again: memory is lost, queue.New sweeps the  *)
(* table, and Main runs ResumeQueuedJobs before it listens.                 *)
Restart ==
    /\ crashes < MaxCrashes
    /\ crashes' = crashes + 1
    /\ rows' = RecoverStuckJobs(rows)
    /\ inFlight' = [i \in Ids |-> NoRun]
    /\ running' = [i \in Ids |-> NoRun]
    /\ requeues' = [i \in Ids |-> 0]
    /\ sem' = 0
    /\ rerun' = [w \in Workers |-> FALSE]
    /\ cancelled' = [w \in Workers |-> FALSE]
    /\ wpc' = [w \in Workers |-> "idle"]
    /\ wid' = [w \in Workers |-> 0]
    /\ wrec' = [w \in Workers |-> 0]
    /\ prog' = [p \in Procs |-> IF p = Main THEN ResumeQueuedJobs ELSE <<>>]
    /\ op' = [p \in Procs |-> IF p = Main THEN "ResumeQueued" ELSE "none"]
    /\ cjob' = [p \in Procs |-> NoJob]
    /\ cref' = [p \in Procs |-> NoRun]
    /\ todo' = [p \in Procs |-> {}]
    /\ page' = [p \in Procs |-> 0]
    /\ UNCHANGED nextId

Handle(p) ==
    \/ FindActive(p) \/ Prune(p) \/ Insert(p) \/ Get(p) \/ CancelJob(p)
    \/ ClearRequeues(p) \/ WriteRow(p) \/ ListPage(p) \/ Each(p)
    \/ dispatchNzoID(p) \/ askAgain(p)

(* The end of a pass, one way or another.                                   *)
Conclude(w) == handleCompleteEvent(w) \/ failJob(w) \/ requeue(w)

RunJob(w) ==
    \/ Load(w) \/ Register(w) \/ CheckCancelled(w) \/ TakeSlot(w)
    \/ LeaveSelect(w) \/ beginDownload(w) \/ Conclude(w) \/ Archive(w)
    \/ Redispatch(w) \/ ReleaseSlot(w) \/ Unregister(w) \/ takeRerun(w)
    \/ retireJob(w)

Next ==
    \/ \E c \in Clients : Request(c)
    \/ \E p \in Procs : Handle(p)
    \/ \E w \in Workers : RunJob(w) \/ GiveSlotBack(w) \/ handleProgressEvent(w)
    \/ Restart

Spec == Init /\ [][Next]_vars

(* A goroutine that can move does, and a pass ends: every attempt is        *)
(* bounded by the job's budget of two JobTimeouts.  Blocked senders on      *)
(* h.sem are served in order, and the circuits of a job's services are not  *)
(* found open again each time it has taken a slot.  Nothing obliges a       *)
(* client to send a request, or the process to crash.                       *)
Fairness ==
    /\ \A p \in Procs : WF_vars(Handle(p))
    /\ \A w \in Workers : /\ WF_vars(RunJob(w))
                          /\ SF_vars(TakeSlot(w))
                          /\ SF_vars(beginDownload(w) \/ failJob(w))

FairSpec == Spec /\ Fairness

-----------------------------------------------------------------------------
(* Properties.                                                              *)

PCs == {"idle", "load", "register", "check", "select", "slot", "run",
        "redispatch", "archive", "release", "unregister", "again", "retire",
        "quit"}

Steps == {"find", "prune", "insert", "dispatch", "ask", "get", "getAny",
          "cancel", "cancelDownload", "clear", "update", "toQueue", "delete",
          "deleteHistory", "listAll", "listPage", "each"}

(* Where a worker holds one of the slots of h.sem.                          *)
SlotPCs == {"slot", "run", "redispatch", "archive", "release"}

(* Where it has loaded its row and may still write to it.                   *)
OwningPCs == {"register", "check", "select", "slot", "run", "archive"}

Runs(w, i) == wpc[w] # "idle" /\ wid[w] = i

(* Type correctness of every variable.                                      *)
TypeOK ==
    /\ rows \in [Ids -> Row]
    /\ nextId \in 1..(MaxJobs + 1)
    /\ crashes \in Nat
    /\ inFlight \in [Ids -> Workers \cup {NoRun}]
    /\ running \in [Ids -> Workers \cup {NoRun}]
    /\ requeues \in [Ids -> Nat]
    /\ sem \in 0..MaxConcurrent
    /\ rerun \in [Workers -> BOOLEAN]
    /\ cancelled \in [Workers -> BOOLEAN]
    /\ wpc \in [Workers -> PCs]
    /\ wid \in [Workers -> 0..MaxJobs]
    /\ wrec \in [Workers -> Nat]
    /\ prog \in [Procs -> Seq(Steps)]
    /\ op \in [Procs -> AllOps \cup {"none", "ResumeQueued"}]
    /\ cjob \in [Procs -> Job]
    /\ cref \in [Procs -> Workers \cup {NoRun}]
    /\ todo \in [Procs -> SUBSET {j \in Job : j.id \in Ids}]
    /\ page \in [Procs -> Nat]

(* dispatchJob's promise: however requests, requeues and restarts           *)
(* interleave, no job ever has two workers.                                 *)
AtMostOneWorker ==
    \A v, w \in Workers : \A i \in Ids : Runs(v, i) /\ Runs(w, i) => v = w

(* The row of a job whose worker may still write to it is never in history, *)
(* so no progress write can turn a historical row back to Downloading - the *)
(* failure dispatchJob's comment describes.                                 *)
WorkerNeverInHistory ==
    \A w \in Workers :
        wpc[w] \in OwningPCs => ~InHistory(rows[wid[w]])

(* Every unit of h.sem that is in use is held by exactly one worker that is *)
(* between taking a slot and the deferred release: no path through          *)
(* processDownload leaks a slot or releases one twice.                      *)
SlotsAccountedFor ==
    sem = Cardinality({w \in Workers : wpc[w] \in SlotPCs})

(* A cancel func in h.running cancels the pass that is going on now for     *)
(* that very job: CancelJob never stops somebody else's download and never  *)
(* finds the leftover of a finished pass.                                   *)
CancelReachesOwnPass ==
    \A i \in Ids : running[i] # NoRun =>
        /\ Runs(running[i], i)
        /\ wpc[running[i]] \in OwningPCs \cup {"redispatch", "release", "unregister"}

(* A Downloading row in the active queue is being downloaded: a worker of   *)
(* that job is between beginDownload and its final write, also after any    *)
(* number of restarts.                                                      *)
DownloadingHasWorker ==
    \A i \in Ids : Active(rows[i]) /\ rows[i].status = "Downloading" =>
        \E w \in Workers : Runs(w, i) /\ wpc[w] \in {"run", "archive"}

(* Somebody will still look at job i: a worker whose pass is not over, or   *)
(* one that was asked to run again, a request that names the job, or the    *)
(* start-up sweep.                                                          *)
Attended(i) ==
    \/ prog[Main] # <<>>
    \/ \E c \in Clients : prog[c] # <<>> /\ cjob[c].id = i
    \/ \E w \in Workers :
        /\ Runs(w, i)
        /\ \/ rerun[w]
           \/ wpc[w] \in {"load", "register", "slot", "run", "redispatch", "archive"}
           \/ wpc[w] \in {"check", "select"} /\ ~cancelled[w]

(* No job is stranded: a Queued row always has somebody to run it.          *)
NoStrandedJob ==
    \A i \in Ids :
        Active(rows[i]) /\ rows[i].status = "Queued" => Attended(i)

(* History reports outcomes: docs/API.md lists Completed and Failed as its  *)
(* only statuses.                                                           *)
HistoryIsTerminal ==
    \A i \in Ids : InHistory(rows[i]) => rows[i].status \in TerminalStatuses

(* A registry entry stands for a worker that is alive, as dispatchNzoID     *)
(* takes for granted when it asks "it" to run again instead of starting one.*)
RegisteredIsAlive ==
    \A i \in Ids : inFlight[i] # NoRun => Runs(inFlight[i], i)

(* Only a worker decides an outcome, and only once: a row in history keeps  *)
(* its status until it is retried or deleted.                               *)
OutcomeIsFinal ==
    [][\A i \in Ids : InHistory(rows[i]) /\ InHistory(rows[i])' =>
            rows'[i].status = rows[i].status]_vars

(* Every job in the queue gets an outcome or is deleted, across restarts    *)
(* too: none stays Queued, Paused or Downloading for ever.                  *)
EveryJobSettles ==
    \A i \in Ids :
        (Active(rows[i]) /\ rows[i].status \in ActiveStatuses) ~>
            ~(Active(rows[i]) /\ rows[i].status \in ActiveStatuses)
=============================================================================
