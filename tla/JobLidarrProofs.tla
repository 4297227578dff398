-------------------------- MODULE JobLidarrProofs --------------------------
(***************************************************************************)
(* What JobLifecycle keeps while its clients add jobs and delete them, in  *)
(* the queue and in history, which is what Lidarr's SABnzbd client does:   *)
(* for any number of jobs, clients, workers, slots and restarts.  With the *)
(* other operations these properties fail: a paused job may end in history *)
(* as Paused, a resumed one may ask a dead worker to run again.            *)
(*                                                                         *)
(* Three invariants, each on top of SafetyInv and the ones before:         *)
(*   LidarrInv    no job is dispatched that has a worker, so no dispatch   *)
(*                leaves a registry entry behind;                          *)
(*   OutcomeInv   history holds outcomes, and a download has its worker;   *)
(*   StrandInv    a Queued row has somebody that will look at it.          *)
(***************************************************************************)
EXTENDS JobLifecycleProofs

LidarrOnly == Ops \subseteq {"AddURL", "Delete", "HistoryDelete"}

(* The step a program is at.                                                *)
StepOf(s) == IF s = <<>> THEN "none" ELSE Head(s)
Step(p) == StepOf(prog[p])

(* What may be left of a request, and of the start-up sweep.  None of them  *)
(* ever asks a worker to run again.                                         *)
ClientPrograms ==
    {<<>>, <<"find", "prune", "insert", "dispatch">>, <<"prune", "insert", "dispatch">>,
     <<"insert", "dispatch">>, <<"dispatch">>,
     <<"cancel", "clear", "delete">>, <<"clear", "delete">>, <<"delete">>,
     <<"cancel", "deleteHistory", "clear">>, <<"deleteHistory", "clear">>, <<"clear">>}
SweepPrograms ==
    {<<>>, <<"listPage", "each">>, <<"each">>, <<"dispatch", "each">>}

Nameless == {"none", "find", "prune", "insert"}

(* The sweep runs before the server listens.                                *)
MainAlone ==
    /\ prog[Main] \in SweepPrograms
    /\ prog[Main] # <<>> => op[Main] = "ResumeQueued" /\ \A c \in Clients : prog[c] = <<>>

(* A request has an nzo_id that was given out, or has none yet.             *)
RequestsNamed ==
    \A c \in Clients :
        /\ prog[c] \in ClientPrograms
        /\ IF Step(c) \in Nameless
           THEN cjob[c].id \notin Ids
           ELSE cjob[c].id \in Ids /\ cjob[c].id < nextId

(* An nzo_id that was not given out has neither row nor worker.             *)
Unborn ==
    /\ \A i \in Ids : Present(rows[i]) => i < nextId
    /\ \A w \in Workers : wpc[w] # "idle" => wid[w] < nextId

(* A job is dispatched by the one request that created it, and has no       *)
(* worker before.                                                           *)
DispatchedOnce ==
    \A c \in Clients : Step(c) = "dispatch" =>
        /\ inFlight[cjob[c].id] = NoRun
        /\ \A d \in Clients : Step(d) = "dispatch" /\ cjob[d].id = cjob[c].id => d = c

(* How many active rows come before row i, in the order pages are read.     *)
Position(t, i) == Cardinality({j \in ActiveIds(t) : j < i})

(* The sweep dispatches no job twice: what it has listed, and what it has   *)
(* still to list, has no worker.                                            *)
SweptOnce ==
    /\ \A j \in todo[Main] : inFlight[j.id] = NoRun /\ j.id < nextId
    /\ \A j, k \in todo[Main] : j.id = k.id => j = k
    /\ Step(Main) \in {"none", "listPage"} => todo[Main] = {}
    /\ Step(Main) = "none" => page[Main] = 0
    /\ Step(Main) = "dispatch" =>
        /\ cjob[Main].id \in Ids /\ cjob[Main].id < nextId
        /\ inFlight[cjob[Main].id] = NoRun
        /\ \A j \in todo[Main] : j.id # cjob[Main].id
    /\ page[Main] # 0 \/ Step(Main) = "listPage" =>
        \A i \in ActiveIds(rows) : page[Main] <= Position(rows, i) =>
            /\ inFlight[i] = NoRun
            /\ \A j \in todo[Main] : j.id # i
            /\ Step(Main) = "dispatch" => cjob[Main].id # i

(* So only a worker's own requeue asks it to run again, and it takes the    *)
(* request before it looks for the end of its life.                         *)
RerunIsOwn ==
    \A w \in Workers : rerun[w] => wpc[w] \in {"release", "unregister", "again"}

LidarrInv ==
    /\ MainAlone
    /\ RequestsNamed
    /\ Unborn
    /\ DispatchedOnce
    /\ SweptOnce
    /\ RerunIsOwn
    /\ RegisteredIsAlive

(* The row a worker is about to archive has its outcome.                    *)
ArchivesAnOutcome ==
    \A w \in Workers : wpc[w] = "archive" /\ Present(rows[wid[w]]) =>
        rows[wid[w]].status \in TerminalStatuses

(* What history says of a job, and what the active queue says of a download.*)
OutcomeInv ==
    /\ ArchivesAnOutcome
    /\ HistoryIsTerminal
    /\ DownloadingHasWorker

(* What OutcomeIsFinal says of a step.                                      *)
FinalStep ==
    \A i \in Ids : InHistory(rows[i]) /\ InHistory(rows[i])' => rows'[i].status = rows[i].status

(* Without mode=history deletes a cancelled pass is one whose row is being  *)
(* deleted.                                                                 *)
QueueOnly == Ops \subseteq {"AddURL", "Delete"}

QueuePrograms ==
    {<<>>, <<"find", "prune", "insert", "dispatch">>, <<"prune", "insert", "dispatch">>,
     <<"insert", "dispatch">>, <<"dispatch">>,
     <<"cancel", "clear", "delete">>, <<"clear", "delete">>, <<"delete">>}

(* What ResumeQueuedJobs has to list fits on one page.  Between two pages   *)
(* of a longer list the workers already started archive jobs, and the rows  *)
(* that move up a page are not listed.                                      *)
OnePage == Step(Main) = "listPage" => Cardinality(ActiveIds(rows)) <= PageSize

Deleting(i) == \E c \in Clients : Step(c) \in {"clear", "delete"} /\ cjob[c].id = i

CancelledIsDeleted ==
    \A w \in Workers : cancelled[w] =>
        wpc[w] \in CancelPCs /\ (Present(rows[wid[w]]) => Deleting(wid[w]))

(* A worker whose pass goes on, or that was asked to run again.             *)
Tends(w) ==
    \/ rerun[w]
    \/ wpc[w] \in {"load", "register", "slot", "run", "redispatch", "archive"}
    \/ wpc[w] \in {"check", "select"} /\ ~cancelled[w]

ByClient(i) == \E c \in Clients : Step(c) # "none" /\ cjob[c].id = i
BySweep(i) ==
    \/ Step(Main) = "listPage"
    \/ \E j \in todo[Main] : j.id = i
    \/ Step(Main) = "dispatch" /\ cjob[Main].id = i
ByWorker(i) == \E w \in Workers : Runs(w, i) /\ Tends(w)

(* A Queued row has somebody of its own, in the start-up sweep too.         *)
Waiting(i) == Active(rows[i]) /\ rows[i].status = "Queued"
QueuedIsTended ==
    \A i \in Ids : Waiting(i) => ByClient(i) \/ BySweep(i) \/ ByWorker(i)

StrandInv ==
    /\ \A c \in Clients : prog[c] \in QueuePrograms
    /\ page[Main] = 0
    /\ CancelledIsDeleted
    /\ QueuedIsTended

-----------------------------------------------------------------------------
(* Programs.                                                                *)

(* The first step of what may be left of a program.                         *)
LEMMA ProgramHeads ==
    /\ StepOf(<<>>) = "none"
    /\ StepOf(<<"find", "prune", "insert", "dispatch">>) = "find"
    /\ StepOf(<<"prune", "insert", "dispatch">>) = "prune"
    /\ StepOf(<<"insert", "dispatch">>) = "insert"
    /\ StepOf(<<"dispatch">>) = "dispatch"
    /\ StepOf(<<"cancel", "clear", "delete">>) = "cancel"
    /\ StepOf(<<"clear", "delete">>) = "clear"
    /\ StepOf(<<"delete">>) = "delete"
    /\ StepOf(<<"cancel", "deleteHistory", "clear">>) = "cancel"
    /\ StepOf(<<"deleteHistory", "clear">>) = "deleteHistory"
    /\ StepOf(<<"clear">>) = "clear"
    /\ StepOf(<<"listPage", "each">>) = "listPage"
    /\ StepOf(<<"each">>) = "each"
    /\ StepOf(<<"dispatch", "each">>) = "dispatch"
BY DEF StepOf

(* What is left of it after that step.                                      *)
LEMMA ProgramTails ==
    /\ Tail(<<"find", "prune", "insert", "dispatch">>) = <<"prune", "insert", "dispatch">>
    /\ Tail(<<"prune", "insert", "dispatch">>) = <<"insert", "dispatch">>
    /\ Tail(<<"insert", "dispatch">>) = <<"dispatch">>
    /\ Tail(<<"dispatch">>) = <<>>
    /\ Tail(<<"cancel", "clear", "delete">>) = <<"clear", "delete">>
    /\ Tail(<<"clear", "delete">>) = <<"delete">>
    /\ Tail(<<"delete">>) = <<>>
    /\ Tail(<<"cancel", "deleteHistory", "clear">>) = <<"deleteHistory", "clear">>
    /\ Tail(<<"deleteHistory", "clear">>) = <<"clear">>
    /\ Tail(<<"clear">>) = <<>>
    /\ Tail(<<"listPage", "each">>) = <<"each">>
    /\ Tail(<<"dispatch", "each">>) = <<"each">>
OBVIOUS

(* A request of Lidarr's goes through its steps in the order of its program.*)
LEMMA ClientTails ==
    ASSUME NEW s \in ClientPrograms
    PROVE  /\ StepOf(s) \in {"none", "find", "prune", "insert", "dispatch", "cancel",
                             "clear", "delete", "deleteHistory"}
           /\ StepOf(s) = "none" => s = <<>>
           /\ s # <<>> => Tail(s) \in ClientPrograms
           /\ StepOf(s) = "find" => StepOf(Tail(s)) = "prune"
           /\ StepOf(s) = "prune" => StepOf(Tail(s)) = "insert"
           /\ StepOf(s) = "insert" => StepOf(Tail(s)) = "dispatch"
           /\ StepOf(s) = "dispatch" => Tail(s) = <<>>
           /\ StepOf(s) = "cancel" => StepOf(Tail(s)) \in {"clear", "deleteHistory"}
           /\ StepOf(s) = "deleteHistory" => StepOf(Tail(s)) = "clear"
           /\ StepOf(s) = "clear" => Tail(s) = <<>> \/ StepOf(Tail(s)) = "delete"
           /\ StepOf(s) = "delete" => Tail(s) = <<>>
<1>1. CASE s = <<>>
  BY <1>1, ProgramHeads
<1>2. CASE s = <<"find", "prune", "insert", "dispatch">>
  BY <1>2, ProgramHeads, ProgramTails DEF ClientPrograms
<1>3. CASE s = <<"prune", "insert", "dispatch">>
  BY <1>3, ProgramHeads, ProgramTails DEF ClientPrograms
<1>4. CASE s = <<"insert", "dispatch">>
  BY <1>4, ProgramHeads, ProgramTails DEF ClientPrograms
<1>5. CASE s = <<"dispatch">>
  BY <1>5, ProgramHeads, ProgramTails DEF ClientPrograms
<1>6. CASE s = <<"cancel", "clear", "delete">>
  BY <1>6, ProgramHeads, ProgramTails DEF ClientPrograms
<1>7. CASE s = <<"clear", "delete">>
  BY <1>7, ProgramHeads, ProgramTails DEF ClientPrograms
<1>8. CASE s = <<"delete">>
  BY <1>8, ProgramHeads, ProgramTails DEF ClientPrograms
<1>9. CASE s = <<"cancel", "deleteHistory", "clear">>
  BY <1>9, ProgramHeads, ProgramTails DEF ClientPrograms
<1>10. CASE s = <<"deleteHistory", "clear">>
  BY <1>10, ProgramHeads, ProgramTails DEF ClientPrograms
<1>11. CASE s = <<"clear">>
  BY <1>11, ProgramHeads, ProgramTails DEF ClientPrograms
<1> QED
  BY <1>1, <1>2, <1>3, <1>4, <1>5, <1>6, <1>7, <1>8, <1>9, <1>10, <1>11 DEF ClientPrograms

(* What is left of the sweep when one of its steps is done.                 *)
LEMMA SweepTails ==
    ASSUME NEW s \in SweepPrograms
    PROVE  /\ StepOf(s) \in {"none", "listPage", "each", "dispatch"}
           /\ StepOf(s) = "none" => s = <<>>
           /\ StepOf(s) \in {"listPage", "dispatch"} => Tail(s) = <<"each">>
<1>1. CASE s = <<>>
  BY <1>1, ProgramHeads
<1>2. CASE s = <<"listPage", "each">>
  BY <1>2, ProgramHeads, ProgramTails
<1>3. CASE s = <<"each">>
  BY <1>3, ProgramHeads
<1>4. CASE s = <<"dispatch", "each">>
  BY <1>4, ProgramHeads, ProgramTails
<1> QED
  BY <1>1, <1>2, <1>3, <1>4 DEF SweepPrograms

(* The body of the sweep's loop.                                            *)
LEMMA SweepBody == LoopBody("ResumeQueued") \o <<"each">> = <<"dispatch", "each">>
<1>1. LoopBody("ResumeQueued") = <<"dispatch">>
  BY DEF LoopBody
<1>2. <<"dispatch">> \o <<"each">> = <<"dispatch", "each">>
  <2> DEFINE both == <<"dispatch">> \o <<"each">>
  <2>a. /\ <<"dispatch">> \in Seq(Steps) /\ <<"each">> \in Seq(Steps)
        /\ Len(<<"dispatch">>) = 1 /\ Len(<<"each">>) = 1
        /\ <<"dispatch">>[1] = "dispatch" /\ <<"each">>[1] = "each"
    BY DEF Steps
  <2>1. both \in Seq(Steps) /\ Len(both) = 2 /\ both[1] = "dispatch" /\ both[2] = "each"
    BY <2>a
  <2>2. <<"dispatch", "each">> \in Seq(Steps) /\ Len(<<"dispatch", "each">>) = 2
    BY DEF Steps
  <2>3. \A i \in 1..2 : both[i] = <<"dispatch", "each">>[i]
    BY <2>1
  <2> HIDE DEF both
  <2>4. both = <<"dispatch", "each">>
    BY <2>1, <2>2, <2>3, SeqEqual
  <2> QED
    BY <2>4 DEF both
<1> QED
  BY <1>1, <1>2

(* The steps a request of Lidarr's, or the sweep, can be at.                *)
LEMMA LidarrSteps ==
    ASSUME LidarrInv, NEW p \in Procs, Handle(p)
    PROVE  \/ p \in Clients /\ \/ FindActive(p) \/ Prune(p) \/ Insert(p)
                               \/ CancelJob(p) /\ Step(p) = "cancel"
                               \/ ClearRequeues(p)
                               \/ WriteRow(p) /\ Step(p) \in {"delete", "deleteHistory"}
                               \/ dispatchNzoID(p)
           \/ p = Main /\ \/ ListPage(p) /\ Step(p) = "listPage"
                          \/ Each(p) \/ dispatchNzoID(p)
<1>1. CASE p \in Clients
  <2>1. Step(p) \in {"none", "find", "prune", "insert", "dispatch", "cancel", "clear",
                     "delete", "deleteHistory"}
    BY <1>1, ClientTails DEF LidarrInv, RequestsNamed, Step
  <2> QED
    BY <1>1, <2>1 DEF Handle, Step, StepOf, At, FindActive, Prune, Insert, Get, CancelJob,
       ClearRequeues, WriteRow, ListPage, Each, dispatchNzoID, askAgain
<1>2. CASE p = Main
  <2>1. Step(p) \in {"none", "listPage", "each", "dispatch"}
    BY <1>2, SweepTails DEF LidarrInv, MainAlone, Step
  <2> QED
    BY <1>2, <2>1 DEF Handle, Step, StepOf, At, FindActive, Prune, Insert, Get, CancelJob,
       ClearRequeues, WriteRow, ListPage, Each, dispatchNzoID, askAgain
<1> QED
  BY <1>1, <1>2 DEF Procs

-----------------------------------------------------------------------------
(* What the steps do to what LidarrInv speaks of.                           *)

(* A request without a job names none.                                      *)
LEMMA NoJobNoId == NoJob.id \notin Ids
<1>1. MaxJobs \in Nat
  BY StoreAssumption
<1> QED
  BY <1>1 DEF NoJob, Ids

(* A request's own statements: they take rows away, and lead to no dispatch. *)
LEMMA ClientStep ==
    ASSUME SafetyInv, LidarrInv, NEW c \in Clients,
           \/ FindActive(c) \/ Prune(c)
           \/ CancelJob(c) /\ Step(c) = "cancel"
           \/ ClearRequeues(c)
           \/ WriteRow(c) /\ Step(c) \in {"delete", "deleteHistory"}
    PROVE  /\ UNCHANGED <<nextId, crashes, inFlight, rerun, wpc, wid, todo, page>>
           /\ \A i \in Ids : rows'[i] = rows[i] \/ rows'[i] = NoRow
           /\ \A q \in Procs \ {c} : prog'[q] = prog[q] /\ cjob'[q] = cjob[q] /\ op'[q] = op[q]
           /\ prog'[c] \in ClientPrograms
           /\ StepOf(prog'[c]) # "dispatch"
           /\ StepOf(prog'[c]) \in Nameless => cjob'[c].id \notin Ids
           /\ StepOf(prog'[c]) \notin Nameless =>
                    cjob'[c].id = cjob[c].id /\ Step(c) \notin Nameless
<1>a. TypeOK /\ c \in Procs /\ prog[c] \in ClientPrograms /\ rows \in [Ids -> Row]
  BY DEF SafetyInv, TypeOK, LidarrInv, RequestsNamed, Procs
<1>b. <<>> \in ClientPrograms /\ StepOf(<<>>) = "none" /\ NoJob.id \notin Ids
  BY NoJobNoId, ProgramHeads DEF ClientPrograms
<1>c. Step(c) \in Nameless => cjob[c].id \notin Ids
  BY DEF LidarrInv, RequestsNamed
<1>1. CASE FindActive(c)
  <2>1. Step(c) = "find" /\ Tail(prog[c]) \in ClientPrograms /\ StepOf(Tail(prog[c])) = "prune"
    BY <1>1, <1>a, ClientTails DEF FindActive, At, Step, StepOf
  <2>2. /\ UNCHANGED <<table, shared, worker, cref, todo, page>>
        /\ Continue(c, <<>>, NoJob) \/ Continue(c, Tail(prog[c]), cjob[c])
    BY <1>1 DEF FindActive
  <2>3. CASE Continue(c, <<>>, NoJob)
    <3>1. prog'[c] = <<>> /\ cjob'[c] = NoJob
          /\ \A q \in Procs \ {c} : prog'[q] = prog[q] /\ cjob'[q] = cjob[q] /\ op'[q] = op[q]
      BY <1>a, <2>3 DEF Continue, TypeOK
    <3> QED
      BY <1>b, <2>2, <3>1 DEF table, shared, worker, Nameless
  <2>4. CASE Continue(c, Tail(prog[c]), cjob[c])
    <3>1. Tail(prog[c]) # <<>>
      BY <1>b, <2>1
    <3>2. prog'[c] = Tail(prog[c]) /\ cjob'[c] = cjob[c]
          /\ \A q \in Procs \ {c} : prog'[q] = prog[q] /\ cjob'[q] = cjob[q] /\ op'[q] = op[q]
      BY <1>a, <2>4, <3>1 DEF Continue, TypeOK
    <3> QED
      BY <1>c, <2>1, <2>2, <3>2 DEF table, shared, worker, Nameless
  <2> QED
    BY <2>2, <2>3, <2>4
<1>d. ASSUME Continue(c, Tail(prog[c]), cjob[c]),
             Step(c) \in {"prune", "cancel", "clear", "delete", "deleteHistory"}
      PROVE  /\ \A q \in Procs \ {c} : prog'[q] = prog[q] /\ cjob'[q] = cjob[q] /\ op'[q] = op[q]
             /\ prog'[c] \in ClientPrograms
             /\ StepOf(prog'[c]) # "dispatch"
             /\ StepOf(prog'[c]) \in Nameless => cjob'[c].id \notin Ids
             /\ StepOf(prog'[c]) \notin Nameless =>
                    cjob'[c].id = cjob[c].id /\ Step(c) \notin Nameless
  <2>1. /\ prog'[c] = Tail(prog[c])
        /\ Tail(prog[c]) = <<>> => cjob'[c] = NoJob
        /\ Tail(prog[c]) # <<>> => cjob'[c] = cjob[c]
        /\ \A q \in Procs \ {c} : prog'[q] = prog[q] /\ cjob'[q] = cjob[q] /\ op'[q] = op[q]
    BY <1>a, <1>d DEF Continue, TypeOK
  <2>2. prog[c] # <<>>
    BY <1>b, <1>d DEF Step
  <2>3. /\ Tail(prog[c]) \in ClientPrograms
        /\ Step(c) = "prune" => StepOf(Tail(prog[c])) = "insert"
        /\ Step(c) = "cancel" => StepOf(Tail(prog[c])) \in {"clear", "deleteHistory"}
        /\ Step(c) = "deleteHistory" => StepOf(Tail(prog[c])) = "clear"
        /\ Step(c) = "clear" => Tail(prog[c]) = <<>> \/ StepOf(Tail(prog[c])) = "delete"
        /\ Step(c) = "delete" => Tail(prog[c]) = <<>>
    BY <1>a, <2>2, ClientTails DEF Step
  <2> QED
    BY <1>b, <1>c, <1>d, <2>1, <2>3 DEF Nameless
<1>2. CASE Prune(c)
  <2>1. Step(c) = "prune"
    BY <1>2 DEF Prune, At, Step, StepOf
  <2>2. \A i \in Ids : rows'[i] = rows[i] \/ rows'[i] = NoRow
    <3>1. rows' \in PruneHistory(rows, Keep)
      BY <1>2 DEF Prune
    <3> QED
      BY <1>a, <3>1 DEF PruneHistory
  <2> QED
    BY <1>2, <1>d, <2>1, <2>2 DEF Prune, shared, worker
<1>3. CASE CancelJob(c) /\ Step(c) = "cancel"
  BY <1>3, <1>d DEF CancelJob, table
<1>4. CASE ClearRequeues(c)
  <2>1. Step(c) = "clear"
    BY <1>4 DEF ClearRequeues, At, Step, StepOf
  <2> QED
    BY <1>4, <1>d, <2>1 DEF ClearRequeues, table, worker
<1>5. CASE WriteRow(c) /\ Step(c) \in {"delete", "deleteHistory"}
  <2>1. rows' = Delete(rows, cjob[c].id) \/ rows' = DeleteFromHistory(rows, cjob[c].id)
    BY <1>5 DEF WriteRow, At, Step, StepOf
  <2>2. \A i \in Ids : rows'[i] = rows[i] \/ rows'[i] = NoRow
    BY <1>a, <2>1 DEF Delete, DeleteFromHistory
  <2> QED
    BY <1>5, <1>d, <2>2 DEF WriteRow, shared, worker
<1> QED
  BY <1>1, <1>2, <1>3, <1>4, <1>5

(* A new job: its row is the only one written, and its request goes on to   *)
(* dispatch it.                                                             *)
LEMMA InsertStep ==
    ASSUME SafetyInv, LidarrInv, NEW c \in Clients, Insert(c)
    PROVE  /\ UNCHANGED <<crashes, inFlight, rerun, wpc, wid, todo, page, cancelled, running>>
           /\ \A q \in Procs \ {c} : prog'[q] = prog[q] /\ cjob'[q] = cjob[q] /\ op'[q] = op[q]
           /\ prog'[c] \in ClientPrograms
           /\ Step(c) = "insert"
           /\ \/ /\ prog'[c] = <<>> /\ cjob'[c] = NoJob
                 /\ UNCHANGED <<rows, nextId>>
              \/ /\ StepOf(prog'[c]) = "dispatch"
                 /\ nextId \in Ids /\ nextId' = nextId + 1
                 /\ cjob'[c].id = nextId
                 /\ rows' = Add(rows, nextId, cjob[c].url)
<1>a. TypeOK /\ c \in Procs /\ prog[c] \in ClientPrograms /\ cjob[c] \in Job
  BY DEF SafetyInv, TypeOK, LidarrInv, RequestsNamed, Procs
<1>1. Step(c) = "insert" /\ prog[c] # <<>>
  BY DEF Insert, At, Step, StepOf
<1>2. Tail(prog[c]) \in ClientPrograms /\ StepOf(Tail(prog[c])) = "dispatch"
  BY <1>a, <1>1, ClientTails DEF Step
<1>3. <<>> \in ClientPrograms /\ Tail(prog[c]) # <<>>
  BY <1>2, ProgramHeads DEF ClientPrograms
<1>4. UNCHANGED <<crashes, shared, worker, cref, todo, page>>
  BY DEF Insert
<1>5. CASE Continue(c, <<>>, NoJob) /\ UNCHANGED <<rows, nextId>>
  BY <1>a, <1>1, <1>3, <1>4, <1>5 DEF Continue, TypeOK, shared, worker
<1>6. CASE /\ nextId \in Ids /\ nextId' = nextId + 1
           /\ rows' = Add(rows, nextId, cjob[c].url)
           /\ Continue(c, Tail(prog[c]), [cjob[c] EXCEPT !.id = nextId])
  <2>1. [cjob[c] EXCEPT !.id = nextId].id = nextId
    BY <1>a DEF Job
  <2>2. prog'[c] = Tail(prog[c]) /\ cjob'[c] = [cjob[c] EXCEPT !.id = nextId]
        /\ \A q \in Procs \ {c} : prog'[q] = prog[q] /\ cjob'[q] = cjob[q] /\ op'[q] = op[q]
    BY <1>a, <1>3, <1>6 DEF Continue, TypeOK
  <2> QED
    BY <1>1, <1>2, <1>4, <1>6, <2>1, <2>2 DEF shared, worker
<1> QED
  BY <1>5, <1>6 DEF Insert

(* Nobody dispatches a job that has a worker, so every dispatch starts one. *)
LEMMA DispatchStep ==
    ASSUME SafetyInv, LidarrInv, NEW p \in Procs, dispatchNzoID(p)
    PROVE  /\ UNCHANGED <<rows, nextId, crashes, running, cancelled, todo, page>>
           /\ Step(p) = "dispatch"
           /\ cjob[p].id \in Ids /\ cjob[p].id < nextId /\ inFlight[cjob[p].id] = NoRun
           /\ prog'[p] = Tail(prog[p])
           /\ Tail(prog[p]) = <<>> => cjob'[p] = NoJob
           /\ Tail(prog[p]) # <<>> => op'[p] = op[p]
           /\ \A q \in Procs \ {p} : prog'[q] = prog[q] /\ cjob'[q] = cjob[q] /\ op'[q] = op[q]
           /\ \E w \in Workers :
                /\ wpc[w] = "idle"
                /\ inFlight' = [inFlight EXCEPT ![cjob[p].id] = w]
                /\ rerun' = [rerun EXCEPT ![w] = FALSE]
                /\ wpc' = [wpc EXCEPT ![w] = "load"]
                /\ wid' = [wid EXCEPT ![w] = cjob[p].id]
<1>a. TypeOK
  BY DEF SafetyInv
<1>1. Step(p) = "dispatch"
  BY DEF dispatchNzoID, At, Step, StepOf
<1>2. cjob[p].id \in Ids /\ cjob[p].id < nextId /\ inFlight[cjob[p].id] = NoRun
  <2>1. CASE p \in Clients
    BY <1>1, <2>1 DEF LidarrInv, RequestsNamed, DispatchedOnce, Nameless
  <2>2. CASE p = Main
    BY <1>1, <2>2 DEF LidarrInv, SweptOnce
  <2> QED
    BY <2>1, <2>2 DEF Procs
<1>3. /\ StartWorker(cjob[p].id)
      /\ Continue(p, Tail(prog[p]), cjob[p])
      /\ UNCHANGED <<table, running, requeues, sem, cancelled, wrec, todo, page>>
  BY <1>2 DEF dispatchNzoID
<1>4. \E w \in Workers :
        /\ wpc[w] = "idle"
        /\ inFlight' = [inFlight EXCEPT ![cjob[p].id] = w]
        /\ rerun' = [rerun EXCEPT ![w] = FALSE]
        /\ wpc' = [wpc EXCEPT ![w] = "load"]
        /\ wid' = [wid EXCEPT ![w] = cjob[p].id]
  BY <1>3 DEF StartWorker, Fresh
<1>5. /\ prog'[p] = Tail(prog[p])
      /\ Tail(prog[p]) = <<>> => cjob'[p] = NoJob
      /\ Tail(prog[p]) # <<>> => op'[p] = op[p]
      /\ \A q \in Procs \ {p} : prog'[q] = prog[q] /\ cjob'[q] = cjob[q] /\ op'[q] = op[q]
  BY <1>a, <1>3 DEF Continue, TypeOK
<1> QED
  BY <1>1, <1>2, <1>3, <1>4, <1>5 DEF table

WorkerSteps(w) == RunJob(w) \/ GiveSlotBack(w) \/ handleProgressEvent(w)

(* A worker writes its own row only, and neither creates nor deletes it.    *)
LEMMA WorkerRows ==
    ASSUME SafetyInv, NEW w \in Workers, WorkerSteps(w)
    PROVE  /\ \A i \in Ids : i # wid[w] => rows'[i] = rows[i]
           /\ \A i \in Ids : Present(rows'[i]) = Present(rows[i])
           /\ \A i \in Ids : Active(rows'[i]) => Active(rows[i])
<1>a. rows \in [Ids -> Row] /\ wrec[w] \in Nat
  BY DEF SafetyInv, TypeOK
<1>1. \/ rows' = rows
      \/ \E st \in {"Downloading", "Completed", "Failed", "Queued"} :
            rows' = Update(rows, wid[w], st, wrec[w])
      \/ rows' = MoveToHistory(rows, wid[w])
  BY DEF WorkerSteps, RunJob, Conclude, Load, Register, CheckCancelled, TakeSlot, LeaveSelect,
     GiveSlotBack, beginDownload, handleProgressEvent, handleCompleteEvent, failJob, Archive,
     requeue, Redispatch, ReleaseSlot, Unregister, takeRerun, retireJob, WriteStatus, table
<1>2. CASE \E st \in {"Downloading", "Completed", "Failed", "Queued"} :
            rows' = Update(rows, wid[w], st, wrec[w])
  <2>1. PICK st \in {"Downloading", "Completed", "Failed", "Queued"} :
            rows' = Update(rows, wid[w], st, wrec[w])
    BY <1>2
  <2>2. st \in Statuses \cup {"None"} /\ st # "None"
    BY DEF Statuses, ActiveStatuses, TerminalStatuses
  <2>3. /\ \A i \in Ids : rows'[i].hist = rows[i].hist
        /\ \A i \in Ids : Present(rows'[i]) = Present(rows[i])
    BY <1>a, <2>1, <2>2, UpdateFacts
  <2>4. \A i \in Ids : i # wid[w] => rows'[i] = rows[i]
    BY <1>a, <2>1 DEF Update
  <2> QED
    BY <2>3, <2>4 DEF Active
<1>3. CASE rows' = MoveToHistory(rows, wid[w])
  BY <1>a, <1>3 DEF MoveToHistory, Row, Present, Active
<1> QED
  BY <1>1, <1>2, <1>3

(* Where a worker stands after a step: still registered, or gone with its   *)
(* entry.                                                                   *)
LEMMA WorkerStep ==
    ASSUME SafetyInv, LidarrInv, NEW w \in Workers, WorkerSteps(w)
    PROVE  /\ UNCHANGED <<nextId, crashes, request>>
           /\ wpc[w] # "idle" /\ wid[w] \in Ids /\ inFlight[wid[w]] = w
           /\ \A v \in Workers \ {w} :
                wpc'[v] = wpc[v] /\ wid'[v] = wid[v] /\ rerun'[v] = rerun[v]
           /\ \/ /\ wpc'[w] # "idle" /\ wid'[w] = wid[w] /\ inFlight' = inFlight
                 /\ rerun'[w] => wpc'[w] \in {"release", "unregister", "again"}
              \/ /\ wpc[w] \in {"retire", "quit"}
                 /\ wpc'[w] = "idle" /\ ~rerun'[w]
                 /\ \A i \in Ids : inFlight'[i] =
                        IF i = wid[w] /\ inFlight[i] = w THEN NoRun ELSE inFlight[i]
<1>a. /\ wpc \in [Workers -> PCs] /\ rerun \in [Workers -> BOOLEAN]
      /\ wid \in [Workers -> 0..MaxJobs]
  BY DEF SafetyInv, TypeOK
<1>b. /\ wpc[w] # "idle" => wid[w] \in Ids /\ inFlight[wid[w]] = w
      /\ rerun[w] => wpc[w] \in {"release", "unregister", "again"}
  BY DEF SafetyInv, Registered, LidarrInv, RerunIsOwn
<1>1. CASE \/ Load(w) \/ Register(w) \/ CheckCancelled(w) \/ TakeSlot(w) \/ LeaveSelect(w)
           \/ GiveSlotBack(w)
  BY <1>a, <1>b, <1>1 DEF Load, Register, CheckCancelled, TakeSlot, LeaveSelect, GiveSlotBack,
     Goto, table, shared
<1>2. CASE \/ beginDownload(w) \/ handleProgressEvent(w) \/ handleCompleteEvent(w)
           \/ failJob(w) \/ requeue(w) \/ Archive(w)
  BY <1>a, <1>b, <1>2 DEF beginDownload, handleProgressEvent, handleCompleteEvent, failJob,
     requeue, Archive, Goto, shared, worker
<1>3. CASE ReleaseSlot(w) \/ Unregister(w) \/ takeRerun(w)
  BY <1>a, <1>b, <1>3 DEF ReleaseSlot, Unregister, takeRerun, Goto, table, shared
<1>4. CASE Redispatch(w)
  <2>1. rerun' = [rerun EXCEPT ![w] = TRUE] /\ wpc[w] = "redispatch"
    BY <1>b, <1>4 DEF Redispatch, Goto
  <2> QED
    BY <1>a, <1>b, <1>4, <2>1 DEF Redispatch, Goto, table, shared
<1>5. CASE retireJob(w)
  <2>1. wpc[w] \in {"retire", "quit"} /\ ~rerun[w]
    BY <1>b, <1>5 DEF retireJob
  <2>2. /\ inFlight' = [i \in Ids |-> IF i = wid[w] /\ inFlight[i] = w
                                      THEN NoRun ELSE inFlight[i]]
        /\ Exit(w) /\ rerun' = rerun
        /\ UNCHANGED <<table, running, requeues, sem, cancelled, request>>
    BY <1>5, <2>1 DEF retireJob
  <2> QED
    BY <1>a, <1>b, <2>1, <2>2 DEF Exit, table
<1> QED
  BY <1>1, <1>2, <1>3, <1>4, <1>5 DEF WorkerSteps, RunJob, Conclude

-----------------------------------------------------------------------------
(* The invariant, step by step.                                             *)

(* Positions are numbers, and when rows only leave the queue they only get  *)
(* smaller.                                                                 *)
LEMMA Positions ==
    ASSUME NEW t, NEW u, ActiveIds(u) \subseteq ActiveIds(t), NEW i
    PROVE  Position(t, i) \in Nat /\ Position(u, i) \in Nat /\ Position(u, i) <= Position(t, i)
<1>1. IsFiniteSet(Ids)
  <2>1. MaxJobs \in Nat
    BY StoreAssumption
  <2>2. IsFiniteSet(1..MaxJobs)
    BY <2>1, FS_Interval
  <2> QED
    BY <2>2 DEF Ids
<1>2. IsFiniteSet({j \in ActiveIds(t) : j < i})
  BY <1>1, FS_Subset DEF ActiveIds
<1>3. {j \in ActiveIds(u) : j < i} \subseteq {j \in ActiveIds(t) : j < i}
  OBVIOUS
<1> QED
  BY <1>2, <1>3, FS_Subset, FS_CardinalityType DEF Position

(* A sweep that is over stays over.                                         *)
LEMMA SweepIdle ==
    ASSUME LidarrInv, prog[Main] = <<>>, UNCHANGED <<todo, page>>, prog'[Main] = prog[Main]
    PROVE  SweptOnce' /\ prog'[Main] \in SweepPrograms
<1>1. todo[Main] = {} /\ page[Main] = 0 /\ Step(Main) = "none"
  BY ProgramHeads DEF LidarrInv, SweptOnce, Step
<1>2. Step(Main)' = "none"
  BY ProgramHeads DEF Step
<1>3. SweptOnce'
  BY <1>1, <1>2 DEF SweptOnce
<1> QED
  BY <1>3 DEF SweepPrograms

(* What the sweep still has to do stays undone when nothing is registered   *)
(* and rows only leave the queue.                                           *)
LEMMA SweepWaits ==
    ASSUME SafetyInv, LidarrInv, UNCHANGED <<nextId, todo, page, prog, cjob>>,
           \A i \in Ids : inFlight[i] = NoRun => inFlight'[i] = NoRun,
           \A i \in Ids : Active(rows'[i]) => Active(rows[i])
    PROVE  SweptOnce'
<1>a. /\ SweptOnce /\ page[Main] \in Nat
      /\ \A j \in todo[Main] : j.id \in Ids
      /\ ActiveIds(rows') \subseteq ActiveIds(rows)
      /\ ActiveIds(rows) \subseteq Ids
  BY DEF LidarrInv, SafetyInv, TypeOK, Procs, ActiveIds
<1>b. Step(Main)' = Step(Main)
  BY DEF Step
<1>1. /\ \A j \in todo'[Main] : inFlight'[j.id] = NoRun /\ j.id < nextId'
      /\ \A j, k \in todo'[Main] : j.id = k.id => j = k
      /\ Step(Main)' \in {"none", "listPage"} => todo'[Main] = {}
      /\ Step(Main)' = "none" => page'[Main] = 0
  BY <1>a, <1>b DEF SweptOnce
<1>2. Step(Main)' = "dispatch" =>
        /\ cjob'[Main].id \in Ids /\ cjob'[Main].id < nextId'
        /\ inFlight'[cjob'[Main].id] = NoRun
        /\ \A j \in todo'[Main] : j.id # cjob'[Main].id
  BY <1>a, <1>b DEF SweptOnce
<1>3. ASSUME page'[Main] # 0 \/ Step(Main)' = "listPage",
             NEW i \in ActiveIds(rows'), page'[Main] <= Position(rows', i)
      PROVE  /\ inFlight'[i] = NoRun
             /\ \A j \in todo'[Main] : j.id # i
             /\ Step(Main)' = "dispatch" => cjob'[Main].id # i
  <2>1. /\ Position(rows, i) \in Nat /\ Position(rows', i) \in Nat
        /\ Position(rows', i) <= Position(rows, i)
    BY <1>a, Positions
  <2>2. page[Main] <= Position(rows, i)
    BY <1>a, <1>3, <2>1
  <2> QED
    BY <1>a, <1>b, <1>3, <2>2 DEF SweptOnce
<1> QED
  BY <1>1, <1>2, <1>3 DEF SweptOnce

(* A page of the sweep lists jobs that have no worker and were not listed.  *)
LEMMA SweepLists ==
    ASSUME SafetyInv, LidarrInv, ListPage(Main), Step(Main) = "listPage"
    PROVE  SweptOnce' /\ prog'[Main] \in SweepPrograms
<1> DEFINE more == page[Main] + PageSize < Cardinality(ActiveIds(rows))
           listed == {i \in List(rows, page[Main], PageSize) :
                            rows[i].status \in LoopStatuses(op[Main])}
<1>a. /\ Main \in Procs /\ TypeOK /\ SweptOnce /\ page[Main] \in Nat /\ PageSize \in Nat \ {0}
      /\ rows \in [Ids -> Row]
  BY LifecycleAssumption DEF LidarrInv, SafetyInv, TypeOK, Procs
<1>b. prog[Main] \in SweepPrograms /\ prog[Main] # <<>> /\ Head(prog[Main]) = "listPage"
  BY DEF LidarrInv, MainAlone, Step, StepOf, ListPage, At
<1>c. Tail(prog[Main]) = <<"each">>
  BY <1>b, SweepTails DEF Step
<1>1. /\ todo' = [todo EXCEPT ![Main] = @ \cup {JobOf(i) : i \in listed}]
      /\ page' = [page EXCEPT ![Main] = IF more THEN @ + PageSize ELSE 0]
      /\ Continue(Main, Tail(prog[Main]), cjob[Main])
      /\ UNCHANGED <<rows, nextId, inFlight>>
  BY <1>b DEF ListPage, table, shared
<1>2. prog'[Main] = <<"each">> /\ Step(Main)' = "each"
  <2>1. prog'[Main] = <<"each">>
    BY <1>a, <1>c, <1>1 DEF Continue, TypeOK
  <2> QED
    BY <2>1, ProgramHeads DEF Step
<1>3. todo'[Main] = {JobOf(i) : i \in listed}
  BY <1>a, <1>1 DEF SweptOnce, TypeOK
<1>4. ASSUME NEW i \in listed
      PROVE  /\ i \in Ids /\ JobOf(i).id = i /\ inFlight[i] = NoRun /\ i < nextId
             /\ i \in ActiveIds(rows) /\ Position(rows, i) < page[Main] + PageSize
  <2>1. /\ i \in ActiveIds(rows) /\ i \in Ids /\ page[Main] <= Position(rows, i)
        /\ Position(rows, i) < page[Main] + PageSize
    BY DEF List, Position, ActiveIds
  <2>2. inFlight[i] = NoRun
    BY <1>a, <2>1 DEF SweptOnce
  <2>3. i < nextId
    BY <2>1 DEF LidarrInv, Unborn, ActiveIds, Active
  <2>4. JobOf(i).id = i
    BY <1>a, <2>1, JobTypes
  <2> QED
    BY <2>1, <2>2, <2>3, <2>4
<1>5. /\ \A j \in todo'[Main] : inFlight'[j.id] = NoRun /\ j.id < nextId'
      /\ \A j, k \in todo'[Main] : j.id = k.id => j = k
  <2> HIDE DEF listed
  <2> QED
    BY <1>1, <1>3, <1>4
<1>6. ASSUME page'[Main] # 0, NEW i \in ActiveIds(rows'), page'[Main] <= Position(rows', i)
      PROVE  /\ inFlight'[i] = NoRun
             /\ \A j \in todo'[Main] : j.id # i
  <2>1. page'[Main] = page[Main] + PageSize /\ rows' = rows /\ inFlight' = inFlight
    BY <1>a, <1>1, <1>6 DEF TypeOK
  <2>2. Position(rows, i) \in Nat
    BY Positions
  <2>3. page[Main] <= Position(rows, i) /\ page[Main] + PageSize <= Position(rows, i)
    BY <1>a, <1>6, <2>1, <2>2
  <2>4. inFlight[i] = NoRun
    BY <1>a, <1>6, <2>1, <2>3 DEF SweptOnce
  <2>5. i \notin listed
    <3>1. ~(Position(rows, i) < page[Main] + PageSize)
      BY <1>a, <2>2, <2>3
    <3> QED
      BY <1>4, <3>1
  <2>6. \A j \in todo'[Main] : j.id # i
    <3> HIDE DEF listed
    <3> QED
      BY <1>3, <1>4, <2>5
  <2> QED
    BY <2>1, <2>4, <2>6
<1>7. SweptOnce'
  BY <1>2, <1>5, <1>6 DEF SweptOnce
<1> QED
  BY <1>2, <1>7 DEF SweepPrograms

(* The sweep's loop takes what it has listed, one job after another.        *)
LEMMA SweepLoops ==
    ASSUME SafetyInv, LidarrInv, Each(Main)
    PROVE  SweptOnce' /\ prog'[Main] \in SweepPrograms
<1>a. /\ Main \in Procs /\ TypeOK /\ SweptOnce /\ todo \in [Procs -> SUBSET {j \in Job : j.id \in Ids}]
      /\ UNCHANGED <<rows, nextId, inFlight, page>>
  BY DEF LidarrInv, SafetyInv, TypeOK, Procs, Each, table, shared
<1>b. Step(Main) = "each" /\ op[Main] = "ResumeQueued"
  BY DEF LidarrInv, MainAlone, Step, StepOf, Each, At
<1>1. ASSUME NEW j \in todo[Main],
             todo' = [todo EXCEPT ![Main] = @ \ {j}],
             Continue(Main, LoopBody(op[Main]) \o <<"each">>, j)
      PROVE  SweptOnce' /\ prog'[Main] \in SweepPrograms
  <2>1. prog'[Main] = <<"dispatch", "each">> /\ cjob'[Main] = j
    BY <1>a, <1>b, <1>1, SweepBody DEF Continue, TypeOK
  <2>2. Step(Main)' = "dispatch"
    BY <2>1, ProgramHeads DEF Step
  <2>3. todo'[Main] = todo[Main] \ {j} /\ j.id \in Ids
    BY <1>a, <1>1
  <2>4. SweptOnce'
    BY <1>a, <1>1, <2>1, <2>2, <2>3 DEF SweptOnce
  <2> QED
    BY <2>1, <2>4 DEF SweepPrograms
<1>2. ASSUME todo[Main] = {}, todo' = todo,
             Continue(Main, IF page[Main] = 0 THEN <<>> ELSE <<"listPage", "each">>, NoJob)
      PROVE  SweptOnce' /\ prog'[Main] \in SweepPrograms
  <2>1. prog'[Main] = IF page[Main] = 0 THEN <<>> ELSE <<"listPage", "each">>
    BY <1>a, <1>2 DEF Continue, TypeOK
  <2>2. Step(Main)' = IF page[Main] = 0 THEN "none" ELSE "listPage"
    BY <2>1, ProgramHeads DEF Step
  <2>3. SweptOnce'
    BY <1>a, <1>2, <2>2 DEF SweptOnce
  <2> QED
    BY <2>1, <2>3 DEF SweepPrograms
<1> QED
  BY <1>1, <1>2 DEF Each

(* The sweep's dispatch registers a worker for a job it no longer lists.    *)
LEMMA SweepDispatches ==
    ASSUME SafetyInv, LidarrInv, dispatchNzoID(Main)
    PROVE  SweptOnce' /\ prog'[Main] \in SweepPrograms
<1>a. /\ Main \in Procs /\ SweptOnce /\ prog[Main] \in SweepPrograms
      /\ \A j \in todo[Main] : j.id \in Ids
      /\ inFlight \in [Ids -> Workers \cup {NoRun}]
      /\ ActiveIds(rows) \subseteq Ids
  BY DEF LidarrInv, MainAlone, SafetyInv, TypeOK, Procs, ActiveIds
<1>1. /\ UNCHANGED <<rows, nextId, todo, page>>
      /\ Step(Main) = "dispatch"
      /\ prog'[Main] = Tail(prog[Main])
      /\ \E w \in Workers : inFlight' = [inFlight EXCEPT ![cjob[Main].id] = w]
  BY <1>a, DispatchStep
<1>2. prog'[Main] = <<"each">> /\ Step(Main)' = "each"
  <2>1. prog'[Main] = <<"each">>
    BY <1>a, <1>1, SweepTails DEF Step
  <2> QED
    BY <2>1, ProgramHeads DEF Step
<1>3. /\ cjob[Main].id \in Ids /\ \A j \in todo[Main] : j.id # cjob[Main].id
      /\ \A i \in Ids : i # cjob[Main].id => inFlight'[i] = inFlight[i]
  BY <1>a, <1>1 DEF SweptOnce
<1>4. SweptOnce'
  BY <1>a, <1>1, <1>2, <1>3 DEF SweptOnce
<1> QED
  BY <1>2, <1>4 DEF SweepPrograms

(* A worker's step leaves the requests and the sweep as they are, and it    *)
(* goes only with its entry.                                                *)
LEMMA WorkerKeeps ==
    ASSUME SafetyInv, LidarrInv, NEW w \in Workers, WorkerSteps(w)
    PROVE  LidarrInv'
<1>a. /\ inFlight \in [Ids -> Workers \cup {NoRun}] /\ NoRun \notin Workers
      /\ UNCHANGED <<nextId, request>>
      /\ \A i \in Ids : inFlight[i] = NoRun => inFlight'[i] = NoRun
  BY WorkerStep, LifecycleAssumption DEF SafetyInv, TypeOK
<1>b. \A p \in Procs : Step(p)' = Step(p)
  BY <1>a DEF Step, request
<1>1. MainAlone'
  BY <1>a DEF LidarrInv, MainAlone, request
<1>2. RequestsNamed'
  BY <1>a, <1>b DEF LidarrInv, RequestsNamed, request, Procs
<1>3. Unborn'
  BY <1>a, WorkerStep, WorkerRows DEF LidarrInv, Unborn
<1>4. DispatchedOnce'
  <2>1. \A c \in Clients : Step(c) = "dispatch" => cjob[c].id \in Ids
    BY DEF LidarrInv, RequestsNamed, Nameless
  <2> QED
    BY <1>a, <1>b, <2>1 DEF LidarrInv, DispatchedOnce, request, Procs
<1>5. SweptOnce'
  <2>1. UNCHANGED <<nextId, todo, page, prog, cjob>>
    BY <1>a DEF request
  <2>2. \A i \in Ids : Active(rows'[i]) => Active(rows[i])
    BY WorkerRows
  <2> QED
    BY <1>a, <2>1, <2>2, SweepWaits
<1>6. RerunIsOwn'
  BY WorkerStep DEF LidarrInv, RerunIsOwn
<1>7. RegisteredIsAlive'
  BY <1>a, WorkerStep DEF LidarrInv, RegisteredIsAlive, Runs
<1> QED
  BY <1>1, <1>2, <1>3, <1>4, <1>5, <1>6, <1>7 DEF LidarrInv

(* A request's own statements touch no worker and no registry entry.        *)
LEMMA ClientKeeps ==
    ASSUME SafetyInv, LidarrInv, NEW c \in Clients,
           \/ FindActive(c) \/ Prune(c)
           \/ CancelJob(c) /\ Step(c) = "cancel"
           \/ ClearRequeues(c)
           \/ WriteRow(c) /\ Step(c) \in {"delete", "deleteHistory"}
    PROVE  LidarrInv'
<1>a. /\ UNCHANGED <<nextId, inFlight, rerun, wpc, wid, todo, page>>
      /\ \A q \in Procs \ {c} : prog'[q] = prog[q] /\ cjob'[q] = cjob[q] /\ op'[q] = op[q]
      /\ prog'[c] \in ClientPrograms
      /\ StepOf(prog'[c]) # "dispatch"
      /\ StepOf(prog'[c]) \in Nameless => cjob'[c].id \notin Ids
      /\ StepOf(prog'[c]) \notin Nameless =>
               cjob'[c].id = cjob[c].id /\ Step(c) \notin Nameless
  BY ClientStep
<1>b. c # Main /\ c \in Procs /\ Main \in Procs /\ prog[Main] = <<>>
  <2>1. prog[c] # <<>>
    BY DEF FindActive, Prune, CancelJob, ClearRequeues, WriteRow, At
  <2> QED
    BY <2>1, LifecycleAssumption DEF LidarrInv, MainAlone, Procs
<1>c. prog'[Main] = <<>> /\ prog'[Main] = prog[Main]
  BY <1>a, <1>b
<1>d. \A q \in Procs \ {c} : Step(q)' = Step(q)
  BY <1>a DEF Step
<1>1. SweptOnce' /\ prog'[Main] \in SweepPrograms
  BY <1>a, <1>b, <1>c, SweepIdle
<1>2. MainAlone'
  BY <1>1, <1>c DEF MainAlone
<1>3. RequestsNamed'
  <2>1. ASSUME NEW d \in Clients, d # c
        PROVE  /\ prog'[d] \in ClientPrograms
               /\ Step(d)' \in Nameless => cjob'[d].id \notin Ids
               /\ Step(d)' \notin Nameless => cjob'[d].id \in Ids /\ cjob'[d].id < nextId'
    BY <1>a, <1>d, <2>1 DEF LidarrInv, RequestsNamed, Procs
  <2>2. /\ Step(c)' \in Nameless => cjob'[c].id \notin Ids
        /\ Step(c)' \notin Nameless => cjob'[c].id \in Ids /\ cjob'[c].id < nextId'
    BY <1>a DEF LidarrInv, RequestsNamed, Step
  <2> QED
    BY <1>a, <2>1, <2>2 DEF RequestsNamed
<1>4. Unborn'
  <2>1. \A i \in Ids : Present(rows'[i]) => Present(rows[i])
    <3>1. ~Present(NoRow)
      BY DEF Present, NoRow
    <3>2. \A i \in Ids : rows'[i] = rows[i] \/ rows'[i] = NoRow
      BY ClientStep
    <3> QED
      BY <3>1, <3>2
  <2> QED
    BY <1>a, <2>1 DEF LidarrInv, Unborn
<1>5. DispatchedOnce'
  <2>1. Step(c)' # "dispatch"
    BY <1>a DEF Step
  <2>2. \A d \in Clients : d # c => Step(d)' = Step(d) /\ cjob'[d] = cjob[d]
    BY <1>a, <1>d DEF Procs
  <2> QED
    BY <1>a, <2>1, <2>2 DEF LidarrInv, DispatchedOnce
<1>6. RerunIsOwn' /\ RegisteredIsAlive'
  BY <1>a DEF LidarrInv, RerunIsOwn, RegisteredIsAlive, Runs
<1> QED
  BY <1>1, <1>2, <1>3, <1>4, <1>5, <1>6 DEF LidarrInv

(* A new nzo_id belongs to the request that created it alone.               *)
LEMMA InsertKeeps ==
    ASSUME SafetyInv, LidarrInv, NEW c \in Clients, Insert(c)
    PROVE  LidarrInv'
<1>a. /\ UNCHANGED <<inFlight, rerun, wpc, wid, todo, page>>
      /\ \A q \in Procs \ {c} : prog'[q] = prog[q] /\ cjob'[q] = cjob[q] /\ op'[q] = op[q]
      /\ prog'[c] \in ClientPrograms
      /\ \/ /\ prog'[c] = <<>> /\ cjob'[c] = NoJob
            /\ UNCHANGED <<rows, nextId>>
         \/ /\ StepOf(prog'[c]) = "dispatch"
            /\ nextId \in Ids /\ nextId' = nextId + 1
            /\ cjob'[c].id = nextId
            /\ rows' = Add(rows, nextId, cjob[c].url)
  BY InsertStep
<1>b. c # Main /\ c \in Procs /\ Main \in Procs /\ prog[Main] = <<>>
  <2>1. prog[c] # <<>>
    BY DEF Insert, At
  <2> QED
    BY <2>1, LifecycleAssumption DEF LidarrInv, MainAlone, Procs
<1>c. prog'[Main] = <<>> /\ prog'[Main] = prog[Main]
  BY <1>a, <1>b
<1>d. /\ \A q \in Procs \ {c} : Step(q)' = Step(q)
      /\ prog'[c] = <<>> => Step(c)' = "none"
      /\ StepOf(prog'[c]) = "dispatch" => Step(c)' = "dispatch"
  BY <1>a, ProgramHeads DEF Step
<1>e. nextId \in Nat /\ nextId <= nextId' /\ nextId' \in Nat /\ \A i \in Ids : i \in Nat
  <2>1. nextId \in Nat /\ \A i \in Ids : i \in Nat
    BY DEF SafetyInv, TypeOK, Ids
  <2> QED
    BY <1>a, <2>1
<1>1. SweptOnce' /\ prog'[Main] \in SweepPrograms
  BY <1>a, <1>b, <1>c, SweepIdle
<1>2. MainAlone'
  BY <1>1, <1>c DEF MainAlone
<1>3. RequestsNamed'
  <2>1. ASSUME NEW d \in Clients, d # c
        PROVE  /\ prog'[d] \in ClientPrograms
               /\ Step(d)' \in Nameless => cjob'[d].id \notin Ids
               /\ Step(d)' \notin Nameless => cjob'[d].id \in Ids /\ cjob'[d].id < nextId'
    <3>1. /\ prog[d] \in ClientPrograms
          /\ Step(d) \in Nameless => cjob[d].id \notin Ids
          /\ Step(d) \notin Nameless => cjob[d].id \in Ids /\ cjob[d].id < nextId
      BY DEF LidarrInv, RequestsNamed
    <3>2. prog'[d] = prog[d] /\ cjob'[d] = cjob[d] /\ Step(d)' = Step(d)
      BY <1>a, <1>d, <2>1 DEF Procs
    <3>3. cjob[d].id \in Ids /\ cjob[d].id < nextId => cjob[d].id < nextId'
      BY <1>e
    <3> QED
      BY <3>1, <3>2, <3>3
  <2>2. /\ Step(c)' \in Nameless => cjob'[c].id \notin Ids
        /\ Step(c)' \notin Nameless => cjob'[c].id \in Ids /\ cjob'[c].id < nextId'
    <3>1. CASE prog'[c] = <<>> /\ cjob'[c] = NoJob
      BY <1>d, <3>1, NoJobNoId DEF Nameless
    <3>2. CASE /\ StepOf(prog'[c]) = "dispatch" /\ nextId \in Ids
               /\ nextId' = nextId + 1 /\ cjob'[c].id = nextId
      <4>1. nextId < nextId'
        BY <1>e, <3>2
      <4> QED
        BY <1>d, <3>2, <4>1 DEF Nameless
    <3> QED
      BY <1>a, <3>1, <3>2
  <2> QED
    BY <1>a, <2>1, <2>2 DEF RequestsNamed
<1>4. Unborn'
  <2>1. \A i \in Ids : i # nextId => rows'[i] = rows[i]
    BY <1>a DEF SafetyInv, TypeOK, Add
  <2>2. \A i \in Ids : Present(rows'[i]) => i < nextId'
    <3>1. CASE UNCHANGED <<rows, nextId>>
      BY <3>1 DEF LidarrInv, Unborn
    <3>2. CASE nextId' = nextId + 1
      <4>1. \A i \in Ids : i = nextId => i < nextId'
        BY <1>e, <3>2
      <4>2. \A i \in Ids : i < nextId => i < nextId'
        BY <1>e
      <4> QED
        BY <2>1, <4>1, <4>2 DEF LidarrInv, Unborn
    <3> QED
      BY <1>a, <3>1, <3>2
  <2>3. \A w \in Workers : wpc'[w] # "idle" => wid'[w] < nextId'
    <3>1. \A w \in Workers : wpc[w] # "idle" => wid[w] \in Ids /\ wid[w] < nextId
      BY DEF SafetyInv, Registered, LidarrInv, Unborn
    <3>2. \A i \in Ids : i < nextId => i < nextId'
      BY <1>e
    <3> QED
      BY <1>a, <3>1, <3>2
  <2> QED
    BY <2>2, <2>3 DEF Unborn
<1>5. DispatchedOnce'
  <2>1. \A d \in Clients : d # c => Step(d)' = Step(d) /\ cjob'[d] = cjob[d]
    BY <1>a, <1>d DEF Procs
  <2>2. CASE prog'[c] = <<>>
    BY <1>a, <1>d, <2>1, <2>2 DEF LidarrInv, DispatchedOnce
  <2>3. CASE Step(c)' = "dispatch" /\ nextId \in Ids /\ cjob'[c].id = nextId
    <3>1. ASSUME inFlight[nextId] # NoRun PROVE FALSE
      <4>1. /\ inFlight[nextId] \in Workers /\ wpc[inFlight[nextId]] # "idle"
            /\ wid[inFlight[nextId]] = nextId
        BY <2>3, <3>1 DEF LidarrInv, RegisteredIsAlive, Runs, SafetyInv, TypeOK
      <4>2. nextId < nextId
        BY <4>1 DEF LidarrInv, Unborn
      <4> QED
        BY <1>e, <4>2
    <3>2. \A d \in Clients : Step(d) = "dispatch" => cjob[d].id # nextId
      <4>1. \A d \in Clients : Step(d) = "dispatch" => cjob[d].id < nextId
        BY DEF LidarrInv, RequestsNamed, Nameless
      <4>2. ~(nextId < nextId)
        BY <1>e
      <4> QED
        BY <4>1, <4>2
    <3> QED
      BY <1>a, <2>1, <2>3, <3>1, <3>2 DEF LidarrInv, DispatchedOnce
  <2> QED
    BY <1>a, <1>d, <2>2, <2>3
<1>6. RerunIsOwn' /\ RegisteredIsAlive'
  BY <1>a DEF LidarrInv, RerunIsOwn, RegisteredIsAlive, Runs
<1> QED
  BY <1>1, <1>2, <1>3, <1>4, <1>5, <1>6 DEF LidarrInv

(* A dispatch gives the job its worker.                                     *)
LEMMA DispatchKeeps ==
    ASSUME SafetyInv, LidarrInv, NEW p \in Procs, dispatchNzoID(p)
    PROVE  LidarrInv'
<1>a. /\ UNCHANGED <<rows, nextId, todo, page>>
      /\ Step(p) = "dispatch"
      /\ cjob[p].id \in Ids /\ cjob[p].id < nextId /\ inFlight[cjob[p].id] = NoRun
      /\ prog'[p] = Tail(prog[p])
      /\ Tail(prog[p]) = <<>> => cjob'[p] = NoJob
      /\ Tail(prog[p]) # <<>> => op'[p] = op[p]
      /\ \A q \in Procs \ {p} : prog'[q] = prog[q] /\ cjob'[q] = cjob[q] /\ op'[q] = op[q]
  BY DispatchStep
<1>b. PICK w \in Workers :
        /\ wpc[w] = "idle"
        /\ inFlight' = [inFlight EXCEPT ![cjob[p].id] = w]
        /\ rerun' = [rerun EXCEPT ![w] = FALSE]
        /\ wpc' = [wpc EXCEPT ![w] = "load"]
        /\ wid' = [wid EXCEPT ![w] = cjob[p].id]
  BY DispatchStep
<1>c. /\ inFlight \in [Ids -> Workers \cup {NoRun}] /\ rerun \in [Workers -> BOOLEAN]
      /\ wpc \in [Workers -> PCs] /\ wid \in [Workers -> 0..MaxJobs]
      /\ Main \in Procs /\ Main \notin Clients /\ NoRun \notin Workers
  BY LifecycleAssumption DEF SafetyInv, TypeOK, Procs
<1>d. \A q \in Procs \ {p} : Step(q)' = Step(q)
  BY <1>a DEF Step
<1>1. /\ SweptOnce' /\ MainAlone'
      /\ p \in Clients => prog'[p] = <<>> /\ Step(p)' = "none"
  <2>1. CASE p = Main
    <3>1. SweptOnce' /\ prog'[Main] \in SweepPrograms
      BY <2>1, SweepDispatches
    <3>2. prog[Main] # <<>> /\ prog[Main] \in SweepPrograms /\ Tail(prog[Main]) = <<"each">>
      <4>1. prog[Main] \in SweepPrograms
        BY DEF LidarrInv, MainAlone
      <4> QED
        BY <1>a, <2>1, <4>1, SweepTails, ProgramHeads DEF Step
    <3>3. op'[Main] = "ResumeQueued"
      <4>1. Tail(prog[Main]) # <<>>
        BY <3>2
      <4> QED
        BY <1>a, <2>1, <3>2, <4>1 DEF LidarrInv, MainAlone
    <3>4. \A c \in Clients : prog'[c] = <<>>
      BY <1>a, <1>c, <2>1, <3>2 DEF LidarrInv, MainAlone, Procs
    <3> QED
      BY <1>c, <2>1, <3>1, <3>3, <3>4 DEF MainAlone
  <2>2. CASE p \in Clients
    <3>1. prog[p] \in ClientPrograms /\ prog[p] # <<>>
      BY <1>a, <2>2, ProgramHeads DEF LidarrInv, RequestsNamed, Step
    <3>2. prog'[p] = <<>>
      BY <1>a, <3>1, ClientTails DEF Step
    <3>3. prog[Main] = <<>> /\ prog'[Main] = prog[Main]
      BY <1>a, <1>c, <2>2, <3>1 DEF LidarrInv, MainAlone
    <3>4. SweptOnce' /\ prog'[Main] \in SweepPrograms
      BY <1>a, <3>3, SweepIdle
    <3>5. Step(p)' = "none"
      BY <3>2, ProgramHeads DEF Step
    <3> QED
      BY <3>2, <3>3, <3>4, <3>5 DEF MainAlone
  <2> QED
    BY <2>1, <2>2 DEF Procs
<1>e. \A d \in Clients : d # p => prog'[d] = prog[d] /\ cjob'[d] = cjob[d] /\ Step(d)' = Step(d)
  BY <1>a, <1>d DEF Procs
<1>2. RequestsNamed'
  <2>1. ASSUME p \in Clients
        PROVE  cjob'[p] = NoJob /\ prog'[p] = <<>> /\ Step(p)' = "none"
    BY <1>1, <1>a, <2>1
  <2>2. <<>> \in ClientPrograms /\ "none" \in Nameless /\ NoJob.id \notin Ids
    BY NoJobNoId DEF ClientPrograms, Nameless
  <2> QED
    BY <1>a, <1>e, <2>1, <2>2 DEF LidarrInv, RequestsNamed
<1>3. Unborn'
  BY <1>a, <1>b, <1>c DEF LidarrInv, Unborn
<1>4. DispatchedOnce'
  <2>1. ASSUME NEW d \in Clients, Step(d)' = "dispatch"
        PROVE  d # p /\ Step(d) = "dispatch" /\ cjob'[d] = cjob[d] /\ cjob[d].id # cjob[p].id
               /\ cjob[d].id \in Ids
    <3>1. d # p
      BY <1>1, <2>1
    <3>2. Step(d) = "dispatch" /\ cjob'[d] = cjob[d] /\ prog[d] # <<>>
      BY <1>e, <2>1, <3>1, ProgramHeads DEF Step
    <3>3. p \in Clients
      <4>1. CASE p = Main
        <5>1. prog[Main] # <<>>
          BY <1>a, <4>1, ProgramHeads DEF Step
        <5> QED
          BY <3>2, <5>1 DEF LidarrInv, MainAlone
      <4> QED
        BY <4>1 DEF Procs
    <3>4. cjob[d].id # cjob[p].id
      BY <1>a, <3>1, <3>2, <3>3 DEF LidarrInv, DispatchedOnce
    <3> QED
      BY <3>1, <3>2, <3>4 DEF LidarrInv, RequestsNamed, Nameless
  <2> QED
    BY <1>b, <1>c, <2>1 DEF LidarrInv, DispatchedOnce
<1>5. RerunIsOwn' /\ RegisteredIsAlive'
  BY <1>a, <1>b, <1>c DEF LidarrInv, RerunIsOwn, RegisteredIsAlive, Runs
<1> QED
  BY <1>1, <1>2, <1>3, <1>4, <1>5 DEF LidarrInv

(* The sweep's own steps: no request is going on, no worker is touched.     *)
LEMMA SweepKeeps ==
    ASSUME SafetyInv, LidarrInv, Each(Main) \/ (ListPage(Main) /\ Step(Main) = "listPage")
    PROVE  LidarrInv'
<1>a. /\ Main \in Procs /\ Main \notin Clients /\ TypeOK /\ prog[Main] # <<>>
      /\ UNCHANGED <<rows, nextId, inFlight, rerun, wpc, wid>>
  BY LifecycleAssumption DEF Procs, SafetyInv, Each, ListPage, table, shared, worker, At
<1>b. SweptOnce' /\ prog'[Main] \in SweepPrograms
  BY SweepLoops, SweepLists
<1>c. /\ \A q \in Procs \ {Main} : prog'[q] = prog[q] /\ cjob'[q] = cjob[q]
      /\ prog'[Main] # <<>> => op'[Main] = op[Main]
  BY <1>a DEF Each, ListPage, Continue, TypeOK
<1>d. \A c \in Clients : prog'[c] = prog[c] /\ cjob'[c] = cjob[c] /\ Step(c)' = Step(c)
  BY <1>a, <1>c DEF Procs, Step
<1>1. MainAlone'
  BY <1>a, <1>b, <1>c, <1>d DEF LidarrInv, MainAlone
<1>2. RequestsNamed' /\ DispatchedOnce'
  BY <1>a, <1>d DEF LidarrInv, RequestsNamed, DispatchedOnce
<1>3. Unborn' /\ RerunIsOwn' /\ RegisteredIsAlive'
  BY <1>a DEF LidarrInv, Unborn, RerunIsOwn, RegisteredIsAlive, Runs
<1> QED
  BY <1>b, <1>1, <1>2, <1>3 DEF LidarrInv

(* A request arrives without a job, or with one that exists or existed.     *)
LEMMA RequestKeeps ==
    ASSUME LidarrOnly, SafetyInv, LidarrInv, NEW c \in Clients, Request(c)
    PROVE  LidarrInv'
<1>a. /\ c \in Procs /\ Main \in Procs /\ c # Main
      /\ prog[c] = <<>> /\ prog[Main] = <<>>
      /\ UNCHANGED <<rows, nextId, inFlight, rerun, wpc, wid, todo, page>>
      /\ prog \in [Procs -> Seq(Steps)] /\ cjob \in [Procs -> Job]
  BY LifecycleAssumption DEF Request, Procs, table, shared, worker, SafetyInv, TypeOK
<1>b. Step(c) = "none" /\ cjob[c].id \notin Ids
  BY <1>a, ProgramHeads DEF LidarrInv, RequestsNamed, Step, Nameless
<1>1. PICK o \in Ops :
        /\ prog' = [prog EXCEPT ![c] = dispatch(o)]
        /\ \/ /\ o = "AddURL"
              /\ \E u \in Urls : cjob' = [cjob EXCEPT ![c].url = u]
           \/ /\ o \in {"PauseAll", "ResumeAll"}
              /\ cjob' = cjob
           \/ /\ o \notin {"AddURL", "PauseAll", "ResumeAll"}
              /\ \E i \in Ids :
                    /\ i < nextId
                    /\ cjob' = [cjob EXCEPT ![c].id = i]
  BY DEF Request
<1>2. o \in {"AddURL", "Delete", "HistoryDelete"}
  BY DEF LidarrOnly
<1>3. \A q \in Procs \ {c} : prog'[q] = prog[q] /\ cjob'[q] = cjob[q]
  BY <1>a, <1>1
<1>4. /\ prog'[c] \in ClientPrograms
      /\ Step(c)' \in Nameless => cjob'[c].id \notin Ids
      /\ Step(c)' \notin Nameless => cjob'[c].id \in Ids /\ cjob'[c].id < nextId
      /\ Step(c)' # "dispatch"
  <2>1. CASE o = "AddURL"
    <3>1. prog'[c] = <<"find", "prune", "insert", "dispatch">>
      BY <1>a, <1>1, <2>1 DEF dispatch, handleAddURL
    <3>2. cjob'[c].id = cjob[c].id
      <4>1. PICK u \in Urls : cjob' = [cjob EXCEPT ![c].url = u]
        BY <1>1, <2>1
      <4> QED
        BY <1>a, <4>1 DEF Job
    <3>3. Step(c)' = "find"
      BY <3>1, ProgramHeads DEF Step
    <3> QED
      BY <1>b, <3>1, <3>2, <3>3 DEF ClientPrograms, Nameless
  <2>2. CASE o \in {"Delete", "HistoryDelete"}
    <3>1. \/ prog'[c] = <<"cancel", "clear", "delete">>
          \/ prog'[c] = <<"cancel", "deleteHistory", "clear">>
      BY <1>a, <1>1, <2>2 DEF dispatch, handleDelete, handleHistoryDelete
    <3>2. cjob'[c].id \in Ids /\ cjob'[c].id < nextId
      <4>1. PICK i \in Ids : i < nextId /\ cjob' = [cjob EXCEPT ![c].id = i]
        BY <1>1, <2>2
      <4> QED
        BY <1>a, <4>1 DEF Job
    <3>3. Step(c)' = "cancel"
      BY <3>1, ProgramHeads DEF Step
    <3> QED
      BY <3>1, <3>2, <3>3 DEF ClientPrograms, Nameless
  <2> QED
    BY <1>2, <2>1, <2>2
<1>5. \A q \in Procs \ {c} : Step(q)' = Step(q)
  BY <1>3 DEF Step
<1>6. SweptOnce' /\ MainAlone'
  BY <1>a, <1>3, SweepIdle DEF MainAlone
<1>7. RequestsNamed'
  BY <1>a, <1>3, <1>4, <1>5 DEF LidarrInv, RequestsNamed, Procs
<1>8. DispatchedOnce'
  BY <1>a, <1>3, <1>4, <1>5 DEF LidarrInv, DispatchedOnce, Procs
<1>9. Unborn' /\ RerunIsOwn' /\ RegisteredIsAlive'
  BY <1>a DEF LidarrInv, Unborn, RerunIsOwn, RegisteredIsAlive, Runs
<1> QED
  BY <1>6, <1>7, <1>8, <1>9 DEF LidarrInv

(* The sweep of a new process.                                              *)
LEMMA RestartKeeps ==
    ASSUME SafetyInv, LidarrInv, Restart
    PROVE  LidarrInv'
<1>a. /\ Main \in Procs /\ Clients \subseteq Procs /\ Main \notin Clients
      /\ rows \in [Ids -> Row]
  BY LifecycleAssumption DEF Procs, SafetyInv, TypeOK
<1>1. /\ prog'[Main] = <<"listPage", "each">> /\ op'[Main] = "ResumeQueued"
      /\ todo'[Main] = {} /\ page'[Main] = 0
      /\ \A c \in Clients : prog'[c] = <<>> /\ cjob'[c] = NoJob
      /\ \A i \in Ids : inFlight'[i] = NoRun
      /\ \A w \in Workers : wpc'[w] = "idle" /\ ~rerun'[w]
      /\ nextId' = nextId
  BY <1>a DEF Restart, ResumeQueuedJobs
<1>2. Step(Main)' = "listPage" /\ \A c \in Clients : Step(c)' = "none"
  BY <1>1, ProgramHeads DEF Step
<1>3. MainAlone'
  BY <1>1 DEF MainAlone, SweepPrograms
<1>4. RequestsNamed' /\ DispatchedOnce'
  BY <1>1, <1>2, NoJobNoId DEF RequestsNamed, ClientPrograms, Nameless, DispatchedOnce
<1>5. Unborn'
  <2>1. \A i \in Ids : Present(rows'[i]) => Present(rows[i])
    BY <1>a DEF Restart, RecoverStuckJobs, Recovered, Present, Active
  <2> QED
    BY <1>1, <2>1 DEF LidarrInv, Unborn
<1>6. SweptOnce'
  <2>1. ActiveIds(rows') \subseteq Ids
    BY DEF ActiveIds
  <2> QED
    BY <1>1, <1>2, <2>1 DEF SweptOnce
<1>7. RerunIsOwn' /\ RegisteredIsAlive'
  BY <1>1 DEF RerunIsOwn, RegisteredIsAlive
<1> QED
  BY <1>3, <1>4, <1>5, <1>6, <1>7 DEF LidarrInv

(* Nothing is dispatched in a process that starts.                          *)
LEMMA InitKeeps == Init => LidarrInv
<1> SUFFICES ASSUME Init PROVE LidarrInv
  OBVIOUS
<1>a. /\ Main \in Procs /\ Clients \subseteq Procs
  BY DEF Procs
<1>1. /\ prog[Main] = <<>> /\ todo[Main] = {} /\ page[Main] = 0
      /\ \A c \in Clients : prog[c] = <<>> /\ cjob[c] = NoJob
      /\ \A i \in Ids : inFlight[i] = NoRun /\ rows[i] = NoRow
      /\ \A w \in Workers : wpc[w] = "idle" /\ ~rerun[w]
  BY <1>a DEF Init
<1>2. Step(Main) = "none" /\ \A c \in Clients : Step(c) = "none"
  BY <1>1, ProgramHeads DEF Step
<1>3. MainAlone /\ SweptOnce
  BY <1>1, <1>2 DEF MainAlone, SweepPrograms, SweptOnce
<1>4. RequestsNamed /\ DispatchedOnce
  BY <1>1, <1>2, NoJobNoId DEF RequestsNamed, ClientPrograms, Nameless, DispatchedOnce
<1>5. Unborn
  <2>1. ~Present(NoRow)
    BY DEF Present, NoRow
  <2> QED
    BY <1>1, <2>1 DEF Unborn
<1>6. RerunIsOwn /\ RegisteredIsAlive
  BY <1>1 DEF RerunIsOwn, RegisteredIsAlive
<1> QED
  BY <1>3, <1>4, <1>5, <1>6 DEF LidarrInv

(* Every step keeps LidarrInv.                                              *)
LEMMA LidarrStep ==
    ASSUME LidarrOnly, SafetyInv, LidarrInv, [Next]_vars
    PROVE  LidarrInv'
<1>1. ASSUME NEW c \in Clients, Request(c) PROVE LidarrInv'
  BY <1>1, RequestKeeps
<1>2. ASSUME NEW p \in Procs, Handle(p) PROVE LidarrInv'
  <2>1. CASE p \in Clients
    <3>1. \/ FindActive(p) \/ Prune(p) \/ Insert(p) \/ (CancelJob(p) /\ Step(p) = "cancel")
          \/ ClearRequeues(p) \/ (WriteRow(p) /\ Step(p) \in {"delete", "deleteHistory"}) \/ dispatchNzoID(p)
      BY <1>2, <2>1, LidarrSteps, LifecycleAssumption
    <3>2. CASE Insert(p)
      BY <2>1, <3>2, InsertKeeps
    <3>3. CASE dispatchNzoID(p)
      BY <3>3, DispatchKeeps
    <3>4. CASE \/ FindActive(p) \/ Prune(p) \/ (CancelJob(p) /\ Step(p) = "cancel")
               \/ ClearRequeues(p) \/ (WriteRow(p) /\ Step(p) \in {"delete", "deleteHistory"})
      BY <2>1, <3>4, ClientKeeps
    <3> QED
      BY <3>1, <3>2, <3>3, <3>4
  <2>2. CASE p = Main
    <3>1. (ListPage(p) /\ Step(p) = "listPage") \/ Each(p) \/ dispatchNzoID(p)
      BY <1>2, <2>2, LidarrSteps, LifecycleAssumption
    <3>2. CASE dispatchNzoID(p)
      BY <3>2, DispatchKeeps
    <3>3. CASE (ListPage(p) /\ Step(p) = "listPage") \/ Each(p)
      BY <2>2, <3>3, SweepKeeps
    <3> QED
      BY <3>1, <3>2, <3>3
  <2> QED
    BY <2>1, <2>2 DEF Procs
<1>3. ASSUME NEW w \in Workers, RunJob(w) \/ GiveSlotBack(w) \/ handleProgressEvent(w)
      PROVE  LidarrInv'
  BY <1>3, WorkerKeeps DEF WorkerSteps
<1>4. CASE Restart
  BY <1>4, RestartKeeps
<1>5. CASE UNCHANGED vars
  <2>1. /\ UNCHANGED <<rows, nextId, inFlight, rerun, wpc, wid, prog, op, cjob, todo, page>>
    BY <1>5 DEF vars, table, shared, worker, request
  <2>2. \A p : Step(p)' = Step(p)
    BY <2>1 DEF Step
  <2>3. SweptOnce'
    BY <2>1, SweepWaits
  <2>4. MainAlone' /\ RequestsNamed' /\ DispatchedOnce'
    BY <2>1, <2>2 DEF LidarrInv, MainAlone, RequestsNamed, DispatchedOnce
  <2>5. Unborn' /\ RerunIsOwn' /\ RegisteredIsAlive'
    BY <2>1 DEF LidarrInv, Unborn, RerunIsOwn, RegisteredIsAlive, Runs
  <2> QED
    BY <2>3, <2>4, <2>5 DEF LidarrInv
<1> QED
  BY <1>1, <1>2, <1>3, <1>4, <1>5 DEF Next

(* No job is dispatched twice, however additions, deletions, requeues and   *)
(* restarts interleave.                                                     *)
THEOREM LidarrInvariant ==
    ASSUME LidarrOnly
    PROVE  Spec => []LidarrInv
<1>1. SafetyInv /\ LidarrInv /\ [Next]_vars => LidarrInv'
  BY LidarrStep
<1> QED
  BY <1>1, InitKeeps, SafetyInvariant, PTL DEF Spec

(* What dispatchNzoID takes for granted when it asks a registered worker to *)
(* run again: the worker is alive.                                          *)
THEOREM RegistryHoldsNoDead ==
    ASSUME LidarrOnly
    PROVE  Spec => []RegisteredIsAlive
<1>1. LidarrInv => RegisteredIsAlive
  BY DEF LidarrInv
<1> QED
  BY <1>1, LidarrInvariant, PTL

-----------------------------------------------------------------------------
(* Outcomes.                                                                *)

(* A step keeps the outcomes when it writes no row but a new Queued one,    *)
(* and moves no worker to or from the places where outcomes are written.    *)
LEMMA OutcomesKept ==
    ASSUME SafetyInv, OutcomeInv,
           \A i \in Ids : \/ rows'[i] = rows[i] \/ ~Present(rows'[i])
                          \/ /\ Active(rows'[i]) /\ rows'[i].status = "Queued"
                             /\ \A v \in Workers : ~Runs(v, i),
           \A v \in Workers : \/ wpc'[v] = wpc[v] /\ wid'[v] = wid[v]
                              \/ {wpc[v], wpc'[v]} \cap {"run", "archive"} = {}
    PROVE  OutcomeInv' /\ FinalStep
<1>1. ArchivesAnOutcome'
  <2> SUFFICES ASSUME NEW v \in Workers, wpc'[v] = "archive", Present(rows'[wid'[v]])
               PROVE  rows'[wid'[v]].status \in TerminalStatuses
    BY DEF ArchivesAnOutcome
  <2>1. wpc[v] = "archive" /\ wid'[v] = wid[v]
    OBVIOUS
  <2>2. wid[v] \in Ids /\ Runs(v, wid[v])
    BY <2>1 DEF SafetyInv, Registered, Runs
  <2>3. rows'[wid[v]] = rows[wid[v]]
    BY <2>1, <2>2
  <2> QED
    BY <2>1, <2>3 DEF OutcomeInv, ArchivesAnOutcome
<1>2. HistoryIsTerminal'
  BY DEF OutcomeInv, HistoryIsTerminal, InHistory, Active
<1>3. DownloadingHasWorker'
  <2> SUFFICES ASSUME NEW i \in Ids, Active(rows'[i]), rows'[i].status = "Downloading"
               PROVE  \E w \in Workers : Runs(w, i)' /\ wpc'[w] \in {"run", "archive"}
    BY DEF DownloadingHasWorker
  <2>1. rows'[i] = rows[i]
    BY DEF Active
  <2>2. PICK w \in Workers : Runs(w, i) /\ wpc[w] \in {"run", "archive"}
    BY <2>1 DEF OutcomeInv, DownloadingHasWorker
  <2>3. wpc'[w] = wpc[w] /\ wid'[w] = wid[w]
    BY <2>2
  <2> QED
    BY <2>2, <2>3 DEF Runs
<1>4. FinalStep
  BY DEF FinalStep, InHistory, Active
<1> QED
  BY <1>1, <1>2, <1>3, <1>4 DEF OutcomeInv

(* A worker that writes a status: an outcome on its way to archive, or      *)
(* Downloading while it runs.                                               *)
LEMMA OutcomesWritten ==
    ASSUME SafetyInv, OutcomeInv, NEW w \in Workers,
           NEW st \in {"Downloading", "Completed", "Failed", "Queued"},
           NEW to \in {"run", "archive", "redispatch"},
           wpc[w] \in {"slot", "run"}, WriteStatus(w, st),
           wpc' = [wpc EXCEPT ![w] = to], wid' = wid,
           to = "archive" => st \in TerminalStatuses,
           st = "Downloading" => to = "run"
    PROVE  OutcomeInv' /\ FinalStep
<1>a. /\ rows \in [Ids -> Row] /\ wpc \in [Workers -> PCs] /\ wrec[w] \in Nat
      /\ wid[w] \in Ids /\ ~InHistory(rows[wid[w]])
  BY DEF SafetyInv, TypeOK, Registered, WorkerNeverInHistory, OwningPCs
<1>b. \A v \in Workers : v # w /\ wpc[v] # "idle" => wid[v] \in Ids /\ wid[v] # wid[w]
  BY DEF SafetyInv, Registered
<1>1. rows' = Update(rows, wid[w], st, wrec[w])
  BY DEF WriteStatus
<1>2. \A i \in Ids : i # wid[w] => rows'[i] = rows[i]
  BY <1>a, <1>1 DEF Update
<1>3. /\ rows'[wid[w]].hist = rows[wid[w]].hist
      /\ Present(rows[wid[w]]) => rows'[wid[w]].status = st
      /\ ~Present(rows[wid[w]]) => rows'[wid[w]] = rows[wid[w]]
  BY <1>a, <1>1 DEF Update, Row
<1>4. ~InHistory(rows'[wid[w]])
  BY <1>a, <1>3 DEF InHistory
<1>5. ArchivesAnOutcome'
  <2> SUFFICES ASSUME NEW v \in Workers, wpc'[v] = "archive", Present(rows'[wid[v]])
               PROVE  rows'[wid[v]].status \in TerminalStatuses
    BY DEF ArchivesAnOutcome
  <2>1. CASE v = w
    <3>1. to = "archive"
      BY <1>a, <2>1
    <3> QED
      BY <1>3, <2>1, <3>1
  <2>2. CASE v # w
    BY <1>a, <1>b, <1>2, <2>2 DEF OutcomeInv, ArchivesAnOutcome
  <2> QED
    BY <2>1, <2>2
<1>6. HistoryIsTerminal'
  BY <1>2, <1>4 DEF OutcomeInv, HistoryIsTerminal
<1>7. DownloadingHasWorker'
  <2> SUFFICES ASSUME NEW i \in Ids, Active(rows'[i]), rows'[i].status = "Downloading"
               PROVE  \E v \in Workers : Runs(v, i)' /\ wpc'[v] \in {"run", "archive"}
    BY DEF DownloadingHasWorker
  <2>1. CASE i = wid[w]
    <3>1. st = "Downloading"
      BY <1>3, <2>1 DEF Active
    <3>2. wpc'[w] = "run" /\ wid'[w] = i
      BY <1>a, <2>1, <3>1
    <3> QED
      BY <3>2 DEF Runs
  <2>2. CASE i # wid[w]
    <3>1. PICK v \in Workers : Runs(v, i) /\ wpc[v] \in {"run", "archive"}
      BY <1>2, <2>2 DEF OutcomeInv, DownloadingHasWorker
    <3>2. v # w
      BY <2>2, <3>1 DEF Runs
    <3> QED
      BY <1>a, <3>1, <3>2 DEF Runs
  <2> QED
    BY <2>1, <2>2
<1>8. FinalStep
  BY <1>2, <1>4 DEF FinalStep
<1> QED
  BY <1>5, <1>6, <1>7, <1>8 DEF OutcomeInv

(* What a worker archives has its outcome.                                  *)
LEMMA OutcomesArchived ==
    ASSUME SafetyInv, OutcomeInv, NEW w \in Workers, Archive(w)
    PROVE  OutcomeInv' /\ FinalStep
<1>a. /\ rows \in [Ids -> Row] /\ wpc \in [Workers -> PCs]
      /\ wpc[w] = "archive" /\ wid[w] \in Ids
      /\ wpc' = [wpc EXCEPT ![w] = "release"] /\ wid' = wid
      /\ rows' = MoveToHistory(rows, wid[w])
  BY DEF SafetyInv, TypeOK, Registered, Archive, Goto
<1>b. \A v \in Workers : v # w /\ wpc[v] # "idle" => wid[v] \in Ids /\ wid[v] # wid[w]
  BY <1>a DEF SafetyInv, Registered
<1>1. /\ \A i \in Ids : i # wid[w] => rows'[i] = rows[i]
      /\ rows'[wid[w]].status = rows[wid[w]].status
      /\ Present(rows'[wid[w]]) => rows'[wid[w]].hist
  BY <1>a DEF MoveToHistory, Row, Present
<1>2. ArchivesAnOutcome'
  BY <1>a, <1>b, <1>1 DEF OutcomeInv, ArchivesAnOutcome
<1>3. HistoryIsTerminal'
  <2>1. InHistory(rows'[wid[w]]) => rows'[wid[w]].status \in TerminalStatuses
    BY <1>a, <1>1 DEF OutcomeInv, ArchivesAnOutcome, InHistory, Present
  <2> QED
    BY <1>1, <2>1 DEF OutcomeInv, HistoryIsTerminal
<1>4. DownloadingHasWorker'
  <2> SUFFICES ASSUME NEW i \in Ids, Active(rows'[i]), rows'[i].status = "Downloading"
               PROVE  \E v \in Workers : Runs(v, i)' /\ wpc'[v] \in {"run", "archive"}
    BY DEF DownloadingHasWorker
  <2>1. i # wid[w] /\ rows'[i] = rows[i]
    BY <1>1 DEF Active
  <2>2. PICK v \in Workers : Runs(v, i) /\ wpc[v] \in {"run", "archive"}
    BY <2>1 DEF OutcomeInv, DownloadingHasWorker
  <2>3. v # w
    BY <2>1, <2>2 DEF Runs
  <2> QED
    BY <1>a, <2>2, <2>3 DEF Runs
<1>5. FinalStep
  BY <1>1 DEF FinalStep
<1> QED
  BY <1>2, <1>3, <1>4, <1>5 DEF OutcomeInv

(* The start-up sweep leaves no row Downloading, and archives as Failed.    *)
LEMMA OutcomesRecovered ==
    ASSUME SafetyInv, OutcomeInv, Restart
    PROVE  OutcomeInv' /\ FinalStep
<1>a. /\ rows \in [Ids -> Row] /\ \A w \in Workers : wpc'[w] = "idle"
      /\ rows' = [i \in Ids |-> Recovered(rows[i])]
  BY DEF SafetyInv, TypeOK, Restart, RecoverStuckJobs
<1>1. ASSUME NEW i \in Ids
      PROVE  /\ ~(Active(rows'[i]) /\ rows'[i].status = "Downloading")
             /\ \/ rows'[i] = rows[i]
                \/ Active(rows[i]) /\ rows'[i].status \in {"Failed", "Queued"}
                   /\ (InHistory(rows'[i]) => rows'[i].status = "Failed")
  <2>1. CASE ~(Active(rows[i]) /\ rows[i].status = "Downloading")
    BY <1>a, <2>1 DEF Recovered
  <2>2. CASE Active(rows[i]) /\ rows[i].status = "Downloading"
    <3>1. CASE rows[i].recover >= MaxRecoveries
      <4>1. rows'[i] = [url |-> rows[i].url, status |-> "Failed", hist |-> TRUE,
                        recover |-> rows[i].recover]
        BY <1>a, <2>2, <3>1, Zenon DEF Recovered
      <4> QED
        BY <2>2, <4>1 DEF InHistory, Active
    <3>2. CASE ~(rows[i].recover >= MaxRecoveries)
      <4>1. rows'[i] = [url |-> rows[i].url, status |-> "Queued", hist |-> FALSE,
                        recover |-> rows[i].recover + 1]
        BY <1>a, <2>2, <3>2, Zenon DEF Recovered
      <4> QED
        BY <2>2, <4>1 DEF InHistory, Active
    <3> QED
      BY <3>1, <3>2
  <2> QED
    BY <2>1, <2>2
<1>2. ArchivesAnOutcome'
  BY <1>a DEF ArchivesAnOutcome
<1>3. HistoryIsTerminal'
  <2>1. "Failed" \in TerminalStatuses
    BY DEF TerminalStatuses
  <2> QED
    BY <1>1, <2>1 DEF OutcomeInv, HistoryIsTerminal
<1>4. DownloadingHasWorker'
  BY <1>1 DEF DownloadingHasWorker
<1>5. FinalStep
  BY <1>1 DEF FinalStep, InHistory, Active
<1> QED
  BY <1>2, <1>3, <1>4, <1>5 DEF OutcomeInv

(* The steps of a worker.                                                   *)
LEMMA OutcomesOfWorker ==
    ASSUME SafetyInv, LidarrInv, OutcomeInv, NEW w \in Workers, WorkerSteps(w)
    PROVE  OutcomeInv' /\ FinalStep
<1>a. /\ wpc \in [Workers -> PCs] /\ wid \in [Workers -> 0..MaxJobs]
  BY DEF SafetyInv, TypeOK
<1>b. "Completed" \in TerminalStatuses /\ "Failed" \in TerminalStatuses
  BY DEF TerminalStatuses
<1>1. CASE beginDownload(w)
  BY <1>1, OutcomesWritten DEF beginDownload, Goto
<1>2. CASE handleProgressEvent(w)
  <2>1. /\ wpc[w] = "run" /\ wpc' = [wpc EXCEPT ![w] = "run"] /\ wid' = wid
        /\ WriteStatus(w, "Downloading")
    BY <1>2, <1>a DEF handleProgressEvent, worker
  <2> QED
    BY <2>1, OutcomesWritten
<1>3. CASE handleCompleteEvent(w)
  BY <1>3, <1>b, OutcomesWritten DEF handleCompleteEvent, Goto
<1>4. CASE failJob(w)
  BY <1>4, <1>b, OutcomesWritten DEF failJob, Goto
<1>5. CASE requeue(w)
  BY <1>5, OutcomesWritten DEF requeue, Goto
<1>6. CASE Archive(w)
  BY <1>6, OutcomesArchived
<1>7. CASE \/ Load(w) \/ Register(w) \/ CheckCancelled(w) \/ TakeSlot(w) \/ LeaveSelect(w)
           \/ GiveSlotBack(w) \/ Redispatch(w) \/ ReleaseSlot(w) \/ Unregister(w)
           \/ takeRerun(w) \/ retireJob(w)
  <2>1. rows' = rows
    BY <1>7 DEF Load, Register, CheckCancelled, TakeSlot, LeaveSelect, GiveSlotBack, Redispatch,
       ReleaseSlot, Unregister, takeRerun, retireJob, table
  <2>2. {wpc[w], wpc'[w]} \cap {"run", "archive"} = {}
    BY <1>7, <1>a DEF Load, Register, CheckCancelled, TakeSlot, LeaveSelect, GiveSlotBack,
       Redispatch, ReleaseSlot, Unregister, takeRerun, retireJob, Goto, Exit
  <2>3. \A v \in Workers \ {w} : wpc'[v] = wpc[v] /\ wid'[v] = wid[v]
    BY WorkerStep
  <2> QED
    BY <2>1, <2>2, <2>3, OutcomesKept
<1> QED
  BY <1>1, <1>2, <1>3, <1>4, <1>5, <1>6, <1>7 DEF WorkerSteps, RunJob, Conclude

(* Every step keeps OutcomeInv, and changes no outcome in history.          *)
LEMMA OutcomesStep ==
    ASSUME LidarrOnly, SafetyInv, LidarrInv, OutcomeInv, [Next]_vars
    PROVE  OutcomeInv' /\ FinalStep
<1>a. /\ wpc \in [Workers -> PCs] /\ rows \in [Ids -> Row]
      /\ wid \in [Workers -> 0..MaxJobs]
      /\ ~Present(NoRow)
  BY DEF SafetyInv, TypeOK, Present, NoRow
<1>1. ASSUME NEW c \in Clients, Request(c) PROVE OutcomeInv' /\ FinalStep
  <2>1. UNCHANGED <<rows, wpc, wid>>
    BY <1>1 DEF Request, table, worker
  <2> QED
    BY <2>1, OutcomesKept
<1>2. ASSUME NEW p \in Procs, Handle(p) PROVE OutcomeInv' /\ FinalStep
  <2>1. CASE p \in Clients
    <3>1. \/ FindActive(p) \/ Prune(p) \/ Insert(p) \/ (CancelJob(p) /\ Step(p) = "cancel")
          \/ ClearRequeues(p) \/ (WriteRow(p) /\ Step(p) \in {"delete", "deleteHistory"}) \/ dispatchNzoID(p)
      BY <1>2, <2>1, LidarrSteps, LifecycleAssumption
    <3>2. CASE Insert(p)
      <4>1. /\ UNCHANGED <<wpc, wid>>
            /\ rows' = rows \/ (nextId \in Ids /\ rows' = Add(rows, nextId, cjob[p].url))
        BY <2>1, <3>2, InsertStep
      <4>2. CASE nextId \in Ids /\ rows' = Add(rows, nextId, cjob[p].url)
        <5>1. \A v \in Workers : ~Runs(v, nextId)
          <6>1. nextId \in Nat
            BY DEF SafetyInv, TypeOK
          <6>2. ~(nextId < nextId)
            BY <6>1
          <6> QED
            BY <6>2 DEF LidarrInv, Unborn, Runs
        <5>2. \A i \in Ids : i # nextId => rows'[i] = rows[i]
          BY <1>a, <4>2 DEF Add
        <5>3. Active(rows'[nextId]) /\ rows'[nextId].status = "Queued"
          BY <1>a, <4>2 DEF Add, Active, Present
        <5> QED
          BY <4>1, <5>1, <5>2, <5>3, OutcomesKept
      <4> QED
        BY <4>1, <4>2, OutcomesKept
    <3>3. CASE dispatchNzoID(p)
      BY <1>a, <3>3, DispatchStep, OutcomesKept
    <3>4. CASE \/ FindActive(p) \/ Prune(p) \/ (CancelJob(p) /\ Step(p) = "cancel")
               \/ ClearRequeues(p) \/ (WriteRow(p) /\ Step(p) \in {"delete", "deleteHistory"})
      <4>1. /\ UNCHANGED <<wpc, wid>>
            /\ \A i \in Ids : rows'[i] = rows[i] \/ rows'[i] = NoRow
        BY <2>1, <3>4, ClientStep
      <4> QED
        BY <1>a, <4>1, OutcomesKept
    <3> QED
      BY <3>1, <3>2, <3>3, <3>4
  <2>2. CASE p = Main
    <3>1. (ListPage(p) /\ Step(p) = "listPage") \/ Each(p) \/ dispatchNzoID(p)
      BY <1>2, <2>2, LidarrSteps, LifecycleAssumption
    <3>2. CASE dispatchNzoID(p)
      BY <1>a, <3>2, DispatchStep, OutcomesKept
    <3>3. CASE ListPage(p) \/ Each(p)
      <4>1. UNCHANGED <<rows, wpc, wid>>
        BY <3>3 DEF ListPage, Each, table, worker
      <4> QED
        BY <4>1, OutcomesKept
    <3> QED
      BY <3>1, <3>2, <3>3
  <2> QED
    BY <2>1, <2>2 DEF Procs
<1>3. ASSUME NEW w \in Workers, RunJob(w) \/ GiveSlotBack(w) \/ handleProgressEvent(w)
      PROVE  OutcomeInv' /\ FinalStep
  BY <1>3, OutcomesOfWorker DEF WorkerSteps
<1>4. CASE Restart
  BY <1>4, OutcomesRecovered
<1>5. CASE UNCHANGED vars
  <2>1. UNCHANGED <<rows, wpc, wid>>
    BY <1>5 DEF vars, table, worker
  <2> QED
    BY <2>1, OutcomesKept
<1> QED
  BY <1>1, <1>2, <1>3, <1>4, <1>5 DEF Next

(* An empty table reports nothing.                                          *)
LEMMA OutcomesInit == Init => OutcomeInv
<1> SUFFICES ASSUME Init PROVE OutcomeInv
  OBVIOUS
<1>1. /\ \A i \in Ids : rows[i] = NoRow
      /\ \A w \in Workers : wpc[w] = "idle"
  BY DEF Init
<1>2. ~Present(NoRow)
  BY DEF Present, NoRow
<1> QED
  BY <1>1, <1>2 DEF OutcomeInv, ArchivesAnOutcome, HistoryIsTerminal, DownloadingHasWorker,
     Active, InHistory

(* Outcomes are kept by every step.                                         *)
THEOREM OutcomeInvariant ==
    ASSUME LidarrOnly
    PROVE  Spec => []OutcomeInv
<1>1. SafetyInv /\ LidarrInv /\ OutcomeInv /\ [Next]_vars => OutcomeInv'
  BY OutcomesStep
<1> QED
  BY <1>1, OutcomesInit, SafetyInvariant, LidarrInvariant, PTL DEF Spec

(* History holds finished jobs only: Completed or Failed.                   *)
THEOREM HistoryHoldsOutcomes ==
    ASSUME LidarrOnly
    PROVE  Spec => []HistoryIsTerminal
<1>1. OutcomeInv => HistoryIsTerminal
  BY DEF OutcomeInv
<1> QED
  BY <1>1, OutcomeInvariant, PTL

(* A Downloading row is being downloaded, also after any number of restarts.*)
THEOREM DownloadsAreRun ==
    ASSUME LidarrOnly
    PROVE  Spec => []DownloadingHasWorker
<1>1. OutcomeInv => DownloadingHasWorker
  BY DEF OutcomeInv
<1> QED
  BY <1>1, OutcomeInvariant, PTL

(* The outcome history reports of a job never changes.                      *)
THEOREM OutcomesAreFinal ==
    ASSUME LidarrOnly
    PROVE  Spec => OutcomeIsFinal
<1>1. SafetyInv /\ LidarrInv /\ OutcomeInv /\ [Next]_vars =>
        [\A i \in Ids : InHistory(rows[i]) /\ InHistory(rows[i])' =>
            rows'[i].status = rows[i].status]_vars
  BY OutcomesStep DEF FinalStep
<1> QED
  BY <1>1, SafetyInvariant, LidarrInvariant, OutcomeInvariant, PTL DEF Spec, OutcomeIsFinal

-----------------------------------------------------------------------------
(* Stranded jobs.                                                           *)

(* The programs of the two queue operations.                                *)
LEMMA QueueTails ==
    ASSUME NEW s \in QueuePrograms
    PROVE  /\ s # <<>> => Tail(s) \in QueuePrograms
           /\ StepOf(s) = "none" <=> s = <<>>
           /\ StepOf(s) \in {"none", "find", "prune", "insert", "dispatch", "cancel",
                             "clear", "delete"}
           /\ StepOf(s) = "prune" => StepOf(Tail(s)) = "insert"
           /\ StepOf(s) = "insert" => StepOf(Tail(s)) = "dispatch"
           /\ StepOf(s) = "cancel" => StepOf(Tail(s)) = "clear"
           /\ StepOf(s) = "clear" => StepOf(Tail(s)) = "delete"
           /\ StepOf(s) = "delete" => Tail(s) = <<>>
<1>1. CASE s \in {<<>>, <<"find", "prune", "insert", "dispatch">>}
  BY <1>1, ProgramHeads, ProgramTails DEF QueuePrograms
<1>2. CASE s \in {<<"prune", "insert", "dispatch">>, <<"insert", "dispatch">>}
  BY <1>2, ProgramHeads, ProgramTails DEF QueuePrograms
<1>3. CASE s \in {<<"dispatch">>, <<"delete">>}
  BY <1>3, ProgramHeads, ProgramTails DEF QueuePrograms
<1>4. CASE s \in {<<"cancel", "clear", "delete">>, <<"clear", "delete">>}
  BY <1>4, ProgramHeads, ProgramTails DEF QueuePrograms
<1> QED
  BY <1>1, <1>2, <1>3, <1>4 DEF QueuePrograms

(* Workers that did not move, with rows that did not change, are cancelled  *)
(* and tend their jobs as before.                                           *)
LEMMA TendsKept ==
    ASSUME NEW w \in Workers, wpc'[w] = wpc[w], wid'[w] = wid[w], rerun'[w] = rerun[w],
           cancelled'[w] = cancelled[w]
    PROVE  Tends(w)' = Tends(w) /\ \A i \in Ids : Runs(w, i)' = Runs(w, i)
BY DEF Tends, Runs

(* A worker's step.                                                         *)
LEMMA WorkerTends ==
    ASSUME SafetyInv, LidarrInv, StrandInv, NEW w \in Workers, WorkerSteps(w)
    PROVE  StrandInv'
<1>a. /\ wpc \in [Workers -> PCs] /\ rerun \in [Workers -> BOOLEAN]
      /\ cancelled \in [Workers -> BOOLEAN] /\ rows \in [Ids -> Row]
      /\ UNCHANGED request
      /\ wpc[w] # "idle" /\ wid[w] \in Ids
      /\ \A v \in Workers \ {w} : wpc'[v] = wpc[v] /\ wid'[v] = wid[v] /\ rerun'[v] = rerun[v]
  BY WorkerStep DEF SafetyInv, TypeOK
<1>b. /\ \A i \in Ids : i # wid[w] => rows'[i] = rows[i]
      /\ \A i \in Ids : Present(rows'[i]) = Present(rows[i])
  BY WorkerRows
<1>c. \A v \in Workers : v # w /\ wpc[v] # "idle" => wid[v] \in Ids /\ wid[v] # wid[w]
  BY <1>a DEF SafetyInv, Registered
<1>d. /\ \A p \in Procs : Step(p)' = Step(p)
      /\ UNCHANGED <<prog, cjob, todo, page>>
  BY <1>a DEF Step, request
<1>e. /\ \A i \in Ids : Deleting(i)' = Deleting(i) /\ ByClient(i)' = ByClient(i)
      /\ \A i \in Ids : BySweep(i)' = BySweep(i)
  BY <1>d DEF Deleting, ByClient, BySweep, Procs
<1>f. cancelled[w] => /\ wpc[w] \in CancelPCs
                      /\ Present(rows[wid[w]]) => ByClient(wid[w])
  BY DEF StrandInv, CancelledIsDeleted, Deleting, ByClient
<1>g. rerun[w] => wpc[w] \in {"release", "unregister", "again"}
  BY DEF LidarrInv, RerunIsOwn
<1>1. /\ \A v \in Workers \ {w} : cancelled'[v] = cancelled[v]
      /\ cancelled'[w] => cancelled[w] /\ wpc'[w] \in CancelPCs /\ wid'[w] = wid[w]
  <2>1. CASE \/ Load(w) \/ Register(w) \/ CheckCancelled(w) \/ TakeSlot(w) \/ LeaveSelect(w)
             \/ GiveSlotBack(w) \/ ReleaseSlot(w) \/ Unregister(w) \/ takeRerun(w)
             \/ Redispatch(w)
    BY <1>a, <1>f, <2>1 DEF Load, Register, CheckCancelled, TakeSlot, LeaveSelect, GiveSlotBack,
       ReleaseSlot, Unregister, takeRerun, Redispatch, Goto, table, shared, CancelPCs, OwningPCs
  <2>2. CASE \/ beginDownload(w) \/ handleProgressEvent(w) \/ handleCompleteEvent(w)
             \/ failJob(w) \/ requeue(w) \/ Archive(w)
    BY <1>a, <1>f, <2>2 DEF beginDownload, handleProgressEvent, handleCompleteEvent, failJob,
       requeue, Archive, Goto, shared, worker, CancelPCs, OwningPCs
  <2>3. CASE retireJob(w)
    BY <1>a, <1>f, <2>3 DEF retireJob, CancelPCs, OwningPCs
  <2> QED
    BY <2>1, <2>2, <2>3 DEF WorkerSteps, RunJob, Conclude
<1>2. ASSUME NEW i \in Ids, i = wid[w], Waiting(i)'
      PROVE  \/ wid'[w] = i /\ wpc'[w] # "idle" /\ Tends(w)'
             \/ ByClient(i)
             \/ ~Tends(w) /\ rows' = rows
  <2>1. CASE Load(w) \/ Register(w)
    BY <1>a, <1>2, <2>1 DEF Load, Register, Goto, table, shared, Tends, Waiting
  <2>2. CASE CheckCancelled(w) \/ TakeSlot(w) \/ LeaveSelect(w) \/ GiveSlotBack(w)
    BY <1>a, <1>f, <1>2, <2>2 DEF CheckCancelled, TakeSlot, LeaveSelect, GiveSlotBack, Goto, table,
       shared, Tends, Waiting, Active
  <2>3. CASE \/ beginDownload(w) \/ handleProgressEvent(w) \/ handleCompleteEvent(w)
             \/ failJob(w) \/ requeue(w)
    BY <1>a, <1>2, <2>3 DEF beginDownload, handleProgressEvent, handleCompleteEvent, failJob, requeue,
       Goto, shared, worker, Tends
  <2>4. CASE Archive(w)
    <3>1. rows' = MoveToHistory(rows, wid[w])
      BY <2>4 DEF Archive
    <3>2. ~Active(rows'[wid[w]])
      BY <1>a, <3>1 DEF MoveToHistory, Active, Present, Row
    <3> QED
      BY <1>2, <3>2 DEF Waiting
  <2>5. CASE Redispatch(w)
    <3>1. inFlight[wid[w]] = w
      BY WorkerStep
    <3> QED
      BY <1>a, <1>2, <2>5, <3>1 DEF Redispatch, Goto, Tends
  <2>6. CASE ReleaseSlot(w) \/ Unregister(w) \/ takeRerun(w)
    BY <1>a, <1>2, <2>6 DEF ReleaseSlot, Unregister, takeRerun, Goto, table, shared, Tends
  <2>7. CASE retireJob(w)
    <3>1. ~Tends(w)
      BY <1>g, <2>7 DEF retireJob, Tends
    <3> QED
      BY <2>7, <3>1 DEF retireJob, table
  <2> QED
    BY <2>1, <2>2, <2>3, <2>4, <2>5, <2>6, <2>7 DEF WorkerSteps, RunJob, Conclude
<1>3. CancelledIsDeleted'
  <2> SUFFICES ASSUME NEW v \in Workers, cancelled'[v]
               PROVE  wpc'[v] \in CancelPCs /\ (Present(rows'[wid'[v]]) => Deleting(wid[v])')
    BY DEF CancelledIsDeleted
  <2>1. cancelled[v] /\ wid'[v] = wid[v] /\ wpc'[v] \in CancelPCs
    BY <1>a, <1>1 DEF StrandInv, CancelledIsDeleted
  <2>2. wid[v] \in Ids /\ (Present(rows[wid[v]]) => Deleting(wid[v]))
    BY <1>a, <1>c, <2>1 DEF StrandInv, CancelledIsDeleted, CancelPCs, OwningPCs
  <2>3. PICK i \in Ids : i = wid[v]
    BY <2>2
  <2>4. Present(rows'[i]) => Deleting(i)'
    BY <1>b, <1>e, <2>2, <2>3
  <2> QED
    BY <2>1, <2>3, <2>4 DEF Deleting
<1>4. QueuedIsTended'
  <2> SUFFICES ASSUME NEW i \in Ids, Waiting(i)'
               PROVE  ByClient(i)' \/ BySweep(i)' \/ ByWorker(i)'
    BY DEF QueuedIsTended
  <2>1. ASSUME NEW v \in Workers \ {w}, Runs(v, i), Tends(v)
        PROVE  ByWorker(i)'
    <3>1. Tends(v)' /\ Runs(v, i)'
      BY <1>a, <1>1, <2>1, TendsKept
    <3> QED
      BY <3>1 DEF ByWorker
  <2>2. CASE i # wid[w]
    <3>1. Waiting(i) /\ ~Runs(w, i)
      BY <1>b, <2>2 DEF Waiting, Runs
    <3> QED
      BY <1>e, <2>1, <3>1 DEF StrandInv, QueuedIsTended, ByWorker
  <2>3. CASE i = wid[w]
    <3>1. CASE wid'[w] = i /\ wpc'[w] # "idle" /\ Tends(w)'
      BY <2>3, <3>1 DEF ByWorker, Runs
    <3>2. CASE ByClient(i)
      BY <1>e, <2>3, <3>2
    <3>3. CASE ~Tends(w) /\ rows' = rows
      <4>1. Waiting(i)
        BY <3>3 DEF Waiting
      <4> QED
        BY <1>e, <2>1, <3>3, <4>1 DEF StrandInv, QueuedIsTended, ByWorker
    <3> QED
      BY <1>2, <2>3, <3>1, <3>2, <3>3
  <2> QED
    BY <2>2, <2>3
<1> QED
  BY <1>d, <1>3, <1>4 DEF StrandInv

(* A step that touches neither rows nor workers, when whoever tended a job  *)
(* still does.                                                              *)
LEMMA OthersTend ==
    ASSUME StrandInv, UNCHANGED <<rows, rerun, cancelled, wpc, wid>>,
           \A c \in Clients : prog'[c] \in QueuePrograms, page'[Main] = 0,
           \A i \in Ids : Waiting(i) => (ByClient(i) \/ BySweep(i) =>
                            ByClient(i)' \/ BySweep(i)' \/ ByWorker(i)'),
           \A i : Deleting(i) => Deleting(i)'
    PROVE  StrandInv'
<1>1. CancelledIsDeleted'
  BY DEF StrandInv, CancelledIsDeleted
<1>2. \A i \in Ids : Waiting(i)' = Waiting(i) /\ ByWorker(i)' = ByWorker(i)
  BY DEF Waiting, ByWorker, Tends, Runs
<1>3. QueuedIsTended'
  BY <1>2 DEF StrandInv, QueuedIsTended
<1> QED
  BY <1>1, <1>3 DEF StrandInv

(* A request arrives: it tended nothing before.                             *)
LEMMA RequestTends ==
    ASSUME QueueOnly, SafetyInv, LidarrInv, StrandInv, NEW c \in Clients, Request(c)
    PROVE  StrandInv'
<1>a. /\ c \in Procs /\ c # Main /\ prog[c] = <<>> /\ Step(c) = "none"
      /\ UNCHANGED <<rows, rerun, cancelled, wpc, wid, todo, page>>
      /\ prog \in [Procs -> Seq(Steps)] /\ cjob \in [Procs -> Job]
  BY LifecycleAssumption, ProgramHeads
     DEF Request, Procs, table, worker, SafetyInv, TypeOK, Step
<1>1. PICK o \in Ops : prog' = [prog EXCEPT ![c] = dispatch(o)]
  BY DEF Request
<1>2. prog'[c] \in QueuePrograms
  <2>1. o \in {"AddURL", "Delete"}
    BY DEF QueueOnly
  <2>2. dispatch(o) \in QueuePrograms
    BY <2>1 DEF dispatch, handleAddURL, handleDelete, QueuePrograms
  <2> QED
    BY <1>a, <1>1, <2>2
<1>3. \A q \in Procs \ {c} : prog'[q] = prog[q] /\ cjob'[q] = cjob[q]
  <2>1. \A q \in Procs \ {c} : cjob'[q] = cjob[q]
    BY <1>a DEF Request
  <2> QED
    BY <1>a, <1>1, <2>1
<1>4. \A q \in Procs \ {c} : Step(q)' = Step(q)
  BY <1>3 DEF Step
<1>5. /\ \A i : ByClient(i) => ByClient(i)'
      /\ \A i : Deleting(i) => Deleting(i)'
      /\ \A i : BySweep(i) => BySweep(i)'
  BY <1>a, <1>3, <1>4 DEF ByClient, Deleting, BySweep, Procs
<1>6. \A d \in Clients : prog'[d] \in QueuePrograms
  BY <1>2, <1>3 DEF StrandInv, Procs
<1> QED
  BY <1>a, <1>5, <1>6, OthersTend DEF StrandInv

(* A request's statement keeps the request at its job, unless it was the    *)
(* last, that deletes the row, or the request has no job yet.               *)
LEMMA ClientTends ==
    ASSUME SafetyInv, LidarrInv, StrandInv, NEW c \in Clients,
           \/ FindActive(c) \/ Prune(c)
           \/ CancelJob(c) /\ Step(c) = "cancel"
           \/ ClearRequeues(c)
           \/ WriteRow(c) /\ Step(c) \in {"delete", "deleteHistory"}
    PROVE  StrandInv'
<1>a. /\ UNCHANGED <<rerun, wpc, wid, todo, page>>
      /\ \A i \in Ids : rows'[i] = rows[i] \/ rows'[i] = NoRow
      /\ \A q \in Procs \ {c} : prog'[q] = prog[q] /\ cjob'[q] = cjob[q]
      /\ StepOf(prog'[c]) \notin Nameless =>
               cjob'[c].id = cjob[c].id /\ Step(c) \notin Nameless
  BY ClientStep
<1>b. /\ c \in Procs /\ Main \in Procs /\ c # Main /\ ~Present(NoRow) /\ TypeOK
      /\ prog[c] \in QueuePrograms /\ prog[c] # <<>>
  BY LifecycleAssumption DEF Procs, Present, NoRow, SafetyInv, StrandInv, FindActive, Prune,
     CancelJob, ClearRequeues, WriteRow, At
<1>c. \A q \in Procs \ {c} : Step(q)' = Step(q)
  BY <1>a DEF Step
<1>d. \A i \in Ids : BySweep(i)' = BySweep(i)
  BY <1>a, <1>b, <1>c DEF BySweep
<1>1. /\ prog'[c] \in QueuePrograms
      /\ Step(c) \in Nameless => cjob[c].id \notin Ids
      /\ Step(c) = "cancel" => Step(c)' = "clear" /\ cjob'[c].id = cjob[c].id
      /\ Step(c) = "clear" => Step(c)' = "delete" /\ cjob'[c].id = cjob[c].id
      /\ Step(c) \in {"find", "prune", "cancel", "clear", "delete"}
  <2>1. prog'[c] \in {<<>>, Tail(prog[c])}
    BY <1>b DEF FindActive, Prune, CancelJob, ClearRequeues, WriteRow, Continue, TypeOK
  <2>2. /\ Tail(prog[c]) \in QueuePrograms /\ <<>> \in QueuePrograms
        /\ Step(c) # "deleteHistory"
        /\ Step(c) = "cancel" => StepOf(Tail(prog[c])) = "clear"
        /\ Step(c) = "clear" => StepOf(Tail(prog[c])) = "delete"
    BY <1>b, QueueTails DEF Step, QueuePrograms
  <2>3. Step(c) \in Nameless => cjob[c].id \notin Ids
    BY DEF LidarrInv, RequestsNamed
  <2>4. Step(c) \in {"find", "prune", "cancel", "clear", "delete"}
    BY <2>2 DEF FindActive, Prune, ClearRequeues, At, Step, StepOf
  <2>5. Step(c) \in {"cancel", "clear"} => prog'[c] = Tail(prog[c])
    BY <1>b DEF FindActive, Prune, CancelJob, ClearRequeues, WriteRow, Continue, TypeOK, At,
       Step, StepOf
  <2>6. Step(c)' = StepOf(prog'[c])
    BY DEF Step
  <2>7. /\ Step(c) = "cancel" => Step(c)' = "clear"
        /\ Step(c) = "clear" => Step(c)' = "delete"
    BY <2>2, <2>5, <2>6
  <2>8. Step(c) \in {"cancel", "clear"} => cjob'[c].id = cjob[c].id
    BY <1>a, <2>6, <2>7 DEF Nameless
  <2> QED
    BY <2>1, <2>2, <2>3, <2>4, <2>7, <2>8
<1>2. Step(c) = "delete" => cjob[c].id \in Ids /\ ~Present(rows'[cjob[c].id])
  <2>1. ASSUME Step(c) = "delete"
        PROVE  cjob[c].id \in Ids /\ ~Present(rows'[cjob[c].id])
    <3>1. cjob[c].id \in Ids
      BY <2>1 DEF LidarrInv, RequestsNamed, Nameless
    <3>2. rows' = Delete(rows, cjob[c].id)
      BY <1>b, <2>1 DEF FindActive, Prune, ClearRequeues, WriteRow, At, Step, StepOf
    <3> QED
      BY <1>b, <3>1, <3>2 DEF Delete, TypeOK
  <2> QED
    BY <2>1
<1>3. /\ \A i \in Ids : Present(rows'[i]) /\ ByClient(i) => ByClient(i)'
      /\ \A i \in Ids : Present(rows'[i]) /\ Deleting(i) => Deleting(i)'
  <2>1. \A d \in Clients \ {c} : Step(d)' = Step(d) /\ cjob'[d] = cjob[d]
    BY <1>a, <1>c DEF Procs
  <2>2. \A i \in Ids : Present(rows'[i]) /\ cjob[c].id = i =>
            Step(c)' \in {"clear", "delete"} /\ cjob'[c].id = i
    BY <1>1, <1>2 DEF Nameless
  <2> QED
    BY <2>1, <2>2 DEF ByClient, Deleting
<1>4. \A w \in Workers : cancelled'[w] /\ ~cancelled[w] =>
        wpc[w] \in CancelPCs /\ wid[w] \in Ids /\ Deleting(wid[w])'
  <2> SUFFICES ASSUME NEW w \in Workers, cancelled'[w], ~cancelled[w]
               PROVE  wpc[w] \in CancelPCs /\ wid[w] \in Ids /\ Deleting(wid[w])'
    OBVIOUS
  <2>1. CancelJob(c) /\ Step(c) = "cancel"
    BY DEF FindActive, Prune, ClearRequeues, WriteRow, worker
  <2>2. /\ running[cjob[c].id] # NoRun
        /\ cancelled' = [cancelled EXCEPT ![running[cjob[c].id]] = TRUE]
    BY <2>1 DEF CancelJob
  <2>3. w = running[cjob[c].id] /\ cjob[c].id \in Ids
    <3>1. cjob[c].id \in Ids
      BY <2>1 DEF LidarrInv, RequestsNamed, Nameless
    <3> QED
      BY <1>b, <2>2, <3>1 DEF TypeOK
  <2>4. Runs(w, cjob[c].id) /\ wpc[w] \in CancelPCs
    BY <2>2, <2>3 DEF SafetyInv, CancelReachesOwnPass, CancelPCs
  <2>5. PICK i \in Ids : i = wid[w]
    BY <2>3, <2>4 DEF Runs
  <2>6. Step(c)' = "clear" /\ cjob'[c].id = i
    BY <1>1, <2>1, <2>4, <2>5 DEF Runs
  <2>7. Deleting(i)'
    BY <2>6 DEF Deleting
  <2> QED
    BY <1>a, <2>4, <2>5, <2>7 DEF Deleting
<1>5. CancelledIsDeleted'
  <2> SUFFICES ASSUME NEW w \in Workers, cancelled'[w]
               PROVE  wpc[w] \in CancelPCs /\ (Present(rows'[wid[w]]) => Deleting(wid[w])')
    BY <1>a DEF CancelledIsDeleted
  <2>1. CASE cancelled[w]
    <3>1. /\ wpc[w] \in CancelPCs
          /\ Present(rows[wid[w]]) => Deleting(wid[w])
      BY <2>1 DEF StrandInv, CancelledIsDeleted
    <3>2. wpc[w] # "idle"
      BY <3>1 DEF CancelPCs, OwningPCs
    <3>3. PICK i \in Ids : i = wid[w]
      BY <3>2 DEF SafetyInv, Registered
    <3>4. Present(rows'[i]) => Deleting(i)'
      BY <1>a, <1>b, <1>3, <3>1, <3>3
    <3> QED
      BY <1>a, <3>1, <3>3, <3>4 DEF Deleting
  <2>2. CASE ~cancelled[w]
    BY <1>4, <2>2
  <2> QED
    BY <2>1, <2>2
<1>6. QueuedIsTended'
  <2> SUFFICES ASSUME NEW i \in Ids, Waiting(i)'
               PROVE  ByClient(i)' \/ BySweep(i)' \/ ByWorker(i)'
    BY DEF QueuedIsTended
  <2>1. Present(rows'[i]) /\ rows'[i] = rows[i] /\ Waiting(i)
    BY <1>a, <1>b DEF Waiting, Active
  <2>2. CASE ByClient(i) \/ BySweep(i)
    BY <1>3, <1>d, <2>1, <2>2
  <2>3. CASE ByWorker(i)
    <3>1. PICK w \in Workers : Runs(w, i) /\ Tends(w)
      BY <2>3 DEF ByWorker
    <3>2. CASE cancelled'[w] = cancelled[w]
      BY <1>a, <3>1, <3>2, TendsKept DEF ByWorker
    <3>3. CASE cancelled'[w] /\ ~cancelled[w]
      <4>1. Deleting(i)'
        BY <1>4, <1>a, <3>1, <3>3 DEF Runs, Deleting
      <4> QED
        BY <4>1 DEF Deleting, ByClient
    <3>4. cancelled[w] => cancelled'[w]
      BY <1>b DEF FindActive, Prune, CancelJob, ClearRequeues, WriteRow, worker, TypeOK
    <3>5. cancelled[w] \in BOOLEAN /\ cancelled'[w] \in BOOLEAN
      BY HandleSafe, <1>b DEF SafetyInv, TypeOK, Handle
    <3> QED
      BY <3>2, <3>3, <3>4, <3>5
  <2> QED
    BY <2>1, <2>2, <2>3 DEF StrandInv, QueuedIsTended
<1>7. \A d \in Clients : prog'[d] \in QueuePrograms
  BY <1>a, <1>1 DEF StrandInv, Procs
<1> QED
  BY <1>a, <1>5, <1>6, <1>7 DEF StrandInv

(* A new row is its request's to dispatch.                                  *)
LEMMA InsertTends ==
    ASSUME SafetyInv, LidarrInv, StrandInv, NEW c \in Clients, Insert(c)
    PROVE  StrandInv'
<1>a. /\ UNCHANGED <<rerun, wpc, wid, todo, page, cancelled>>
      /\ \A q \in Procs \ {c} : prog'[q] = prog[q] /\ cjob'[q] = cjob[q]
      /\ Step(c) = "insert"
      /\ \/ /\ prog'[c] = <<>> /\ UNCHANGED rows
         \/ /\ StepOf(prog'[c]) = "dispatch"
            /\ nextId \in Ids
            /\ cjob'[c].id = nextId
            /\ rows' = Add(rows, nextId, cjob[c].url)
  BY InsertStep
<1>b. /\ c \in Procs /\ Main \in Procs /\ c # Main /\ TypeOK
      /\ prog[c] \in QueuePrograms /\ prog[c] # <<>> /\ nextId \in Nat
      /\ cjob[c].id \notin Ids
  <2>1. nextId \in Nat
    BY DEF SafetyInv, TypeOK
  <2>2. cjob[c].id \notin Ids
    BY <1>a DEF LidarrInv, RequestsNamed, Nameless
  <2> QED
    BY <2>1, <2>2, LifecycleAssumption DEF Procs, SafetyInv, StrandInv, Insert, At
<1>c. \A q \in Procs \ {c} : Step(q)' = Step(q)
  BY <1>a DEF Step
<1>1. /\ \A i \in Ids : BySweep(i)' = BySweep(i)
      /\ \A i \in Ids : ByWorker(i)' = ByWorker(i)
      /\ \A i \in Ids : ByClient(i) => ByClient(i)'
      /\ \A i \in Ids : Deleting(i) => Deleting(i)'
  <2>1. \A d \in Clients \ {c} : Step(d)' = Step(d) /\ cjob'[d] = cjob[d]
    BY <1>a, <1>c DEF Procs
  <2>2. \A i \in Ids : ByClient(i) => ByClient(i)'
    BY <1>b, <2>1 DEF ByClient
  <2>3. \A i \in Ids : Deleting(i) => Deleting(i)'
    BY <1>b, <2>1 DEF Deleting
  <2>4. \A i \in Ids : BySweep(i)' = BySweep(i)
    BY <1>a, <1>b, <1>c DEF BySweep
  <2>5. \A i \in Ids : ByWorker(i)' = ByWorker(i)
    BY <1>a DEF ByWorker, Runs, Tends
  <2> QED
    BY <2>2, <2>3, <2>4, <2>5
<1>2. \A i \in Ids : i # nextId => rows'[i] = rows[i]
  BY <1>a, <1>b DEF Add, TypeOK
<1>3. CancelledIsDeleted'
  <2> SUFFICES ASSUME NEW w \in Workers, cancelled[w]
               PROVE  wpc[w] \in CancelPCs /\ (Present(rows'[wid[w]]) => Deleting(wid[w])')
    BY <1>a DEF CancelledIsDeleted
  <2>1. /\ wpc[w] \in CancelPCs
        /\ Present(rows[wid[w]]) => Deleting(wid[w])
    BY DEF StrandInv, CancelledIsDeleted
  <2>2. wpc[w] # "idle"
    BY <2>1 DEF CancelPCs, OwningPCs
  <2>3. PICK i \in Ids : i = wid[w]
    BY <2>2 DEF SafetyInv, Registered
  <2>4. i # nextId
    <3>1. ~(nextId < nextId)
      BY <1>b
    <3> QED
      BY <2>2, <2>3, <3>1 DEF LidarrInv, Unborn
  <2>5. Present(rows'[i]) => Deleting(i)'
    BY <1>1, <1>2, <2>1, <2>3, <2>4
  <2> QED
    BY <1>a, <2>1, <2>3, <2>5 DEF Deleting
<1>4. QueuedIsTended'
  <2> SUFFICES ASSUME NEW i \in Ids, Waiting(i)'
               PROVE  ByClient(i)' \/ BySweep(i)' \/ ByWorker(i)'
    BY DEF QueuedIsTended
  <2>1. CASE rows'[i] = rows[i]
    <3>1. Waiting(i)
      BY <2>1 DEF Waiting
    <3> QED
      BY <1>1, <3>1 DEF StrandInv, QueuedIsTended
  <2>2. CASE StepOf(prog'[c]) = "dispatch" /\ cjob'[c].id = i
    BY <2>2 DEF ByClient, Step
  <2> QED
    BY <1>a, <1>2, <2>1, <2>2
<1>5. \A d \in Clients : prog'[d] \in QueuePrograms
  <2>1. prog'[c] \in {<<>>, Tail(prog[c])}
    BY <1>b DEF Insert, Continue, TypeOK
  <2>2. <<>> \in QueuePrograms /\ Tail(prog[c]) \in QueuePrograms
    BY <1>b, QueueTails DEF QueuePrograms
  <2> QED
    BY <1>a, <2>1, <2>2 DEF StrandInv, Procs
<1> QED
  BY <1>a, <1>3, <1>4, <1>5 DEF StrandInv

(* Whoever dispatches a job leaves it to a worker that has not looked yet.  *)
LEMMA DispatchTends ==
    ASSUME SafetyInv, LidarrInv, StrandInv, NEW p \in Procs, dispatchNzoID(p)
    PROVE  StrandInv'
<1>a. /\ UNCHANGED <<rows, cancelled, todo, page>>
      /\ Step(p) = "dispatch" /\ cjob[p].id \in Ids
      /\ prog'[p] = Tail(prog[p])
      /\ \A q \in Procs \ {p} : prog'[q] = prog[q] /\ cjob'[q] = cjob[q]
  BY DispatchStep
<1>b. PICK w \in Workers :
        /\ wpc[w] = "idle"
        /\ rerun' = [rerun EXCEPT ![w] = FALSE]
        /\ wpc' = [wpc EXCEPT ![w] = "load"]
        /\ wid' = [wid EXCEPT ![w] = cjob[p].id]
  BY DispatchStep
<1>c. /\ rerun \in [Workers -> BOOLEAN] /\ wpc \in [Workers -> PCs]
      /\ wid \in [Workers -> 0..MaxJobs] /\ Main \in Procs /\ Main \notin Clients
  BY LifecycleAssumption DEF SafetyInv, TypeOK, Procs
<1>d. \A q \in Procs \ {p} : Step(q)' = Step(q)
  BY <1>a DEF Step
<1>1. \A v \in Workers \ {w} : /\ wpc'[v] = wpc[v] /\ wid'[v] = wid[v]
                               /\ rerun'[v] = rerun[v] /\ cancelled'[v] = cancelled[v]
  BY <1>a, <1>b, <1>c
<1>2. PICK mine \in Ids : mine = cjob[p].id
  BY <1>a
<1>3. Runs(w, mine)' /\ Tends(w)' /\ ~cancelled[w]
  <2>1. ~cancelled[w]
    BY <1>b DEF StrandInv, CancelledIsDeleted, CancelPCs, OwningPCs
  <2> QED
    BY <1>b, <1>c, <1>2, <2>1 DEF Runs, Tends
<1>4. \A i \in Ids : ByWorker(i) => ByWorker(i)'
  <2> SUFFICES ASSUME NEW i \in Ids, NEW v \in Workers, Runs(v, i), Tends(v)
               PROVE  ByWorker(i)'
    BY DEF ByWorker
  <2>1. v # w
    BY <1>b DEF Runs
  <2> QED
    BY <1>1, <2>1, TendsKept DEF ByWorker
<1>5. \A i \in Ids : i # mine /\ ByClient(i) => ByClient(i)'
  <2>1. \A d \in Clients : d # p => Step(d)' = Step(d) /\ cjob'[d] = cjob[d]
    BY <1>a, <1>d DEF Procs
  <2> QED
    BY <1>2, <2>1 DEF ByClient
<1>6. \A i \in Ids : i # mine /\ BySweep(i) => BySweep(i)'
  <2>1. CASE p = Main
    BY <1>a, <1>2, <2>1 DEF BySweep
  <2>2. CASE p # Main
    BY <1>a, <1>c, <1>d, <2>2 DEF BySweep
  <2> QED
    BY <2>1, <2>2
<1>7. QueuedIsTended'
  <2> SUFFICES ASSUME NEW i \in Ids, Waiting(i)'
               PROVE  ByClient(i)' \/ BySweep(i)' \/ ByWorker(i)'
    BY DEF QueuedIsTended
  <2>1. CASE i = mine
    BY <1>3, <2>1 DEF ByWorker
  <2>2. CASE i # mine
    <3>1. Waiting(i)
      BY <1>a DEF Waiting
    <3> QED
      BY <1>4, <1>5, <1>6, <2>2, <3>1 DEF StrandInv, QueuedIsTended
  <2> QED
    BY <2>1, <2>2
<1>8. CancelledIsDeleted'
  <2> SUFFICES ASSUME NEW v \in Workers, cancelled'[v]
               PROVE  wpc'[v] \in CancelPCs /\ (Present(rows'[wid'[v]]) => Deleting(wid[v])')
    BY DEF CancelledIsDeleted
  <2>1. v # w /\ cancelled[v] /\ wpc'[v] = wpc[v] /\ wid'[v] = wid[v]
    BY <1>a, <1>1, <1>3
  <2>2. /\ wpc[v] \in CancelPCs
        /\ Present(rows[wid[v]]) => Deleting(wid[v])
    BY <2>1 DEF StrandInv, CancelledIsDeleted
  <2>3. wpc[v] # "idle"
    BY <2>2 DEF CancelPCs, OwningPCs
  <2>4. PICK i \in Ids : i = wid[v]
    BY <2>3 DEF SafetyInv, Registered
  <2>5. Deleting(i) => Deleting(i)'
    <3>1. \A d \in Clients : Step(d) \in {"clear", "delete"} =>
            d # p /\ Step(d)' = Step(d) /\ cjob'[d] = cjob[d]
      BY <1>a, <1>d DEF Procs
    <3> QED
      BY <3>1 DEF Deleting
  <2>6. Present(rows'[i]) => Deleting(i)'
    BY <1>a, <2>2, <2>4, <2>5
  <2> QED
    BY <2>1, <2>2, <2>4, <2>6 DEF Deleting
<1>9. \A d \in Clients : prog'[d] \in QueuePrograms
  <2>1. p \in Clients => Tail(prog[p]) \in QueuePrograms
    BY <1>a, QueueTails, ProgramHeads DEF StrandInv, Step
  <2> QED
    BY <1>a, <2>1 DEF StrandInv, Procs
<1> QED
  BY <1>a, <1>7, <1>8, <1>9 DEF StrandInv

(* The sweep hands every Queued row on: from the table to its list, from    *)
(* the list to its next dispatch.                                           *)
LEMMA SweepTends ==
    ASSUME SafetyInv, LidarrInv, StrandInv, OnePage,
           Each(Main) \/ (ListPage(Main) /\ Step(Main) = "listPage")
    PROVE  StrandInv'
<1>a. /\ Main \in Procs /\ Main \notin Clients /\ TypeOK
      /\ UNCHANGED <<rows, rerun, cancelled, wpc, wid>>
  BY LifecycleAssumption DEF Procs, SafetyInv, Each, ListPage, table, shared, worker
<1>b. \A c \in Clients : prog'[c] = prog[c] /\ cjob'[c] = cjob[c] /\ Step(c)' = Step(c)
  <2>1. \A c \in Clients : prog'[c] = prog[c] /\ cjob'[c] = cjob[c]
    BY <1>a DEF Each, ListPage, Continue, TypeOK, Procs
  <2> QED
    BY <2>1 DEF Step
<1>c. /\ \A c \in Clients : prog'[c] \in QueuePrograms
      /\ \A i : ByClient(i) => ByClient(i)'
      /\ \A i : Deleting(i) => Deleting(i)'
  BY <1>b DEF StrandInv, ByClient, Deleting
<1>d. page[Main] = 0
  BY DEF StrandInv
<1>1. CASE ListPage(Main) /\ Step(Main) = "listPage"
  <2> DEFINE listed == {i \in List(rows, 0, PageSize) :
                            rows[i].status \in LoopStatuses("ResumeQueued")}
  <2>1. /\ PageSize \in Nat /\ IsFiniteSet(ActiveIds(rows))
        /\ Cardinality(ActiveIds(rows)) \in Nat
    <3>1. MaxJobs \in Nat
      BY StoreAssumption
    <3>2. IsFiniteSet(Ids)
      BY <3>1, FS_Interval DEF Ids
    <3>3. IsFiniteSet(ActiveIds(rows))
      BY <3>2, FS_Subset DEF ActiveIds
    <3> QED
      BY <3>3, FS_CardinalityType, LifecycleAssumption
  <2>2. op[Main] = "ResumeQueued"
    BY <1>1, ProgramHeads DEF LidarrInv, MainAlone, Step
  <2>3. ~(page[Main] + PageSize < Cardinality(ActiveIds(rows)))
    BY <1>1, <1>d, <2>1 DEF OnePage
  <2>4. page'[Main] = 0
    BY <1>1, <1>a, <2>3 DEF ListPage, TypeOK
  <2>5. todo'[Main] = todo[Main] \cup {JobOf(i) : i \in listed}
    BY <1>1, <1>a, <1>d, <2>2 DEF ListPage, TypeOK
  <2>6. ASSUME NEW i \in Ids, Waiting(i)
        PROVE  i \in listed
    <3>1. i \in ActiveIds(rows)
      BY <2>6 DEF Waiting, ActiveIds
    <3>2. {j \in ActiveIds(rows) : j < i} \subseteq ActiveIds(rows) \ {i}
      <4>1. ~(i < i)
        BY DEF Ids
      <4> QED
        BY <4>1
    <3>3. /\ Cardinality(ActiveIds(rows) \ {i}) = Cardinality(ActiveIds(rows)) - 1
          /\ IsFiniteSet(ActiveIds(rows) \ {i})
      BY <2>1, <3>1, FS_RemoveElement
    <3>4. Position(rows, i) <= Cardinality(ActiveIds(rows)) - 1 /\ Position(rows, i) \in Nat
      <4>1. Position(rows, i) <= Cardinality(ActiveIds(rows) \ {i})
        BY <3>2, <3>3, FS_Subset DEF Position
      <4> QED
        BY <3>3, <4>1, Positions
    <3>5. 0 <= Position(rows, i) /\ Position(rows, i) < 0 + PageSize
      BY <1>1, <2>1, <3>4 DEF OnePage
    <3>6. i \in List(rows, 0, PageSize)
      BY <3>1, <3>5 DEF List, Position
    <3> QED
      BY <2>6, <3>6 DEF LoopStatuses, Waiting
  <2>7. \A i \in Ids : Waiting(i) => BySweep(i)'
    <3>1. \A i \in Ids : JobOf(i).id = i
      BY <1>a, JobTypes DEF TypeOK
    <3> HIDE DEF listed
    <3> QED
      BY <2>5, <2>6, <3>1 DEF BySweep
  <2> QED
    BY <1>a, <1>c, <2>4, <2>7, OthersTend
<1>2. CASE Each(Main)
  <2>1. Step(Main) = "each" /\ op[Main] = "ResumeQueued" /\ page'[Main] = 0
    BY <1>2, <1>d DEF LidarrInv, MainAlone, Step, StepOf, Each, At
  <2>2. \A i : BySweep(i) => BySweep(i)'
    <3>1. ASSUME NEW j \in todo[Main],
                 todo' = [todo EXCEPT ![Main] = @ \ {j}],
                 Continue(Main, LoopBody(op[Main]) \o <<"each">>, j)
          PROVE  \A i : BySweep(i) => BySweep(i)'
      <4>1. prog'[Main] = <<"dispatch", "each">> /\ cjob'[Main] = j
        BY <1>a, <2>1, <3>1, SweepBody DEF Continue, TypeOK
      <4>2. Step(Main)' = "dispatch" /\ todo'[Main] = todo[Main] \ {j}
        BY <1>a, <3>1, <4>1, ProgramHeads DEF Step, TypeOK
      <4> QED
        BY <2>1, <4>1, <4>2 DEF BySweep
    <3>2. CASE todo[Main] = {} /\ todo' = todo
      BY <2>1, <3>2 DEF BySweep
    <3> QED
      BY <1>2, <3>1, <3>2 DEF Each
  <2> QED
    BY <1>a, <1>c, <2>1, <2>2, OthersTend
<1> QED
  BY <1>1, <1>2

(* After a restart the sweep has everything before it.                      *)
LEMMA RestartTends ==
    ASSUME SafetyInv, StrandInv, Restart
    PROVE  StrandInv'
<1>1. /\ prog'[Main] = <<"listPage", "each">> /\ page'[Main] = 0
      /\ \A c \in Clients : prog'[c] = <<>>
      /\ \A w \in Workers : ~cancelled'[w]
  BY LifecycleAssumption DEF Restart, ResumeQueuedJobs, Procs
<1>2. Step(Main)' = "listPage"
  BY <1>1, ProgramHeads DEF Step
<1>3. QueuedIsTended' /\ CancelledIsDeleted'
  BY <1>1, <1>2 DEF QueuedIsTended, BySweep, CancelledIsDeleted
<1> QED
  BY <1>1, <1>3 DEF StrandInv, QueuePrograms

(* An empty table strands nobody.                                           *)
LEMMA InitTends == Init => StrandInv
<1> SUFFICES ASSUME Init PROVE StrandInv
  OBVIOUS
<1>1. /\ page[Main] = 0
      /\ \A c \in Clients : prog[c] = <<>>
      /\ \A w \in Workers : ~cancelled[w]
      /\ \A i \in Ids : rows[i] = NoRow
  BY DEF Init, Procs
<1>2. ~Present(NoRow)
  BY DEF Present, NoRow
<1> QED
  BY <1>1, <1>2 DEF StrandInv, QueuePrograms, CancelledIsDeleted, QueuedIsTended, Waiting, Active

(* Every step keeps StrandInv.                                              *)
LEMMA StrandStep ==
    ASSUME QueueOnly, SafetyInv, LidarrInv, StrandInv, OnePage, [Next]_vars
    PROVE  StrandInv'
<1>1. ASSUME NEW c \in Clients, Request(c) PROVE StrandInv'
  BY <1>1, RequestTends
<1>2. ASSUME NEW p \in Procs, Handle(p) PROVE StrandInv'
  <2>1. CASE p \in Clients
    <3>1. \/ FindActive(p) \/ Prune(p) \/ Insert(p) \/ (CancelJob(p) /\ Step(p) = "cancel")
          \/ ClearRequeues(p) \/ (WriteRow(p) /\ Step(p) \in {"delete", "deleteHistory"})
          \/ dispatchNzoID(p)
      BY <1>2, <2>1, LidarrSteps, LifecycleAssumption
    <3>2. CASE Insert(p)
      BY <2>1, <3>2, InsertTends
    <3>3. CASE dispatchNzoID(p)
      BY <3>3, DispatchTends
    <3>4. CASE \/ FindActive(p) \/ Prune(p) \/ (CancelJob(p) /\ Step(p) = "cancel")
               \/ ClearRequeues(p) \/ (WriteRow(p) /\ Step(p) \in {"delete", "deleteHistory"})
      BY <2>1, <3>4, ClientTends
    <3> QED
      BY <3>1, <3>2, <3>3, <3>4
  <2>2. CASE p = Main
    <3>1. (ListPage(p) /\ Step(p) = "listPage") \/ Each(p) \/ dispatchNzoID(p)
      BY <1>2, <2>2, LidarrSteps, LifecycleAssumption
    <3>2. CASE dispatchNzoID(p)
      BY <3>2, DispatchTends
    <3>3. CASE (ListPage(p) /\ Step(p) = "listPage") \/ Each(p)
      BY <2>2, <3>3, SweepTends
    <3> QED
      BY <3>1, <3>2, <3>3
  <2> QED
    BY <2>1, <2>2 DEF Procs
<1>3. ASSUME NEW w \in Workers, RunJob(w) \/ GiveSlotBack(w) \/ handleProgressEvent(w)
      PROVE  StrandInv'
  BY <1>3, WorkerTends DEF WorkerSteps
<1>4. CASE Restart
  BY <1>4, RestartTends
<1>5. CASE UNCHANGED vars
  <2>1. UNCHANGED <<rows, rerun, cancelled, wpc, wid, prog, cjob, todo, page>>
    BY <1>5 DEF vars, table, worker, request
  <2>2. \A p : Step(p)' = Step(p)
    BY <2>1 DEF Step
  <2>3. /\ \A i : ByClient(i) => ByClient(i)'
        /\ \A i : BySweep(i) => BySweep(i)'
        /\ \A i : Deleting(i) => Deleting(i)'
    BY <2>1, <2>2 DEF ByClient, BySweep, Deleting
  <2>4. page'[Main] = 0 /\ \A c \in Clients : prog'[c] \in QueuePrograms
    BY <2>1 DEF StrandInv
  <2> QED
    BY <2>1, <2>3, <2>4, OthersTend
<1> QED
  BY <1>1, <1>2, <1>3, <1>4, <1>5 DEF Next

(* No job is stranded while adding to and deleting from the queue is all    *)
(* that clients do and what a restart finds fits on one page of its sweep.  *)
THEOREM NoJobIsStranded ==
    ASSUME QueueOnly
    PROVE  Spec /\ []OnePage => []NoStrandedJob
<1>1. LidarrOnly
  BY DEF QueueOnly, LidarrOnly
<1>2. SafetyInv /\ LidarrInv /\ StrandInv /\ OnePage /\ [Next]_vars => StrandInv'
  BY StrandStep
<1>3. Spec => []LidarrInv
  BY <1>1, LidarrInvariant
<1>4. LidarrInv /\ StrandInv => NoStrandedJob
  <2> SUFFICES ASSUME LidarrInv, StrandInv, NEW i \in Ids, Active(rows[i]),
                      rows[i].status = "Queued"
               PROVE  Attended(i)
    BY DEF NoStrandedJob
  <2>1. ByClient(i) \/ BySweep(i) \/ ByWorker(i)
    BY DEF StrandInv, QueuedIsTended, Waiting
  <2>2. CASE ByClient(i)
    BY <2>2, ProgramHeads DEF ByClient, Attended, Step
  <2>3. CASE BySweep(i)
    <3>1. Step(Main) # "none"
      BY <2>3 DEF BySweep, LidarrInv, SweptOnce
    <3> QED
      BY <3>1, ProgramHeads DEF Attended, Step
  <2>4. CASE ByWorker(i)
    BY <2>4 DEF ByWorker, Tends, Attended
  <2> QED
    BY <2>1, <2>2, <2>3, <2>4
<1> QED
  BY <1>2, <1>3, <1>4, InitTends, SafetyInvariant, PTL DEF Spec
=============================================================================
