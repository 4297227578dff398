------------------------- MODULE JobLifecycleProofs -------------------------
(***************************************************************************)
(* The safety of the worker registry, for any number of jobs, clients,     *)
(* workers and slots, and for every sequence of API operations and         *)
(* restarts.                                                               *)
(***************************************************************************)
EXTENDS JobLifecycle, FiniteSetTheorems, SequenceTheorems, TLAPS

(* A live worker is the one its job's registry entry points to.             *)
Registered ==
    \A w \in Workers : wpc[w] # "idle" =>
        /\ wid[w] \in Ids
        /\ inFlight[wid[w]] = w

(* What is left of a request's program when it may still lack an nzo_id.    *)
Anonymous == {<<>>, <<"find", "prune", "insert", "dispatch">>,
              <<"prune", "insert", "dispatch">>, <<"insert", "dispatch">>,
              <<"listAll", "each">>, <<"listPage", "each">>, <<"each">>}

(* A request holds an nzo_id from the moment one of its steps needs it.     *)
NamesJob == \A p \in Procs : cjob[p].id \in Ids \/ prog[p] \in Anonymous

(* The workers that hold a slot when their positions are pcs.               *)
Holders(pcs) == {w \in Workers : pcs[w] \in SlotPCs}

(* The inductive invariant.  Registered is what makes AtMostOneWorker       *)
(* inductive, and, with it, WorkerNeverInHistory: the row a worker archives *)
(* is nobody else's.  SlotsAccountedFor keeps sem within its type.          *)
SafetyInv ==
    /\ TypeOK
    /\ NamesJob
    /\ Registered
    /\ WorkerNeverInHistory
    /\ SlotsAccountedFor
    /\ CancelReachesOwnPass

-----------------------------------------------------------------------------

(* What UPDATE ... WHERE nzo_id = ? leaves alone: which rows exist and on   *)
(* which side of the table they are.                                        *)
LEMMA UpdateFacts ==
    ASSUME NEW t \in [Ids -> Row], NEW i, NEW s \in Statuses \cup {"None"},
           NEW r \in Nat
    PROVE  /\ Update(t, i, s, r) \in [Ids -> Row]
           /\ \A j \in Ids : Update(t, i, s, r)[j].hist = t[j].hist
           /\ s # "None" =>
                \A j \in Ids : Present(Update(t, i, s, r)[j]) = Present(t[j])
BY DEF Update, Row, Present

(* The sweep turns a row into a row.                                        *)
LEMMA RecoveredType ==
    ASSUME NEW row \in Row
    PROVE  Recovered(row) \in Row
<1>1. row.recover \in Nat /\ row.url \in Urls \cup {""}
  BY DEF Row
<1>2. row.recover + 1 \in Nat
  <2>1. \A n \in Nat : n + 1 \in Nat
    OBVIOUS
  <2> QED
    BY <1>1, <2>1, Zenon
<1>3. ASSUME NEW s \in Statuses, NEW h \in BOOLEAN, NEW n \in Nat
      PROVE  [url |-> row.url, status |-> s, hist |-> h, recover |-> n] \in Row
  BY <1>1, <1>3 DEF Row
<1>4. {"Failed", "Queued"} \subseteq Statuses
  BY DEF Statuses, ActiveStatuses, TerminalStatuses
<1>5. CASE ~(Active(row) /\ row.status = "Downloading")
  BY <1>5 DEF Recovered
<1>6. CASE Active(row) /\ row.status = "Downloading"
  <2>1. CASE row.recover >= MaxRecoveries
    <3>1. Recovered(row) = [url |-> row.url, status |-> "Failed",
                            hist |-> TRUE, recover |-> row.recover]
      BY <1>6, <2>1, Zenon DEF Recovered
    <3> QED
      BY <1>1, <1>3, <1>4, <3>1, Zenon
  <2>2. CASE ~(row.recover >= MaxRecoveries)
    <3>1. Recovered(row) = [url |-> row.url, status |-> "Queued",
                            hist |-> FALSE, recover |-> row.recover + 1]
      BY <1>6, <2>2, Zenon DEF Recovered
    <3> QED
      BY <1>2, <1>3, <1>4, <3>1, Zenon
  <2> QED
    BY <2>1, <2>2
<1> QED
  BY <1>5, <1>6

(* Every statement keeps the table a table.                                 *)
LEMMA StoreTypes ==
    ASSUME NEW t \in [Ids -> Row], NEW i
    PROVE  /\ Delete(t, i) \in [Ids -> Row]
           /\ DeleteFromHistory(t, i) \in [Ids -> Row]
           /\ MoveToQueue(t, i) \in [Ids -> Row]
           /\ MoveToHistory(t, i) \in [Ids -> Row]
           /\ RecoverStuckJobs(t) \in [Ids -> Row]
           /\ \A u \in Urls \cup {""} : Add(t, i, u) \in [Ids -> Row]
           /\ \A keep \in Nat : PruneHistory(t, keep) \subseteq [Ids -> Row]
<1>1. NoRow \in Row
  BY DEF NoRow, Row
<1>2. /\ Delete(t, i) \in [Ids -> Row]
      /\ DeleteFromHistory(t, i) \in [Ids -> Row]
  BY <1>1 DEF Delete, DeleteFromHistory
<1>3. /\ MoveToQueue(t, i) \in [Ids -> Row]
      /\ MoveToHistory(t, i) \in [Ids -> Row]
  BY DEF MoveToQueue, MoveToHistory, Row
<1>4. RecoverStuckJobs(t) \in [Ids -> Row]
  <2>1. \A j \in Ids : Recovered(t[j]) \in Row
    BY RecoveredType
  <2> QED
    BY <2>1 DEF RecoverStuckJobs
<1>5. \A u \in Urls \cup {""} : Add(t, i, u) \in [Ids -> Row]
  BY DEF Add, Row, Statuses, ActiveStatuses
<1>6. \A keep \in Nat : PruneHistory(t, keep) \subseteq [Ids -> Row]
  BY <1>1 DEF PruneHistory
<1> QED
  BY <1>2, <1>3, <1>4, <1>5, <1>6

(* No statement but MoveToHistory and the start-up sweep puts a row into    *)
(* history.                                                                 *)
LEMMA NoNewHistory ==
    ASSUME NEW t \in [Ids -> Row], NEW i, NEW j \in Ids
    PROVE  /\ InHistory(Delete(t, i)[j]) => InHistory(t[j])
           /\ InHistory(DeleteFromHistory(t, i)[j]) => InHistory(t[j])
           /\ InHistory(MoveToQueue(t, i)[j]) => InHistory(t[j])
           /\ \A u : InHistory(Add(t, i, u)[j]) => InHistory(t[j])
           /\ \A s, r : InHistory(Update(t, i, s, r)[j]) => InHistory(t[j])
           /\ \A k : \A n \in PruneHistory(t, k) : InHistory(n[j]) => InHistory(t[j])
<1>1. ~InHistory(NoRow)
  BY DEF InHistory, Present, NoRow
<1>2. InHistory(Delete(t, i)[j]) => InHistory(t[j])
  BY <1>1 DEF Delete
<1>3. InHistory(DeleteFromHistory(t, i)[j]) => InHistory(t[j])
  BY <1>1 DEF DeleteFromHistory
<1>4. InHistory(MoveToQueue(t, i)[j]) => InHistory(t[j])
  BY DEF MoveToQueue, InHistory, Present, Row
<1>5. \A u : InHistory(Add(t, i, u)[j]) => InHistory(t[j])
  BY DEF Add, InHistory, Present, Row
<1>6. \A s, r : InHistory(Update(t, i, s, r)[j]) => InHistory(t[j])
  BY DEF Update, InHistory, Present, Row
<1>7. \A k : \A n \in PruneHistory(t, k) : InHistory(n[j]) => InHistory(t[j])
  BY <1>1 DEF PruneHistory
<1> QED
  BY <1>2, <1>3, <1>4, <1>5, <1>6, <1>7

(* MoveToHistory touches one row.                                           *)
LEMMA MoveToHistoryFacts ==
    ASSUME NEW t \in [Ids -> Row], NEW i, NEW j \in Ids, j # i
    PROVE  MoveToHistory(t, i)[j] = t[j]
BY DEF MoveToHistory

-----------------------------------------------------------------------------

(* Moving a worker between two places outside, or two places inside, the    *)
(* span of the slot leaves the holders as they are; taking a slot adds the  *)
(* worker, releasing one removes it.                                        *)
LEMMA HolderCount ==
    ASSUME NEW pcs \in [Workers -> PCs], NEW w \in Workers, NEW to \in PCs
    PROVE  LET new == [pcs EXCEPT ![w] = to]
           IN  /\ IsFiniteSet(Holders(pcs)) /\ Cardinality(Holders(pcs)) \in Nat
               /\ (pcs[w] \in SlotPCs <=> to \in SlotPCs) =>
                        Cardinality(Holders(new)) = Cardinality(Holders(pcs))
               /\ pcs[w] \notin SlotPCs /\ to \in SlotPCs =>
                        Cardinality(Holders(new)) = Cardinality(Holders(pcs)) + 1
               /\ pcs[w] \in SlotPCs /\ to \notin SlotPCs =>
                        /\ Cardinality(Holders(new)) = Cardinality(Holders(pcs)) - 1
                        /\ Cardinality(Holders(pcs)) > 0
<1> DEFINE new == [pcs EXCEPT ![w] = to]
<1>1. IsFiniteSet(Holders(pcs)) /\ Cardinality(Holders(pcs)) \in Nat
  BY LifecycleAssumption, FS_Subset, FS_CardinalityType DEF Holders
<1>2. ASSUME pcs[w] \in SlotPCs <=> to \in SlotPCs
      PROVE  Holders(new) = Holders(pcs)
  BY <1>2 DEF Holders
<1>3. ASSUME pcs[w] \notin SlotPCs, to \in SlotPCs
      PROVE  Cardinality(Holders(new)) = Cardinality(Holders(pcs)) + 1
  <2>1. Holders(new) = Holders(pcs) \cup {w} /\ w \notin Holders(pcs)
    BY <1>3 DEF Holders
  <2> QED
    BY <1>1, <2>1, FS_AddElement
<1>4. ASSUME pcs[w] \in SlotPCs, to \notin SlotPCs
      PROVE  /\ Cardinality(Holders(new)) = Cardinality(Holders(pcs)) - 1
             /\ Cardinality(Holders(pcs)) > 0
  <2>1. Holders(new) = Holders(pcs) \ {w} /\ w \in Holders(pcs)
    BY <1>4 DEF Holders
  <2>2. Cardinality(Holders(pcs)) # 0
    BY <1>1, <2>1, FS_EmptySet
  <2>3. Cardinality(Holders(pcs) \ {w}) = Cardinality(Holders(pcs)) - 1
    BY <1>1, <2>1, FS_RemoveElement, Zenon
  <2>4. Cardinality(Holders(pcs)) > 0
    BY <1>1, <2>2
  <2> QED
    BY <2>1, <2>3, <2>4, Zenon
<1> QED
  BY <1>1, <1>2, <1>3, <1>4

-----------------------------------------------------------------------------

(* The job a request starts with, and the copies it takes.                  *)
LEMMA JobTypes ==
    /\ NoJob \in Job
    /\ \A i \in Ids : i \in 0..MaxJobs /\ i # 0 /\ i + 1 \in 1..(MaxJobs + 1)
    /\ rows \in [Ids -> Row] => \A i \in Ids : JobOf(i) \in Job /\ JobOf(i).id = i
<1>1. MaxJobs \in Nat
  BY StoreAssumption
<1>2. 0 \in 0..MaxJobs /\ \A i \in Ids : i \in 0..MaxJobs /\ i # 0 /\ i + 1 \in 1..(MaxJobs + 1)
  BY <1>1 DEF Ids
<1>3. NoJob \in Job
  BY <1>2 DEF NoJob, Job
<1>4. ASSUME rows \in [Ids -> Row], NEW i \in Ids
      PROVE  JobOf(i) \in Job /\ JobOf(i).id = i
  BY <1>2, <1>4 DEF JobOf, Job, Row
<1> QED
  BY <1>2, <1>3, <1>4

(* Every handler's program is a sequence of step names.                     *)
LEMMA Programs ==
    /\ <<>> \in Seq(Steps)
    /\ <<"listPage", "each">> \in Seq(Steps)
    /\ \A o : LoopBody(o) \o <<"each">> \in Seq(Steps)
    /\ \A o : dispatch(o) \in Seq(Steps)
    /\ \A s \in Seq(Steps) : <<"ask">> \o s \in Seq(Steps)
<1>1. /\ <<"cancelDownload", "update">> \in Seq(Steps)
      /\ <<"update", "dispatch">> \in Seq(Steps)
      /\ <<"dispatch">> \in Seq(Steps)
      /\ <<"each">> \in Seq(Steps)
      /\ <<"listPage", "each">> \in Seq(Steps)
      /\ <<>> \in Seq(Steps)
  BY DEF Steps
<1>2. \A o : LoopBody(o) \o <<"each">> \in Seq(Steps)
  <2>1. \A o : LoopBody(o) \in {<<"cancelDownload", "update">>,
                                <<"update", "dispatch">>, <<"dispatch">>, <<>>}
    BY DEF LoopBody
  <2>2. \A o : LoopBody(o) \in Seq(Steps)
    BY <1>1, <2>1, Zenon
  <2> QED
    BY <1>1, <2>2, ConcatProperties, Zenon
<1>3. \A o : dispatch(o) \in Seq(Steps)
  <2>1. /\ handleAddURL \in Seq(Steps)
        /\ handlePause \in Seq(Steps)
        /\ handleResume \in Seq(Steps)
        /\ handleChangeCat \in Seq(Steps)
        /\ handleDelete \in Seq(Steps)
        /\ handleHistoryDelete \in Seq(Steps)
        /\ handleRetry \in Seq(Steps)
        /\ handlePauseAll \in Seq(Steps)
        /\ handleResumeAll \in Seq(Steps)
    BY DEF handleAddURL, handlePause, handleResume, handleChangeCat, handleDelete,
           handleHistoryDelete, handleRetry, handlePauseAll, handleResumeAll,
           Steps
  <2>2. \A o : dispatch(o) \in {handleAddURL, handlePause, handleResume,
                                handleChangeCat, handleDelete, handleHistoryDelete,
                                handleRetry, handlePauseAll, handleResumeAll, <<>>}
    BY DEF dispatch
  <2> QED
    BY <1>1, <2>1, <2>2, Zenon
<1>4. \A s \in Seq(Steps) : <<"ask">> \o s \in Seq(Steps)
  <2>1. <<"ask">> \in Seq(Steps)
    BY DEF Steps
  <2> QED
    BY <2>1, ConcatProperties, Zenon
<1> QED
  BY <1>1, <1>2, <1>3, <1>4

(* What a request's program can be, one step on.                            *)
LEMMA ProgramFacts ==
    ASSUME TypeOK, NamesJob, NEW p \in Procs, NEW step, At(p, step)
    PROVE  /\ Tail(prog[p]) \in Seq(Steps)
           /\ step \notin {"find", "prune", "insert", "listAll", "listPage", "each"}
                => cjob[p].id \in Ids
           /\ step \in {"find", "prune", "listAll", "listPage"}
                => cjob[p].id \in Ids \/ Tail(prog[p]) \in Anonymous
<1>1. prog[p] \in Seq(Steps) /\ prog[p] # <<>> /\ Head(prog[p]) = step
  BY DEF TypeOK, At
<1>2. Tail(prog[p]) \in Seq(Steps)
  BY <1>1, HeadTailProperties, Zenon
<1>3. CASE prog[p] \notin Anonymous
  BY <1>2, <1>3 DEF NamesJob
<1>4. CASE prog[p] \in Anonymous
  <2>1. \/ prog[p] = <<"find", "prune", "insert", "dispatch">>
        \/ prog[p] = <<"prune", "insert", "dispatch">>
        \/ prog[p] = <<"insert", "dispatch">>
        \/ prog[p] = <<"listAll", "each">>
        \/ prog[p] = <<"listPage", "each">>
        \/ prog[p] = <<"each">>
    BY <1>1, <1>4 DEF Anonymous
  <2>2. step \in {"find", "prune", "insert", "listAll", "listPage", "each"}
    BY <1>1, <2>1
  <2>3. step \in {"find", "prune", "listAll", "listPage"}
            => Tail(prog[p]) \in Anonymous
    <3>1. /\ Tail(<<"find", "prune", "insert", "dispatch">>) = <<"prune", "insert", "dispatch">>
          /\ Tail(<<"prune", "insert", "dispatch">>) = <<"insert", "dispatch">>
          /\ Tail(<<"listAll", "each">>) = <<"each">>
          /\ Tail(<<"listPage", "each">>) = <<"each">>
      OBVIOUS
    <3>2. step \in {"find", "prune", "listAll", "listPage"} =>
            prog[p] \in {<<"find", "prune", "insert", "dispatch">>,
                         <<"prune", "insert", "dispatch">>,
                         <<"listAll", "each">>, <<"listPage", "each">>}
      <4>1. Head(<<"insert", "dispatch">>) = "insert" /\ Head(<<"each">>) = "each"
        OBVIOUS
      <4>2. "insert" \notin {"find", "prune", "listAll", "listPage"}
        OBVIOUS
      <4>3. "each" \notin {"find", "prune", "listAll", "listPage"}
        OBVIOUS
      <4> QED
        BY <1>1, <2>1, <4>1, <4>2, <4>3, Zenon
    <3> QED
      BY <3>1, <3>2, Zenon DEF Anonymous
  <2> QED
    BY <1>2, <2>2, <2>3, Zenon DEF Anonymous
<1> QED
  BY <1>3, <1>4

(* Continue writes values of the right types, and keeps NamesJob when what  *)
(* is left needs no nzo_id or the job has one.                              *)
LEMMA ContinueFacts ==
    ASSUME TypeOK, NamesJob, NEW p \in Procs, NEW rest \in Seq(Steps),
           NEW job \in Job, Continue(p, rest, job),
           job.id \in Ids \/ rest \in Anonymous
    PROVE  /\ prog' \in [Procs -> Seq(Steps)]
           /\ cjob' \in [Procs -> Job]
           /\ op' \in [Procs -> AllOps \cup {"none", "ResumeQueued"}]
           /\ NamesJob'
<1>1. NoJob \in Job
  BY JobTypes
<1>2. /\ prog' \in [Procs -> Seq(Steps)]
      /\ cjob' \in [Procs -> Job]
      /\ op' \in [Procs -> AllOps \cup {"none", "ResumeQueued"}]
  BY <1>1 DEF Continue, TypeOK
<1>3. NamesJob'
  <2>1. <<>> \in Anonymous
    BY DEF Anonymous
  <2> QED
    BY <2>1 DEF Continue, TypeOK, NamesJob
<1> QED
  BY <1>2, <1>3

-----------------------------------------------------------------------------

(* A step that moves no worker, registers nothing, cancels nothing and puts *)
(* no row into history keeps what the invariant says of the workers.        *)
LEMMA WorkersUntouched ==
    ASSUME SafetyInv, UNCHANGED <<inFlight, running, sem, wpc, wid>>,
           \A j \in Ids : InHistory(rows'[j]) => InHistory(rows[j])
    PROVE  Registered' /\ WorkerNeverInHistory' /\ SlotsAccountedFor'
           /\ CancelReachesOwnPass'
<1>1. Registered'
  BY DEF SafetyInv, Registered
<1>2. WorkerNeverInHistory'
  <2> SUFFICES ASSUME NEW w \in Workers, wpc[w] \in OwningPCs
               PROVE  ~InHistory(rows'[wid[w]])
    BY DEF WorkerNeverInHistory
  <2>1. wid[w] \in Ids /\ ~InHistory(rows[wid[w]])
    BY DEF SafetyInv, Registered, WorkerNeverInHistory, OwningPCs
  <2> QED
    BY <2>1
<1>3. SlotsAccountedFor'
  BY DEF SafetyInv, SlotsAccountedFor
<1>4. CancelReachesOwnPass'
  BY DEF SafetyInv, CancelReachesOwnPass, Runs
<1> QED
  BY <1>1, <1>2, <1>3, <1>4

(* A step of a request that goes on in its handler and writes the table,    *)
(* the counters or its own variables, and nothing of the workers'.          *)
LEMMA RequestStep ==
    ASSUME SafetyInv, NEW p \in Procs, NEW rest \in Seq(Steps), NEW job \in Job,
           Continue(p, rest, job),
           job.id \in Ids \/ rest \in Anonymous,
           UNCHANGED <<crashes, inFlight, running, sem, cancelled, wpc, wid, wrec>>,
           rerun' \in [Workers -> BOOLEAN],
           nextId' \in 1..(MaxJobs + 1),
           rows' \in [Ids -> Row],
           \A j \in Ids : InHistory(rows'[j]) => InHistory(rows[j]),
           requeues' \in [Ids -> Nat],
           cref' \in [Procs -> Workers \cup {NoRun}],
           todo' \in [Procs -> SUBSET {j \in Job : j.id \in Ids}],
           page' \in [Procs -> Nat]
    PROVE  SafetyInv'
<1>1. /\ prog' \in [Procs -> Seq(Steps)] /\ cjob' \in [Procs -> Job]
      /\ op' \in [Procs -> AllOps \cup {"none", "ResumeQueued"}]
      /\ NamesJob'
  BY ContinueFacts DEF SafetyInv
<1>2. TypeOK'
  BY <1>1 DEF SafetyInv, TypeOK
<1> QED
  BY <1>1, <1>2, WorkersUntouched DEF SafetyInv

(* A handler's accesses to shared state keep the invariant.                 *)
LEMMA HandleSafe ==
    ASSUME SafetyInv, NEW p \in Procs, Handle(p)
    PROVE  SafetyInv'
<1>a. TypeOK /\ NamesJob
  BY DEF SafetyInv
<1>b. /\ <<>> \in Anonymous /\ <<>> \in Seq(Steps)
      /\ cjob[p] \in Job /\ prog[p] \in Seq(Steps)
      /\ NoJob \in Job
      /\ rows \in [Ids -> Row]
  BY <1>a, JobTypes DEF Anonymous, TypeOK
<1>c. /\ nextId \in 1..(MaxJobs + 1)
      /\ requeues \in [Ids -> Nat]
      /\ cref \in [Procs -> Workers \cup {NoRun}]
      /\ todo \in [Procs -> SUBSET {j \in Job : j.id \in Ids}]
      /\ page \in [Procs -> Nat]
      /\ rerun \in [Workers -> BOOLEAN]
  BY <1>a DEF TypeOK
<1>1. CASE FindActive(p)
  <2>1. Tail(prog[p]) \in Seq(Steps)
        /\ (cjob[p].id \in Ids \/ Tail(prog[p]) \in Anonymous)
    BY <1>1, <1>a, ProgramFacts DEF FindActive
  <2>2. UNCHANGED <<table, shared, worker, cref, todo, page>>
    BY <1>1 DEF FindActive
  <2> QED
    BY <1>1, <1>b, <1>c, <2>1, <2>2, RequestStep
       DEF FindActive, table, shared, worker
<1>2. CASE Prune(p)
  <2>1. Tail(prog[p]) \in Seq(Steps)
        /\ (cjob[p].id \in Ids \/ Tail(prog[p]) \in Anonymous)
    BY <1>2, <1>a, ProgramFacts DEF Prune
  <2>2. rows' \in [Ids -> Row]
    BY <1>2, <1>b, StoreTypes, LifecycleAssumption DEF Prune
  <2>3. \A j \in Ids : InHistory(rows'[j]) => InHistory(rows[j])
    BY <1>2, <1>b, NoNewHistory DEF Prune
  <2> QED
    BY <1>2, <1>b, <1>c, <2>1, <2>2, <2>3, RequestStep
       DEF Prune, shared, worker
<1>3. CASE Insert(p)
  <2>1. CASE nextId \notin Ids
    BY <1>3, <1>b, <1>c, <2>1, RequestStep DEF Insert, shared, worker
  <2>2. CASE nextId \in Ids
    <3> DEFINE job == [cjob[p] EXCEPT !.id = nextId]
    <3>1. /\ rows' = Add(rows, nextId, cjob[p].url)
          /\ nextId' = nextId + 1
          /\ Continue(p, Tail(prog[p]), job)
      BY <1>3, <2>2 DEF Insert
    <3>2. job \in Job /\ job.id \in Ids
      BY <1>b, <2>2, JobTypes DEF Job
    <3>3. nextId' \in 1..(MaxJobs + 1)
      BY <3>1, <2>2, JobTypes
    <3>4. Tail(prog[p]) \in Seq(Steps)
      BY <1>3, <1>a, ProgramFacts DEF Insert
    <3>5. rows' \in [Ids -> Row]
      <4>1. cjob[p].url \in Urls \cup {""}
        BY <1>b DEF Job
      <4> QED
        BY <1>b, <3>1, <4>1, StoreTypes
    <3>6. \A j \in Ids : InHistory(rows'[j]) => InHistory(rows[j])
      BY <1>b, <3>1, NoNewHistory
    <3> QED
      BY <1>3, <1>c, <3>1, <3>2, <3>3, <3>4, <3>5, <3>6, RequestStep
         DEF Insert, shared, worker
  <2> QED
    BY <2>1, <2>2
<1>4. CASE Get(p)
  <2>1. Tail(prog[p]) \in Seq(Steps) /\ cjob[p].id \in Ids
    BY <1>4, <1>a, ProgramFacts DEF Get
  <2>2. JobOf(cjob[p].id) \in Job /\ JobOf(cjob[p].id).id \in Ids
    BY <1>b, <2>1, JobTypes
  <2>3. UNCHANGED <<table, shared, worker, cref, todo, page>>
    BY <1>4 DEF Get
  <2>4. \/ Continue(p, Tail(prog[p]), JobOf(cjob[p].id))
        \/ Continue(p, <<>>, NoJob)
    BY <1>4 DEF Get
  <2> QED
    BY <1>b, <1>c, <2>1, <2>2, <2>3, <2>4, RequestStep
       DEF table, shared, worker
<1>5. CASE CancelJob(p)
  <2> DEFINE i == cjob[p].id
  <2>1. Tail(prog[p]) \in Seq(Steps) /\ i \in Ids
    BY <1>5, <1>a, ProgramFacts DEF CancelJob
  <2>2. /\ prog' \in [Procs -> Seq(Steps)] /\ cjob' \in [Procs -> Job]
        /\ op' \in [Procs -> AllOps \cup {"none", "ResumeQueued"}]
        /\ NamesJob'
    BY <1>5, <1>a, <1>b, <2>1, ContinueFacts DEF CancelJob
  <2>3. /\ UNCHANGED <<table, inFlight, requeues, sem, rerun, wpc, wid, wrec,
                       cref, todo, page>>
        /\ \/ UNCHANGED <<running, cancelled>>
           \/ /\ cancelled' = [cancelled EXCEPT ![running[i]] = TRUE]
              /\ running' = [running EXCEPT ![i] = NoRun]
    BY <1>5 DEF CancelJob
  <2>4. TypeOK'
    BY <1>a, <2>2, <2>3 DEF TypeOK, table
  <2>5. CancelReachesOwnPass'
    BY <1>a, <2>1, <2>3 DEF SafetyInv, CancelReachesOwnPass, Runs, TypeOK
  <2>6. Registered' /\ WorkerNeverInHistory' /\ SlotsAccountedFor'
    BY <2>3 DEF SafetyInv, Registered, WorkerNeverInHistory, SlotsAccountedFor, table
  <2> QED
    BY <2>2, <2>4, <2>5, <2>6 DEF SafetyInv
<1>6. CASE ClearRequeues(p)
  <2>1. Tail(prog[p]) \in Seq(Steps) /\ cjob[p].id \in Ids
    BY <1>6, <1>a, ProgramFacts DEF ClearRequeues
  <2>2. requeues' \in [Ids -> Nat]
    BY <1>6, <1>c DEF ClearRequeues
  <2> QED
    BY <1>6, <1>b, <1>c, <2>1, <2>2, RequestStep
       DEF ClearRequeues, table, worker
<1>7. CASE WriteRow(p)
  <2> DEFINE i == cjob[p].id
  <2>1. Tail(prog[p]) \in Seq(Steps) /\ i \in Ids
    BY <1>7, <1>a, ProgramFacts DEF WriteRow
  <2>2. NewStatus(p) \in Statuses \cup {"None"} /\ cjob[p].recover \in Nat
    BY <1>b DEF NewStatus, Job, Statuses, ActiveStatuses
  <2>3. \/ rows' = Update(rows, i, NewStatus(p), cjob[p].recover)
        \/ rows' = MoveToQueue(rows, i)
        \/ rows' = Delete(rows, i)
        \/ rows' = DeleteFromHistory(rows, i)
    BY <1>7 DEF WriteRow
  <2>4. rows' \in [Ids -> Row]
    <3>1. Update(rows, i, NewStatus(p), cjob[p].recover) \in [Ids -> Row]
      BY <1>b, <2>2, UpdateFacts
    <3> QED
      BY <1>b, <2>3, <3>1, StoreTypes
  <2>5. \A j \in Ids : InHistory(rows'[j]) => InHistory(rows[j])
    BY <1>b, <2>3, NoNewHistory, Zenon
  <2>6. /\ Continue(p, Tail(prog[p]), cjob[p])
        /\ UNCHANGED <<nextId, crashes, shared, worker, cref, todo, page>>
    BY <1>7 DEF WriteRow
  <2> QED
    BY <1>b, <1>c, <2>1, <2>4, <2>5, <2>6, RequestStep DEF shared, worker
<1>8. CASE ListPage(p)
  <2> DEFINE listed == {i \in List(rows, page[p], PageSize) :
                            rows[i].status \in LoopStatuses(op[p])}
             more == page[p] + PageSize < Cardinality(ActiveIds(rows))
  <2>1. Tail(prog[p]) \in Seq(Steps)
        /\ (cjob[p].id \in Ids \/ Tail(prog[p]) \in Anonymous)
    BY <1>8, <1>a, ProgramFacts DEF ListPage
  <2>2. {JobOf(i) : i \in listed} \subseteq {j \in Job : j.id \in Ids}
    BY <1>b, JobTypes DEF List, ActiveIds
  <2>3. todo' \in [Procs -> SUBSET {j \in Job : j.id \in Ids}]
    BY <1>8, <1>c, <2>2 DEF ListPage
  <2>4. page' \in [Procs -> Nat]
    <3>1. page[p] + PageSize \in Nat
      BY <1>c, LifecycleAssumption
    <3>2. page' = [page EXCEPT ![p] = IF more THEN page[p] + PageSize ELSE 0]
      BY <1>8 DEF ListPage
    <3> QED
      BY <1>c, <3>1, <3>2
  <2>5. \/ Continue(p, Tail(prog[p]), cjob[p])
        \/ Continue(p, prog[p], cjob[p])
    BY <1>8 DEF ListPage
  <2>6. cjob[p].id \in Ids \/ prog[p] \in Anonymous
    BY <1>a DEF NamesJob
  <2>7. UNCHANGED <<table, shared, worker, cref>>
    BY <1>8 DEF ListPage
  <2> QED
    BY <1>b, <1>c, <2>1, <2>3, <2>4, <2>5, <2>6, <2>7, RequestStep
       DEF table, shared, worker
<1>9. CASE Each(p)
  <2>1. ASSUME NEW j \in todo[p],
               todo' = [todo EXCEPT ![p] = @ \ {j}],
               Continue(p, LoopBody(op[p]) \o <<"each">>, j)
        PROVE  SafetyInv'
    <3>1. j \in Job /\ j.id \in Ids
      BY <1>c
    <3>2. LoopBody(op[p]) \o <<"each">> \in Seq(Steps)
      BY Programs
    <3>3. todo' \in [Procs -> SUBSET {k \in Job : k.id \in Ids}]
      BY <1>c, <2>1
    <3> QED
      BY <1>9, <1>b, <1>c, <2>1, <3>1, <3>2, <3>3, RequestStep
         DEF Each, table, shared, worker
  <2>2. ASSUME todo' = todo,
               Continue(p, IF page[p] = 0 THEN <<>> ELSE <<"listPage", "each">>, NoJob)
        PROVE  SafetyInv'
    <3> DEFINE rest == IF page[p] = 0 THEN <<>> ELSE <<"listPage", "each">>
    <3>1. rest \in Seq(Steps) /\ rest \in Anonymous
      BY Programs, Zenon DEF Anonymous
    <3> QED
      BY <1>9, <1>b, <1>c, <2>2, <3>1, RequestStep DEF Each, table, shared, worker
  <2> QED
    BY <1>9, <2>1, <2>2 DEF Each
<1>10. CASE dispatchNzoID(p)
  <2> DEFINE i == cjob[p].id
  <2>1. Tail(prog[p]) \in Seq(Steps) /\ i \in Ids
    BY <1>10, <1>a, ProgramFacts DEF dispatchNzoID
  <2>2. ASSUME inFlight[i] = NoRun, StartWorker(i),
               Continue(p, Tail(prog[p]), cjob[p]), cref' = cref
        PROVE  SafetyInv'
    <3>1. UNCHANGED <<table, running, requeues, sem, cancelled, wrec, todo, page>>
      BY <1>10 DEF dispatchNzoID
    <3>2. PICK w \in Workers :
            /\ Fresh(w)
            /\ inFlight' = [inFlight EXCEPT ![i] = w]
            /\ rerun' = [rerun EXCEPT ![w] = FALSE]
            /\ wpc' = [wpc EXCEPT ![w] = "load"]
            /\ wid' = [wid EXCEPT ![w] = i]
      BY <2>2 DEF StartWorker
    <3>3. wpc[w] = "idle"
      BY <3>2 DEF Fresh
    <3>4. /\ prog' \in [Procs -> Seq(Steps)] /\ cjob' \in [Procs -> Job]
          /\ op' \in [Procs -> AllOps \cup {"none", "ResumeQueued"}]
          /\ NamesJob'
      BY <1>a, <1>b, <2>1, <2>2, ContinueFacts
    <3>5. TypeOK'
      <4>1. wpc' \in [Workers -> PCs]
        BY <1>a, <3>2 DEF TypeOK, PCs
      <4>2. wid' \in [Workers -> 0..MaxJobs]
        BY <1>a, <2>1, <3>2, JobTypes DEF TypeOK
      <4> QED
        BY <1>a, <2>1, <2>2, <3>1, <3>2, <3>4, <4>1, <4>2 DEF TypeOK, table
    <3>6. Registered'
      BY <1>a, <2>1, <2>2, <3>2, LifecycleAssumption DEF SafetyInv, Registered, TypeOK
    <3>7. WorkerNeverInHistory'
      BY <1>a, <3>1, <3>2 DEF SafetyInv, WorkerNeverInHistory, OwningPCs, TypeOK, table
    <3>8. SlotsAccountedFor'
      BY <1>a, <3>1, <3>2, <3>3, HolderCount
         DEF SafetyInv, SlotsAccountedFor, Holders, SlotPCs, PCs, TypeOK
    <3>9. CancelReachesOwnPass'
      BY <1>a, <3>1, <3>2, <3>3 DEF SafetyInv, CancelReachesOwnPass, Runs, TypeOK
    <3> QED
      BY <3>4, <3>5, <3>6, <3>7, <3>8, <3>9 DEF SafetyInv
  <2>3. ASSUME cref' = [cref EXCEPT ![p] = inFlight[i]],
               Continue(p, <<"ask">> \o Tail(prog[p]), cjob[p]),
               UNCHANGED <<inFlight, rerun, wpc, wid>>
        PROVE  SafetyInv'
    <3>1. <<"ask">> \o Tail(prog[p]) \in Seq(Steps)
      BY <2>1, Programs
    <3>2. cref' \in [Procs -> Workers \cup {NoRun}]
      BY <1>a, <2>1, <2>3 DEF TypeOK
    <3>3. UNCHANGED <<table, running, requeues, sem, cancelled, wrec, todo, page>>
      BY <1>10 DEF dispatchNzoID
    <3> QED
      BY <1>b, <1>c, <2>1, <2>3, <3>1, <3>2, <3>3, RequestStep DEF table
  <2> QED
    BY <1>10, <2>2, <2>3 DEF dispatchNzoID
<1>11. CASE askAgain(p)
  <2>1. Tail(prog[p]) \in Seq(Steps) /\ cjob[p].id \in Ids
    BY <1>11, <1>a, ProgramFacts DEF askAgain
  <2>2. /\ rerun' \in [Workers -> BOOLEAN]
        /\ cref' \in [Procs -> Workers \cup {NoRun}]
    BY <1>11, <1>c DEF askAgain
  <2>3. /\ Continue(p, Tail(prog[p]), cjob[p])
        /\ UNCHANGED <<table, shared, cancelled, wpc, wid, wrec, todo, page>>
    BY <1>11 DEF askAgain
  <2> QED
    BY <1>b, <1>c, <2>1, <2>2, <2>3, RequestStep DEF table, shared
<1> QED
  BY <1>1, <1>2, <1>3, <1>4, <1>5, <1>6, <1>7, <1>8, <1>9, <1>10, <1>11
     DEF Handle

-----------------------------------------------------------------------------

(* Where a worker's cancel func may be registered.                          *)
CancelPCs == OwningPCs \cup {"redispatch", "release", "unregister"}

(* A worker that moves within its pass, with h.running as it was, keeps     *)
(* CancelReachesOwnPass.                                                    *)
LEMMA CancelKept ==
    ASSUME SafetyInv, NEW w \in Workers, NEW to \in PCs \ {"idle"},
           wpc' = [wpc EXCEPT ![w] = to], UNCHANGED <<running, wid>>,
           wpc[w] \in CancelPCs => to \in CancelPCs
    PROVE  CancelReachesOwnPass'
BY DEF SafetyInv, TypeOK, CancelReachesOwnPass, Runs, CancelPCs

(* A worker that moves and goes on living keeps the invariant, provided the *)
(* row it may still write to is not put into history, nobody else's row is, *)
(* and the slot count follows its move.                                     *)
LEMMA PassStep ==
    ASSUME SafetyInv, NEW w \in Workers, NEW to \in PCs \ {"idle"},
           wpc[w] # "idle", wpc' = [wpc EXCEPT ![w] = to],
           UNCHANGED <<nextId, crashes, inFlight, wid, request>>,
           rows' \in [Ids -> Row],
           \A i \in Ids : i # wid[w] /\ InHistory(rows'[i]) => InHistory(rows[i]),
           to \in OwningPCs => ~InHistory(rows'[wid[w]]),
           running' \in [Ids -> Workers \cup {NoRun}],
           CancelReachesOwnPass',
           requeues' \in [Ids -> Nat],
           rerun' \in [Workers -> BOOLEAN],
           cancelled' \in [Workers -> BOOLEAN],
           wrec' \in [Workers -> Nat],
           \/ sem' = sem /\ (wpc[w] \in SlotPCs <=> to \in SlotPCs)
           \/ sem < MaxConcurrent /\ sem' = sem + 1
              /\ wpc[w] \notin SlotPCs /\ to \in SlotPCs
           \/ sem' = sem - 1 /\ wpc[w] \in SlotPCs /\ to \notin SlotPCs
    PROVE  SafetyInv'
<1>a. TypeOK /\ wpc \in [Workers -> PCs] /\ sem \in 0..MaxConcurrent
  BY DEF SafetyInv, TypeOK
<1>b. MaxConcurrent \in Nat
  BY LifecycleAssumption
<1>1. sem = Cardinality(Holders(wpc))
  BY DEF SafetyInv, SlotsAccountedFor, Holders
<1>2. sem' = Cardinality(Holders(wpc')) /\ sem' \in 0..MaxConcurrent
  <2>1. CASE sem' = sem /\ (wpc[w] \in SlotPCs <=> to \in SlotPCs)
    BY <1>a, <1>1, <2>1, HolderCount
  <2>2. CASE sem < MaxConcurrent /\ sem' = sem + 1
             /\ wpc[w] \notin SlotPCs /\ to \in SlotPCs
    <3>1. Cardinality(Holders(wpc')) = Cardinality(Holders(wpc)) + 1
      BY <1>a, <2>2, HolderCount
    <3>2. sem' = Cardinality(Holders(wpc'))
      BY <1>1, <2>2, <3>1
    <3>3. sem' \in 0..MaxConcurrent
      BY <1>a, <1>b, <2>2
    <3> QED
      BY <3>2, <3>3
  <2>3. CASE sem' = sem - 1 /\ wpc[w] \in SlotPCs /\ to \notin SlotPCs
    <3>1. /\ Cardinality(Holders(wpc')) = Cardinality(Holders(wpc)) - 1
          /\ Cardinality(Holders(wpc)) > 0
      BY <1>a, <2>3, HolderCount
    <3>2. sem' = Cardinality(Holders(wpc')) /\ sem > 0
      BY <1>1, <2>3, <3>1
    <3>3. sem' \in 0..MaxConcurrent
      BY <1>a, <1>b, <2>3, <3>2
    <3> QED
      BY <3>2, <3>3
  <2> QED
    BY <2>1, <2>2, <2>3
<1>3. SlotsAccountedFor'
  BY <1>2 DEF SlotsAccountedFor, Holders
<1>4. TypeOK'
  BY <1>a, <1>2 DEF TypeOK, request
<1>5. NamesJob' /\ Registered'
  BY <1>a DEF SafetyInv, NamesJob, Registered, TypeOK, request
<1>6. WorkerNeverInHistory'
  <2> SUFFICES ASSUME NEW v \in Workers, wpc'[v] \in OwningPCs
               PROVE  ~InHistory(rows'[wid[v]])
    BY DEF WorkerNeverInHistory
  <2>1. CASE v = w
    BY <1>a, <2>1
  <2>2. CASE v # w
    <3>1. wpc[v] \in OwningPCs /\ wpc[v] # "idle"
      BY <1>a, <2>2 DEF OwningPCs
    <3>2. wid[v] \in Ids /\ wid[v] # wid[w] /\ ~InHistory(rows[wid[v]])
      BY <2>2, <3>1 DEF SafetyInv, Registered, WorkerNeverInHistory
    <3> QED
      BY <3>2
  <2> QED
    BY <2>1, <2>2
<1> QED
  BY <1>3, <1>4, <1>5, <1>6 DEF SafetyInv

(* The steps of a worker that leave the table alone and only move it, take  *)
(* or give back a slot, or (un)register its cancel func.                    *)
LEMMA PassSafe ==
    ASSUME SafetyInv, NEW w \in Workers,
           \/ Load(w) \/ Register(w) \/ CheckCancelled(w) \/ TakeSlot(w)
           \/ LeaveSelect(w) \/ GiveSlotBack(w) \/ Redispatch(w) \/ ReleaseSlot(w)
           \/ Unregister(w) \/ takeRerun(w)
    PROVE  SafetyInv'
<1>a. /\ TypeOK /\ rows \in [Ids -> Row]
      /\ running \in [Ids -> Workers \cup {NoRun}]
      /\ requeues \in [Ids -> Nat]
      /\ rerun \in [Workers -> BOOLEAN] /\ cancelled \in [Workers -> BOOLEAN]
      /\ wpc \in [Workers -> PCs] /\ wrec \in [Workers -> Nat]
  BY DEF SafetyInv, TypeOK
<1>b. wpc[w] # "idle" => wid[w] \in Ids
  BY DEF SafetyInv, Registered
<1>c. wpc[w] \in OwningPCs => ~InHistory(rows[wid[w]])
  BY DEF SafetyInv, WorkerNeverInHistory
<1>1. CASE Load(w)
  <2>1. CASE Active(rows[wid[w]])
    <3>1. CancelReachesOwnPass'
      BY <1>1, <1>a, <2>1, CancelKept
         DEF Load, Goto, shared, CancelPCs, OwningPCs, PCs
    <3>2. wrec' \in [Workers -> Nat]
      <4>1. rows[wid[w]].recover \in Nat
        BY <1>1, <1>a, <1>b DEF Load, Row
      <4> QED
        BY <1>1, <1>a, <2>1, <4>1 DEF Load
    <3>3. ~InHistory(rows[wid[w]])
      BY <2>1 DEF Active, InHistory
    <3> QED
      BY <1>1, <1>a, <2>1, <3>1, <3>2, <3>3, PassStep
         DEF Load, Goto, table, shared, SlotPCs, PCs
  <2>2. CASE ~Active(rows[wid[w]])
    <3>1. CancelReachesOwnPass'
      BY <1>1, <1>a, <2>2, CancelKept
         DEF Load, Goto, shared, CancelPCs, OwningPCs, PCs
    <3> QED
      BY <1>1, <1>a, <2>2, <3>1, PassStep
         DEF Load, Goto, table, shared, OwningPCs, SlotPCs, PCs
  <2> QED
    BY <2>1, <2>2
<1>2. CASE Register(w)
  <2>1. CancelReachesOwnPass'
    BY <1>2, <1>a, <1>b
       DEF Register, Goto, SafetyInv, CancelReachesOwnPass, Runs, OwningPCs, table
  <2> QED
    BY <1>2, <1>a, <1>b, <1>c, <2>1, PassStep
       DEF Register, Goto, table, OwningPCs, SlotPCs, PCs
<1>3. CASE CheckCancelled(w)
  <2>1. CancelReachesOwnPass'
    BY <1>3, <1>a, CancelKept
       DEF CheckCancelled, Goto, shared, CancelPCs, OwningPCs, PCs
  <2> QED
    BY <1>3, <1>a, <1>b, <1>c, <2>1, PassStep
       DEF CheckCancelled, Goto, table, shared, OwningPCs, SlotPCs, PCs
<1>4. CASE TakeSlot(w)
  <2>1. CancelReachesOwnPass'
    BY <1>4, <1>a, CancelKept
       DEF TakeSlot, Goto, shared, CancelPCs, OwningPCs, PCs
  <2> QED
    BY <1>4, <1>a, <1>b, <1>c, <2>1, PassStep
       DEF TakeSlot, Goto, table, shared, OwningPCs, SlotPCs, PCs
<1>5. CASE LeaveSelect(w)
  <2>1. CancelReachesOwnPass'
    BY <1>5, <1>a, CancelKept
       DEF LeaveSelect, Goto, shared, CancelPCs, OwningPCs, PCs
  <2> QED
    BY <1>5, <1>a, <1>b, <1>c, <2>1, PassStep
       DEF LeaveSelect, Goto, table, shared, OwningPCs, SlotPCs, PCs
<1>6. CASE GiveSlotBack(w)
  <2>1. CancelReachesOwnPass'
    BY <1>6, <1>a, CancelKept
       DEF GiveSlotBack, Goto, shared, CancelPCs, OwningPCs, PCs
  <2> QED
    BY <1>6, <1>a, <1>b, <1>c, <2>1, PassStep
       DEF GiveSlotBack, Goto, table, shared, OwningPCs, SlotPCs, PCs
<1>7. CASE Redispatch(w)
  <2>1. CancelReachesOwnPass'
    BY <1>7, <1>a, CancelKept
       DEF Redispatch, Goto, shared, CancelPCs, OwningPCs, PCs
  <2> QED
    BY <1>7, <1>a, <1>b, <1>c, <2>1, PassStep
       DEF Redispatch, Goto, table, shared, OwningPCs, SlotPCs, PCs
<1>8. CASE ReleaseSlot(w)
  <2>1. CancelReachesOwnPass'
    BY <1>8, <1>a, CancelKept
       DEF ReleaseSlot, Goto, shared, CancelPCs, OwningPCs, PCs
  <2> QED
    BY <1>8, <1>a, <1>b, <1>c, <2>1, PassStep
       DEF ReleaseSlot, Goto, table, shared, OwningPCs, SlotPCs, PCs
<1>9. CASE Unregister(w)
  <2>1. CancelReachesOwnPass'
    BY <1>9, <1>a, <1>b, LifecycleAssumption
       DEF Unregister, Goto, SafetyInv, CancelReachesOwnPass, Runs
  <2> QED
    BY <1>9, <1>a, <1>b, <2>1, PassStep
       DEF Unregister, Goto, table, OwningPCs, SlotPCs, PCs
<1>10. CASE takeRerun(w)
  <2>1. CancelReachesOwnPass'
    BY <1>10, <1>a, CancelKept
       DEF takeRerun, Goto, shared, CancelPCs, OwningPCs, PCs
  <2> QED
    BY <1>10, <1>a, <1>b, <1>c, <2>1, PassStep
       DEF takeRerun, Goto, table, shared, OwningPCs, SlotPCs, PCs
<1> QED
  BY <1>1, <1>2, <1>3, <1>4, <1>5, <1>6, <1>7, <1>8, <1>9, <1>10

(* The steps of a worker that write its row.                                *)
LEMMA WriteSafe ==
    ASSUME SafetyInv, NEW w \in Workers,
           \/ beginDownload(w) \/ handleProgressEvent(w) \/ handleCompleteEvent(w)
           \/ failJob(w) \/ requeue(w) \/ Archive(w)
    PROVE  SafetyInv'
<1>a. /\ TypeOK /\ rows \in [Ids -> Row]
      /\ running \in [Ids -> Workers \cup {NoRun}]
      /\ requeues \in [Ids -> Nat]
      /\ rerun \in [Workers -> BOOLEAN] /\ cancelled \in [Workers -> BOOLEAN]
      /\ wpc \in [Workers -> PCs] /\ wrec \in [Workers -> Nat]
  BY DEF SafetyInv, TypeOK
<1>b. wpc[w] # "idle" => wid[w] \in Ids
  BY DEF SafetyInv, Registered
<1>c. wpc[w] \in OwningPCs => ~InHistory(rows[wid[w]])
  BY DEF SafetyInv, WorkerNeverInHistory
<1>d. ASSUME NEW status \in {"Downloading", "Completed", "Failed", "Queued"},
             WriteStatus(w, status)
      PROVE  /\ rows' \in [Ids -> Row]
             /\ \A i \in Ids : InHistory(rows'[i]) => InHistory(rows[i])
  <2>1. rows' = Update(rows, wid[w], status, wrec[w]) /\ wrec[w] \in Nat
    BY <1>a, <1>d DEF WriteStatus
  <2>2. status \in Statuses \cup {"None"}
    BY <1>d DEF Statuses, ActiveStatuses, TerminalStatuses
  <2> QED
    BY <1>a, <2>1, <2>2, UpdateFacts, NoNewHistory
<1>1. CASE beginDownload(w)
  <2>1. CancelReachesOwnPass'
    BY <1>1, <1>a, CancelKept
       DEF beginDownload, Goto, shared, CancelPCs, OwningPCs, PCs
  <2>2. /\ rows' \in [Ids -> Row]
        /\ \A i \in Ids : InHistory(rows'[i]) => InHistory(rows[i])
    BY <1>1, <1>d DEF beginDownload
  <2> QED
    BY <1>1, <1>a, <1>b, <1>c, <2>1, <2>2, PassStep
       DEF beginDownload, Goto, shared, OwningPCs, SlotPCs, PCs
<1>2. CASE handleProgressEvent(w)
  <2>1. /\ wpc[w] = "run" /\ wpc' = [wpc EXCEPT ![w] = "run"]
        /\ UNCHANGED <<nextId, crashes, shared, worker, request>>
    BY <1>2, <1>a DEF handleProgressEvent, worker
  <2>2. CancelReachesOwnPass'
    BY <1>a, <2>1, CancelKept
       DEF shared, worker, CancelPCs, OwningPCs, PCs
  <2>3. /\ rows' \in [Ids -> Row]
        /\ \A i \in Ids : InHistory(rows'[i]) => InHistory(rows[i])
    BY <1>2, <1>d DEF handleProgressEvent
  <2> QED
    BY <1>a, <1>b, <1>c, <2>1, <2>2, <2>3, PassStep
       DEF shared, worker, OwningPCs, SlotPCs, PCs
<1>3. CASE handleCompleteEvent(w)
  <2>1. CancelReachesOwnPass'
    BY <1>3, <1>a, CancelKept
       DEF handleCompleteEvent, Goto, CancelPCs, OwningPCs, PCs
  <2>2. /\ rows' \in [Ids -> Row]
        /\ \A i \in Ids : InHistory(rows'[i]) => InHistory(rows[i])
    BY <1>3, <1>d DEF handleCompleteEvent
  <2>3. requeues' \in [Ids -> Nat]
    BY <1>3, <1>a DEF handleCompleteEvent
  <2> QED
    BY <1>3, <1>a, <1>b, <1>c, <2>1, <2>2, <2>3, PassStep
       DEF handleCompleteEvent, Goto, OwningPCs, SlotPCs, PCs
<1>4. CASE failJob(w)
  <2>1. CancelReachesOwnPass'
    BY <1>4, <1>a, CancelKept
       DEF failJob, Goto, CancelPCs, OwningPCs, PCs
  <2>2. /\ rows' \in [Ids -> Row]
        /\ \A i \in Ids : InHistory(rows'[i]) => InHistory(rows[i])
    BY <1>4, <1>d DEF failJob
  <2>3. requeues' \in [Ids -> Nat]
    BY <1>4, <1>a DEF failJob
  <2> QED
    BY <1>4, <1>a, <1>b, <1>c, <2>1, <2>2, <2>3, PassStep
       DEF failJob, Goto, OwningPCs, SlotPCs, PCs
<1>5. CASE requeue(w)
  <2>1. CancelReachesOwnPass'
    BY <1>5, <1>a, CancelKept
       DEF requeue, Goto, CancelPCs, OwningPCs, PCs
  <2>2. /\ rows' \in [Ids -> Row]
        /\ \A i \in Ids : InHistory(rows'[i]) => InHistory(rows[i])
    BY <1>5, <1>d DEF requeue
  <2>3. requeues' \in [Ids -> Nat]
    <3>1. wid[w] \in Ids /\ requeues[wid[w]] + 1 \in Nat
      BY <1>5, <1>a, <1>b DEF requeue, Goto
    <3> QED
      BY <1>5, <1>a, <3>1 DEF requeue
  <2> QED
    BY <1>5, <1>a, <2>1, <2>2, <2>3, PassStep
       DEF requeue, Goto, OwningPCs, SlotPCs, PCs
<1>6. CASE Archive(w)
  <2>1. CancelReachesOwnPass'
    BY <1>6, <1>a, CancelKept
       DEF Archive, Goto, shared, CancelPCs, OwningPCs, PCs
  <2>2. rows' = MoveToHistory(rows, wid[w])
    BY <1>6 DEF Archive
  <2>3. rows' \in [Ids -> Row]
    BY <1>a, <2>2, StoreTypes
  <2>4. \A i \in Ids : i # wid[w] => rows'[i] = rows[i]
    BY <1>a, <2>2, MoveToHistoryFacts
  <2> QED
    BY <1>6, <1>a, <2>1, <2>3, <2>4, PassStep
       DEF Archive, Goto, shared, OwningPCs, SlotPCs, PCs
<1> QED
  BY <1>1, <1>2, <1>3, <1>4, <1>5, <1>6

(* A worker that retires takes its own registry entry with it and leaves    *)
(* those of the others.                                                     *)
LEMMA RetireSafe ==
    ASSUME SafetyInv, NEW w \in Workers, retireJob(w)
    PROVE  SafetyInv'
<1>a. /\ TypeOK /\ wpc \in [Workers -> PCs] /\ rows \in [Ids -> Row]
      /\ wpc[w] \in {"retire", "quit"}
      /\ UNCHANGED <<table, running, requeues, sem, cancelled, request>>
  BY DEF SafetyInv, TypeOK, retireJob
<1>b. \A i \in Ids : running[i] # w
  BY <1>a, LifecycleAssumption DEF SafetyInv, CancelReachesOwnPass, OwningPCs
<1>1. CASE rerun[w] /\ wpc[w] = "retire"
  <2>1. /\ wpc' = [wpc EXCEPT ![w] = "load"]
        /\ rerun' = [rerun EXCEPT ![w] = FALSE]
        /\ UNCHANGED <<inFlight, wid, wrec>>
    BY <1>1 DEF retireJob, Goto
  <2>2. CancelReachesOwnPass'
    BY <1>a, <1>1, <2>1, CancelKept DEF CancelPCs, OwningPCs, PCs
  <2> QED
    BY <1>a, <1>1, <2>1, <2>2, PassStep
       DEF table, OwningPCs, SlotPCs, PCs, TypeOK
<1>2. CASE ~(rerun[w] /\ wpc[w] = "retire")
  <2>1. /\ Exit(w)
        /\ rerun' \in [Workers -> BOOLEAN]
        /\ inFlight' \in [Ids -> Workers \cup {NoRun}]
        /\ \A i \in Ids : inFlight[i] # w => inFlight'[i] = inFlight[i]
    BY <1>a, <1>2 DEF retireJob, TypeOK
  <2>2. TypeOK'
    <3>1. wpc' \in [Workers -> PCs]
      BY <1>a, <2>1 DEF Exit, PCs
    <3>2. wid' \in [Workers -> 0..MaxJobs] /\ wrec' \in [Workers -> Nat]
      <4>1. NoJob \in Job => 0 \in 0..MaxJobs
        BY DEF NoJob, Job
      <4> QED
        BY <1>a, <2>1, <4>1, JobTypes DEF Exit, TypeOK
    <3> QED
      BY <1>a, <2>1, <3>1, <3>2 DEF TypeOK, table, request
  <2>3. NamesJob' /\ Registered'
    BY <1>a, <2>1 DEF SafetyInv, NamesJob, Registered, Exit, TypeOK, request
  <2>4. WorkerNeverInHistory'
    BY <1>a, <2>1 DEF SafetyInv, WorkerNeverInHistory, OwningPCs, Exit, TypeOK, table
  <2>5. SlotsAccountedFor'
    BY <1>a, <2>1, HolderCount
       DEF SafetyInv, SlotsAccountedFor, Holders, SlotPCs, PCs, Exit
  <2>6. CancelReachesOwnPass'
    BY <1>a, <1>b, <2>1 DEF SafetyInv, CancelReachesOwnPass, Runs, Exit, TypeOK
  <2> QED
    BY <2>2, <2>3, <2>4, <2>5, <2>6 DEF SafetyInv
<1> QED
  BY <1>1, <1>2

(* A request arrives with the nzo_id its handler needs.                     *)
LEMMA RequestSafe ==
    ASSUME SafetyInv, NEW c \in Clients, Request(c)
    PROVE  SafetyInv'
<1>a. TypeOK /\ NamesJob /\ c \in Procs
  BY DEF SafetyInv, Procs
<1>b. UNCHANGED <<table, shared, worker, cref, todo, page>>
  BY DEF Request
<1>1. PICK o \in Ops :
        /\ prog' = [prog EXCEPT ![c] = dispatch(o)]
        /\ op' = [op EXCEPT ![c] = o]
        /\ \/ /\ o = "AddURL"
              /\ \E u \in Urls : cjob' = [cjob EXCEPT ![c].url = u]
           \/ /\ o \in {"PauseAll", "ResumeAll"}
              /\ cjob' = cjob
           \/ \E i \in Ids : cjob' = [cjob EXCEPT ![c].id = i]
  BY DEF Request
<1>2. prog' \in [Procs -> Seq(Steps)]
  BY <1>a, <1>1, Programs DEF TypeOK
<1>3. op' \in [Procs -> AllOps \cup {"none", "ResumeQueued"}]
  BY <1>a, <1>1, LifecycleAssumption DEF TypeOK
<1>4. cjob' \in [Procs -> Job]
  <2>1. cjob \in [Procs -> Job]
    BY <1>a DEF TypeOK
  <2>2. \A u \in Urls : [cjob EXCEPT ![c].url = u] \in [Procs -> Job]
    BY <2>1 DEF Job
  <2>3. \A i \in Ids : [cjob EXCEPT ![c].id = i] \in [Procs -> Job]
    <3>1. \A i \in Ids : i \in 0..MaxJobs
      BY JobTypes
    <3> QED
      BY <2>1, <3>1 DEF Job
  <2> QED
    BY <1>1, <2>1, <2>2, <2>3
<1>5. TypeOK'
  BY <1>a, <1>b, <1>2, <1>3, <1>4 DEF TypeOK, table, shared, worker
<1>6. NamesJob'
  <2>1. \A p \in Procs : p # c => prog'[p] = prog[p] /\ cjob'[p] = cjob[p]
    BY <1>a, <1>1 DEF TypeOK
  <2>2. prog'[c] = dispatch(o)
    BY <1>a, <1>1 DEF TypeOK
  <2>3. CASE o \in {"AddURL", "PauseAll", "ResumeAll"}
    <3>1. dispatch(o) \in Anonymous
      BY <2>3 DEF dispatch, handleAddURL, handlePauseAll, handleResumeAll, Anonymous
    <3> QED
      BY <1>a, <2>1, <2>2, <3>1 DEF NamesJob
  <2>4. CASE \E i \in Ids : cjob' = [cjob EXCEPT ![c].id = i]
    <3>1. cjob'[c].id \in Ids
      <4>1. PICK i \in Ids : cjob' = [cjob EXCEPT ![c].id = i]
        BY <2>4
      <4>2. cjob \in [Procs -> Job]
        BY <1>a DEF TypeOK
      <4>3. cjob'[c].id = i
        BY <1>a, <4>1, <4>2 DEF Job
      <4> QED
        BY <4>3
    <3> QED
      BY <1>a, <2>1, <3>1 DEF NamesJob
  <2> QED
    BY <1>1, <2>3, <2>4
<1> QED
  BY <1>b, <1>5, <1>6, WorkersUntouched DEF SafetyInv, table, shared, worker

(* A restarted process has no workers, no slots in use and an empty         *)
(* registry; so has the first one.                                          *)
LEMMA RestartSafe ==
    ASSUME SafetyInv, Restart
    PROVE  SafetyInv'
<1>1. TypeOK'
  <2>1. NoJob \in Job /\ <<>> \in Seq(Steps) /\ ResumeQueuedJobs \in Seq(Steps)
    BY JobTypes, Programs DEF ResumeQueuedJobs
  <2>2. rows' \in [Ids -> Row]
    BY StoreTypes DEF Restart, SafetyInv, TypeOK
  <2>3. 0 \in 0..MaxJobs /\ 0 \in 0..MaxConcurrent
    <3>1. NoJob \in Job => 0 \in 0..MaxJobs
      BY DEF NoJob, Job
    <3> QED
      BY <3>1, JobTypes, LifecycleAssumption
  <2>4. nextId' \in 1..(MaxJobs + 1) /\ crashes' \in Nat
    BY DEF Restart, SafetyInv, TypeOK
  <2> QED
    BY <2>1, <2>2, <2>3, <2>4 DEF Restart, TypeOK, PCs
<1>2. NamesJob'
  BY DEF Restart, NamesJob, Anonymous, ResumeQueuedJobs
<1>3. Registered' /\ WorkerNeverInHistory' /\ CancelReachesOwnPass'
  BY DEF Restart, Registered, WorkerNeverInHistory, CancelReachesOwnPass, OwningPCs
<1>4. SlotsAccountedFor'
  <2>1. Holders(wpc') = {}
    BY DEF Restart, Holders, SlotPCs
  <2> QED
    BY <2>1, FS_EmptySet DEF Restart, SlotsAccountedFor, Holders
<1> QED
  BY <1>1, <1>2, <1>3, <1>4 DEF SafetyInv

(* A process that starts with an empty table satisfies the invariant.       *)
LEMMA InitSafe == Init => SafetyInv
<1> SUFFICES ASSUME Init PROVE SafetyInv
  OBVIOUS
<1>1. TypeOK
  <2>1. NoJob \in Job /\ <<>> \in Seq(Steps)
    BY JobTypes, Programs
  <2>2. NoRow \in Row
    BY DEF NoRow, Row
  <2>3. 0 \in 0..MaxJobs /\ 0 \in 0..MaxConcurrent /\ 1 \in 1..(MaxJobs + 1)
    <3>1. MaxJobs \in Nat \ {0}
      BY StoreAssumption
    <3> QED
      BY <3>1, LifecycleAssumption
  <2> QED
    BY <2>1, <2>2, <2>3 DEF Init, TypeOK, PCs
<1>2. NamesJob
  BY DEF Init, NamesJob, Anonymous
<1>3. Registered /\ WorkerNeverInHistory /\ CancelReachesOwnPass
  BY DEF Init, Registered, WorkerNeverInHistory, CancelReachesOwnPass, OwningPCs
<1>4. SlotsAccountedFor
  <2>1. Holders(wpc) = {}
    BY DEF Init, Holders, SlotPCs
  <2> QED
    BY <2>1, FS_EmptySet DEF Init, SlotsAccountedFor, Holders
<1> QED
  BY <1>1, <1>2, <1>3, <1>4 DEF SafetyInv

-----------------------------------------------------------------------------

(* The invariant is inductive: every API step, every worker step and every  *)
(* restart keeps it.                                                        *)
THEOREM SafetyInvariant == Spec => []SafetyInv
<1>1. SafetyInv /\ [Next]_vars => SafetyInv'
  <2> SUFFICES ASSUME SafetyInv, [Next]_vars PROVE SafetyInv'
    OBVIOUS
  <2>1. ASSUME NEW c \in Clients, Request(c) PROVE SafetyInv'
    BY <2>1, RequestSafe
  <2>2. ASSUME NEW p \in Procs, Handle(p) PROVE SafetyInv'
    BY <2>2, HandleSafe
  <2>3. ASSUME NEW w \in Workers,
               RunJob(w) \/ GiveSlotBack(w) \/ handleProgressEvent(w)
        PROVE  SafetyInv'
    BY <2>3, PassSafe, WriteSafe, RetireSafe DEF RunJob, Conclude
  <2>4. CASE Restart
    BY <2>4, RestartSafe
  <2>5. CASE UNCHANGED vars
    <3>1. TypeOK'
      BY <2>5 DEF SafetyInv, TypeOK, vars, table, shared, worker, request
    <3>2. NamesJob'
      BY <2>5 DEF SafetyInv, NamesJob, vars, request
    <3>3. Registered' /\ WorkerNeverInHistory' /\ SlotsAccountedFor' /\ CancelReachesOwnPass'
      BY <2>5, WorkersUntouched DEF vars, table, shared, worker
    <3> QED
      BY <3>1, <3>2, <3>3 DEF SafetyInv
  <2> QED
    BY <2>1, <2>2, <2>3, <2>4, <2>5 DEF Next
<1> QED
  BY <1>1, InitSafe, PTL DEF Spec

(* Every variable keeps its type: in particular h.sem never holds fewer     *)
(* than zero nor more than its capacity.                                    *)
THEOREM TypeCorrect == Spec => []TypeOK
<1>1. SafetyInv => TypeOK
  BY DEF SafetyInv
<1> QED
  BY <1>1, SafetyInvariant, PTL

(* dispatchJob's promise, for any number of jobs, requests and restarts:    *)
(* a job never has two workers.                                             *)
THEOREM OneWorkerPerJob == Spec => []AtMostOneWorker
<1>1. SafetyInv => AtMostOneWorker
  BY DEF SafetyInv, Registered, AtMostOneWorker, Runs
<1> QED
  BY <1>1, SafetyInvariant, PTL

(* No worker that may still write a row finds that row in history.          *)
THEOREM NoWriteToHistory == Spec => []WorkerNeverInHistory
<1>1. SafetyInv => WorkerNeverInHistory
  BY DEF SafetyInv
<1> QED
  BY <1>1, SafetyInvariant, PTL

(* processDownload neither leaks a slot of h.sem nor releases one twice.    *)
THEOREM NoSlotLeak == Spec => []SlotsAccountedFor
<1>1. SafetyInv => SlotsAccountedFor
  BY DEF SafetyInv
<1> QED
  BY <1>1, SafetyInvariant, PTL

(* A registered cancel func belongs to the pass that is running that job.   *)
THEOREM CancelIsOwn == Spec => []CancelReachesOwnPass
<1>1. SafetyInv => CancelReachesOwnPass
  BY DEF SafetyInv
<1> QED
  BY <1>1, SafetyInvariant, PTL
=============================================================================
