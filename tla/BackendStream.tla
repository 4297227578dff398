---------------------------- MODULE BackendStream ----------------------------
(***************************************************************************)
(* The attempts of one job against its backends: the subprocess and its    *)
(* pipe (backend_wait.go), the parser and its channels (progress.go), the  *)
(* Python-then-CLI cascade of Download (client.go) and the handler's loops *)
(* that consume it (attemptDownload, runAttemptsWithRetry).                *)
(*                                                                         *)
(* A stream is one call of streamBackend: stream a > 0 is the CLI run of   *)
(* attempt a, stream -a its Python phase, if it has one.  The handler does *)
(* not wait for the streams of a failed attempt before it starts the next, *)
(* and all of them share one entry of Client.activeCmds, that of the job's *)
(* directory.  Grace periods are not counted: one ends only when the       *)
(* parser it waits for cannot move, whatever else happens meanwhile.  So a *)
(* handler that is slow inside its loop, for one the notification about a  *)
(* challenge with its timeout of ten seconds, is taken to be back within   *)
(* the grace.                                                              *)
(***************************************************************************)
EXTENDS Integers, Sequences, FiniteSets

CONSTANTS
    WithPython,       \* is there a Python interpreter?
    HasPythonBackend, \* can it import the module, as far as the probe can tell?
    MaxStreams, \* no attempt is begun once the job has started so many streams
    MaxLines,   \* lines the backends of the job print in all
    EventCap    \* capacity of an events channel

ASSUME StreamAssumption ==
    /\ {WithPython, HasPythonBackend} \subseteq BOOLEAN
    /\ HasPythonBackend => WithPython
    /\ {MaxStreams, EventCap} \subseteq Nat \ {0}
    /\ MaxLines \in Nat

Attempts == 1..MaxStreams
Streams == (-MaxStreams..MaxStreams) \ {0}
NoCmd == 0

(* The Python phase of an attempt, and the attempt of a stream.             *)
Python(a) == -a
AttemptOf(s) == IF s < 0 THEN -s ELSE s

(* A progress line, the backend's own report of a failure, its completion.  *)
Lines == {"event", "error", "complete"}

VARIABLES
    proc,     \* the direct child: "none" before it starts and when it is reaped,
              \* "running", or its exit, "ok" or "bad"
    held,     \* does a descendant of it hold the write end of the pipe?
    left,     \* lines that may still be printed
    pipe,     \* lines in the pipe
    buf,      \* lines in the scanner's buffer
    parser,   \* parseProgress: "off", "on" or "done"
    deadline, \* has the pipe's read deadline been set?
    run,      \* where the goroutine of the stream is
    report,   \* has streamBackend an error to return?
    sent,     \* errSink.sent
    events,   \* the channels the stream was given
    errs,
    closed,
    active,   \* the stream registered in activeCmds
    saw,      \* CollectPythonResult of each attempt: sawComplete
    cur,      \* the attempt under way
    handler,  \* where runAttemptsWithRetry is
    verdict   \* how attemptDownload ended

child    == <<proc, held>>
reader   == <<buf, parser, sent>>
stream   == <<run, report, deadline>>
channels == <<events, errs, closed>>
job      == <<saw, cur, handler, verdict>>
vars     == <<child, left, pipe, reader, stream, channels, active, job>>

Init ==
    /\ proc = [s \in Streams |-> "none"]
    /\ held = [s \in Streams |-> FALSE]
    /\ left = MaxLines
    /\ pipe = [s \in Streams |-> <<>>]
    /\ buf = [s \in Streams |-> <<>>]
    /\ parser = [s \in Streams |-> "off"]
    /\ deadline = [s \in Streams |-> FALSE]
    /\ run = [s \in Streams |-> "idle"]
    /\ report = [s \in Streams |-> "none"]
    /\ sent = [s \in Streams |-> FALSE]
    /\ events = [s \in Streams |-> <<>>]
    /\ errs = [s \in Streams |-> <<>>]
    /\ closed = [s \in Streams |-> FALSE]
    /\ active = NoCmd
    /\ saw = [a \in Attempts |-> FALSE]
    /\ cur = 1
    /\ handler = "launch"
    /\ verdict = "none"

-----------------------------------------------------------------------------
(* The subprocess.                                                          *)

WriteLine(s) ==
    /\ proc[s] = "running" /\ left > 0
    /\ \E line \in Lines : pipe' = [pipe EXCEPT ![s] = Append(@, line)]
    /\ left' = left - 1
    /\ UNCHANGED <<proc, held, reader, stream, channels, active, job>>

Ends(s, exit, stays) ==
    /\ proc' = [proc EXCEPT ![s] = exit]
    /\ held' = [held EXCEPT ![s] = stays]

(* It exits, or exec.CommandContext kills it; its Chromium may stay.  One   *)
(* that lets go of the pipe later is a parser slow to see the end of it.    *)
Exit(s) ==
    /\ proc[s] = "running"
    /\ \E exit \in {"ok", "bad"}, stays \in BOOLEAN : Ends(s, exit, stays)
    /\ UNCHANGED <<left, pipe, reader, stream, channels, active, job>>

-----------------------------------------------------------------------------
(* parseProgress.                                                           *)

Full(c) == Len(events[c]) >= EventCap

(* Mutant of send: nothing is dropped.                                      *)
SendAgain(s) ==
    /\ errs' = [errs EXCEPT ![s] = Append(@, s)]
    /\ sent' = [sent EXCEPT ![s] = TRUE]

(* errSink: the first error only, and never blocking.                       *)
send(s) ==
    /\ errs' = IF sent[s] \/ errs[s] # <<>> THEN errs
               ELSE [errs EXCEPT ![s] = Append(@, s)]
    /\ sent' = [sent EXCEPT ![s] = TRUE]

(* One read of the pipe.                                                    *)
Read(s) ==
    /\ parser[s] = "on" /\ buf[s] = <<>>
    /\ ~deadline[s] /\ pipe[s] # <<>>
    /\ buf' = [buf EXCEPT ![s] = pipe[s]]
    /\ pipe' = [pipe EXCEPT ![s] = <<>>]
    /\ UNCHANGED <<child, left, parser, sent, stream, channels, active, job>>

(* End of file, or the deadline: Go looks at the deadline before the pipe.  *)
(* Who still holds the other end no longer matters.                         *)
EndOfStream(s) ==
    /\ parser[s] = "on" /\ buf[s] = <<>>
    /\ deadline[s] \/ (pipe[s] = <<>> /\ proc[s] # "running" /\ ~held[s])
    /\ parser' = [parser EXCEPT ![s] = "done"]
    /\ held' = [held EXCEPT ![s] = FALSE]
    /\ UNCHANGED <<proc, left, pipe, buf, sent, stream, channels, active, job>>

(* The next line: an error goes to the sink, the rest to the channel, where *)
(* the parser blocks as long as there is no room.                           *)
Scan(s) ==
    /\ parser[s] = "on" /\ buf[s] # <<>>
    /\ buf' = [buf EXCEPT ![s] = Tail(@)]
    /\ \/ /\ Head(buf[s]) = "error"
          /\ send(s)
          /\ events' = events
       \/ /\ Head(buf[s]) # "error" /\ ~Full(s) /\ ~closed[s]
          /\ events' = [events EXCEPT ![s] = Append(@, Head(buf[s]))]
          /\ UNCHANGED <<errs, sent>>
    /\ UNCHANGED <<child, left, pipe, parser, stream, closed, active, job>>

(* Does the consumer of s still take events?  The handler does until it has *)
(* its verdict, the collector unless it is blocked on the handler.          *)
Taken(s) ==
    \/ handler = "read" /\ cur = AttemptOf(s)
    \/ s < 0 /\ ~(Full(-s) /\ (saw[-s] \/ Head(events[s]) = "complete"))

(* The parser waits for a pipe that is held open, or for a consumer that    *)
(* has left.                                                                *)
Blocked(s) ==
    /\ parser[s] = "on"
    /\ IF buf[s] = <<>> THEN pipe[s] = <<>> /\ held[s]
                        ELSE Head(buf[s]) # "error" /\ Full(s) /\ ~Taken(s)

-----------------------------------------------------------------------------
(* The goroutine of a stream: runCLIBackend or downloadWithPython around    *)
(* streamBackend.                                                           *)

Goto(s, from, to) ==
    /\ run[s] = from
    /\ run' = [run EXCEPT ![s] = to]

(* The command is registered and started; or it is not started, for which   *)
(* the CLI has one more reason, a service it does not know.                 *)
Start(s) ==
    /\ \/ /\ handler # "over"
          /\ Goto(s, "begin", "wait")
          /\ proc' = [proc EXCEPT ![s] = "running"]
          /\ parser' = [parser EXCEPT ![s] = "on"]
          /\ active' = s
          /\ report' = report
       \/ /\ Goto(s, "begin", "report")
          /\ report' = [report EXCEPT ![s] = "failure"]
          /\ active' = s
          /\ UNCHANGED <<proc, parser>>
       \/ /\ s > 0
          /\ Goto(s, "begin", "report")
          /\ report' = [report EXCEPT ![s] = "unsupported"]
          /\ UNCHANGED <<proc, parser, active>>
    /\ UNCHANGED <<held, left, pipe, buf, sent, deadline, channels, job>>

Waited(s) ==
    /\ proc[s] \in {"ok", "bad"}
    /\ Goto(s, "wait", "drain")
    /\ report' = [report EXCEPT ![s] = IF proc[s] = "bad" THEN "failure" ELSE "none"]
    /\ proc' = [proc EXCEPT ![s] = "none"]
    /\ UNCHANGED <<held, left, pipe, reader, deadline, channels, active, job>>

(* Mutant of killProcessGroup: the context ends and nothing is killed.      *)
KillNothing(s) == UNCHANGED child

(* It is dead and reaped; a descendant that left the group may survive.     *)
killProcessGroup(s) ==
    \E stays \in BOOLEAN : Ends(s, "none", stays)

(* The deadline of the phase, or the job's context: a delete, a pause or    *)
(* the job's budget may end it at any time, the end of the job does.        *)
ContextDone(s) ==
    /\ Goto(s, "wait", "drain")
    /\ killProcessGroup(s)
    /\ report' = [report EXCEPT ![s] = "failure"]
    /\ UNCHANGED <<left, pipe, reader, deadline, channels, active, job>>

(* Mutant of drainPipe: only the end of the pipe ends the drain.            *)
DrainToEOF(s) ==
    /\ parser[s] = "done"
    /\ Goto(s, "drain", "report")
    /\ UNCHANGED <<child, left, pipe, reader, report, deadline, channels, active, job>>

(* Mutant of drainPipe: the deadline is set at once.                        *)
DrainNothing(s) ==
    /\ \/ Goto(s, "drain", "abandon") /\ deadline' = [deadline EXCEPT ![s] = TRUE]
       \/ parser[s] = "done" /\ Goto(s, "abandon", "report") /\ UNCHANGED deadline
    /\ UNCHANGED <<child, left, pipe, reader, report, channels, active, job>>

(* Wait for the parser; after the first grace set a deadline on the pipe,   *)
(* after the second give up.                                                *)
drainPipe(s) ==
    /\ \/ /\ parser[s] = "done"
          /\ Goto(s, "drain", "report") \/ Goto(s, "abandon", "report")
          /\ deadline' = deadline
       \/ /\ Blocked(s)
          /\ Goto(s, "drain", "abandon")
          /\ deadline' = [deadline EXCEPT ![s] = TRUE]
       \/ /\ Blocked(s) /\ buf[s] # <<>>
          /\ Goto(s, "abandon", "report")
          /\ deadline' = deadline
    /\ UNCHANGED <<child, left, pipe, reader, report, channels, active, job>>

Report(s) ==
    /\ Goto(s, "report", "close")
    /\ IF report[s] = "none" THEN UNCHANGED <<errs, sent>> ELSE send(s)
    /\ UNCHANGED <<child, left, pipe, buf, parser, report, deadline, events,
                   closed, active, job>>

(* The deferred calls: the directory's registration, whoever made it, and   *)
(* then both channels.  The stream's own variables are gone.                *)
Close(s) ==
    /\ Goto(s, "close", "closed")
    /\ active' = IF report[s] = "unsupported" THEN active ELSE NoCmd
    /\ closed' = [closed EXCEPT ![s] = TRUE]
    /\ report' = [report EXCEPT ![s] = "none"]
    /\ sent' = [sent EXCEPT ![s] = FALSE]
    /\ deadline' = [deadline EXCEPT ![s] = FALSE]
    /\ UNCHANGED <<child, left, pipe, buf, parser, events, errs, job>>

streamBackend(s) ==
    Start(s) \/ Waited(s) \/ ContextDone(s) \/ drainPipe(s) \/ Report(s) \/ Close(s)

-----------------------------------------------------------------------------
(* Download, while the Python phase of attempt a runs.                      *)

Collecting(a) == run[Python(a)] # "idle" /\ run[a] = "idle" /\ ~closed[a]

(* From the first "complete" on, everything is forwarded.  The one event    *)
(* the collector holds while it is blocked is counted in the channel.       *)
CollectEvent(a) ==
    /\ Collecting(a) /\ events[Python(a)] # <<>>
    /\ LET event == Head(events[Python(a)])
           forwards == saw[a] \/ event = "complete"
       IN  /\ forwards => ~Full(a)
           /\ saw' = [saw EXCEPT ![a] = forwards]
           /\ events' = [events EXCEPT ![Python(a)] = Tail(@),
                                       ![a] = IF forwards THEN Append(@, event) ELSE @]
    /\ UNCHANGED <<child, left, pipe, reader, stream, errs, closed, active, cur,
                   handler, verdict>>

(* Without a "complete" the error is only logged.                           *)
CollectError(a) ==
    /\ Collecting(a) /\ errs[Python(a)] # <<>>
    /\ saw[a] => errs[a] = <<>>
    /\ errs' = [errs EXCEPT ![Python(a)] = Tail(@),
                            ![a] = IF saw[a] THEN Append(@, Head(errs[Python(a)])) ELSE @]
    /\ UNCHANGED <<child, left, pipe, reader, stream, events, closed, active, job>>

(* Mutant of CollectPythonResult: Python's first error ends its phase.      *)
CollectUntilError(a) ==
    \/ CollectEvent(a)
    \/ /\ Collecting(a) /\ (errs[Python(a)] # <<>> \/ closed[Python(a)])
       /\ Goto(a, "idle", "begin")
       /\ UNCHANGED <<child, left, pipe, reader, report, deadline, channels,
                      active, job>>

(* Both channels are closed: Python delivered, or the CLI has its turn.     *)
CollectPythonResult(a) ==
    \/ CollectEvent(a)
    \/ CollectError(a)
    \/ /\ Collecting(a) /\ closed[Python(a)]
       /\ events[Python(a)] = <<>> /\ errs[Python(a)] = <<>>
       /\ IF saw[a] THEN closed' = [closed EXCEPT ![a] = TRUE] /\ run' = run
                    ELSE Goto(a, "idle", "begin") /\ closed' = closed
       /\ UNCHANGED <<child, left, pipe, reader, report, deadline, events, errs, active, job>>

-----------------------------------------------------------------------------
(* The handler.                                                             *)

(* The head of the loop: leave, if the job's context is done, or start the  *)
(* attempt's goroutine.  It begins with Python, if there is an interpreter  *)
(* and no session to go without; retries and fallbacks leave Python out if  *)
(* the module was found.                                                    *)
Launch ==
    /\ handler = "launch"
    /\ verdict' = "none"
    /\ \/ /\ handler' = "over"
          /\ run' = run
       \/ /\ handler' = "read"
          /\ \/ /\ WithPython /\ (cur = 1 \/ ~HasPythonBackend)
                /\ Goto(Python(cur), "idle", "begin")
             \/ Goto(cur, "idle", "begin")
    /\ UNCHANGED <<child, left, pipe, reader, report, deadline, channels,
                   active, saw, cur>>

(* A completed job is over, and the deferred releaseCtx ends its context.   *)
Verdict(v) ==
    /\ verdict' = v
    /\ handler' = IF v = "completed" THEN "over" ELSE "abort"

(* A "complete" may still be a failure, for a partial album.                *)
ReceiveEvent ==
    /\ handler = "read" /\ events[cur] # <<>>
    /\ events' = [events EXCEPT ![cur] = Tail(@)]
    /\ IF Head(events[cur]) = "complete"
       THEN \E v \in {"completed", "failed"} : Verdict(v)
       ELSE UNCHANGED <<verdict, handler>>
    /\ UNCHANGED <<child, left, pipe, reader, stream, errs, closed, active, saw, cur>>

ReceiveError ==
    /\ handler = "read" /\ errs[cur] # <<>>
    /\ errs' = [errs EXCEPT ![cur] = Tail(@)]
    /\ Verdict("failed")
    /\ UNCHANGED <<child, left, pipe, reader, stream, events, closed, active, saw, cur>>

(* Mutant of Drained: the loop ends when the events channel is closed.      *)
EventsDrained == closed[cur] /\ events[cur] = <<>>

Drained == closed[cur] /\ events[cur] = <<>> /\ errs[cur] = <<>>

attemptDownload ==
    \/ ReceiveEvent
    \/ ReceiveError
    \/ /\ handler = "read" /\ Drained
       /\ Verdict("nosignal")
       /\ UNCHANGED <<child, left, pipe, reader, stream, channels, active, saw, cur>>

(* Kill the direct child of the registered command; what it spawned stays.  *)
AbortActive ==
    /\ handler = "abort"
    /\ handler' = "next"
    /\ IF active # NoCmd /\ proc[active] = "running"
       THEN \E stays \in BOOLEAN : Ends(active, "bad", stays)
       ELSE UNCHANGED child
    /\ UNCHANGED <<left, pipe, reader, stream, channels, active, saw, cur,
                   verdict>>

(* A retry, the next fallback service, or the end of the job.               *)
NextAttempt ==
    /\ handler = "next"
    /\ \/ /\ Cardinality({s \in Streams : run[s] # "idle"}) < MaxStreams
          /\ cur' = cur + 1
          /\ handler' = "launch"
       \/ /\ handler' = "over"
          /\ cur' = cur
    /\ UNCHANGED <<child, left, pipe, reader, stream, channels, active, saw, verdict>>

runAttemptsWithRetry == Launch \/ attemptDownload \/ AbortActive \/ NextAttempt

-----------------------------------------------------------------------------

parseProgress(s) == Read(s) \/ EndOfStream(s) \/ Scan(s)

Next ==
    \/ \E s \in Streams : \/ WriteLine(s) \/ Exit(s)
                          \/ parseProgress(s)
                          \/ streamBackend(s)
    \/ \E a \in Attempts : CollectPythonResult(a)
    \/ runAttemptsWithRetry

Spec == Init /\ [][Next]_vars

(* Goroutines run and timers fire; nothing is asked of the backends.        *)
Fairness ==
    /\ \A s \in Streams : /\ WF_vars(parseProgress(s))
                          /\ WF_vars(streamBackend(s))
    /\ \A a \in Attempts : WF_vars(CollectPythonResult(a))
    /\ WF_vars(runAttemptsWithRetry)

FairSpec == Spec /\ Fairness

-----------------------------------------------------------------------------
(* Properties.                                                              *)

(* No channel holds more than it can; an errors channel holds one.          *)
ChannelsOK ==
    /\ events \in [Streams -> Seq(Lines)]
    /\ errs \in [Streams -> Seq(Streams)]
    /\ \A s \in Streams : Len(events[s]) <= EventCap /\ Len(errs[s]) <= 1

(* Type correctness.                                                        *)
TypeOK ==
    /\ proc \in [Streams -> {"none", "running", "ok", "bad"}]
    /\ {held, deadline, sent, closed} \subseteq [Streams -> BOOLEAN]
    /\ left \in 0..MaxLines
    /\ {pipe, buf} \subseteq [Streams -> Seq(Lines)]
    /\ parser \in [Streams -> {"off", "on", "done"}]
    /\ run \in [Streams -> {"idle", "begin", "wait", "drain", "abandon",
                            "report", "close", "closed"}]
    /\ report \in [Streams -> {"none", "failure", "unsupported"}]
    /\ ChannelsOK
    /\ active \in Streams \cup {NoCmd}
    /\ cur \in Attempts
    /\ handler \in {"launch", "read", "abort", "next", "over"}
    /\ verdict \in {"none", "completed", "failed", "nosignal"}
    /\ saw \in [Attempts -> BOOLEAN]

Returned(s) == parser[s] # "off" /\ run[s] \in {"report", "close", "closed"}

AllRead(s) == parser[s] = "done" /\ pipe[s] = <<>>

(* streamBackend returns "only once every byte the backend wrote has been   *)
(* read": nothing is left in the pipe, and the parser has returned, so that *)
(* it never sends on the channels its caller closes next.                   *)
AllOutputRead == \A s \in Streams : Returned(s) => AllRead(s)

(* What holds of that: no output is given up, neither to the grace periods  *)
(* nor to the kill, as long as the handler still waits for its verdict.     *)
NothingLostWhileRead ==
    \A s \in Streams :
        /\ Returned(s)
        /\ handler = "read" /\ cur = AttemptOf(s)
        => AllRead(s)

(* "cli exited without completion signal" is the handler's last resort: it  *)
(* never replaces a reason the backend or its exit status gave, whichever   *)
(* of the two channels the handler happens to look at first.                *)
FailureHasReason ==
    verdict = "nosignal" => errs[cur] = <<>>

(* The Python backend and the CLI it falls back to, in whichever attempt,   *)
(* never work on the job's directory at the same time.                      *)
PhasesDoNotOverlap ==
    \A a \in Attempts : run[a] # "idle" => proc[Python(a)] # "running"

(* Whatever the backends do, the handler gets to the end of the job, and    *)
(* every stream it left behind ends as well and leaves no process.          *)
EverythingEnds ==
    <>[](/\ handler = "over"
         /\ \A s \in Streams : /\ run[s] \in {"idle", "closed"}
                               /\ proc[s] # "running")
=============================================================================
