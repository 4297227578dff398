------------------------- MODULE BackendStreamProofs -------------------------
(***************************************************************************)
(* Theorems about the attempts of one job, for any number of streams and    *)
(* lines and every capacity of the channels.                                *)
(***************************************************************************)
EXTENDS BackendStream, FiniteSetTheorems, TLAPS

Reading(s) == handler = "read" /\ cur = AttemptOf(s)

(* No stream starts before its attempt.                                     *)
NoneEarly ==
    \A s \in Streams :
        run[s] # "idle" => /\ AttemptOf(s) <= cur
                           /\ AttemptOf(s) = cur => handler # "launch"

(* Every attempt so far has started a stream.                               *)
Launched(a) == run[a] # "idle" \/ run[Python(a)] # "idle"

AllLaunched ==
    \A a \in 1..cur :
        a < cur \/ handler \in {"read", "abort", "next"} => Launched(a)

(* What the process, the parser and the channels of a stream have to do     *)
(* with the place its goroutine is at.                                      *)
InStage(s) ==
    /\ proc[s] # "none" => run[s] = "wait"
    /\ parser[s] # "off" => run[s] \notin {"idle", "begin"}
    /\ parser[s] = "done" => proc[s] # "running"
    /\ deadline[s] => run[s] \in {"abandon", "report", "close"}
    /\ closed[s] => \/ run[s] = "closed"
                    \/ s \in Attempts /\ run[s] = "idle" /\ run[Python(s)] = "closed"
    /\ run[s] = "idle" /\ (s \in Attempts => run[Python(s)] = "idle") => errs[s] = <<>>

(* While the handler reads an attempt, neither grace period costs output.   *)
NothingGivenUp(s) ==
    Reading(s) => /\ deadline[s] \/ parser[s] = "done" => pipe[s] = <<>>
                  /\ Returned(s) => parser[s] = "done"

(* The CLI of an attempt starts instead of Python, or after it.             *)
PythonFirst ==
    \A a \in Attempts : run[a] # "idle" => run[Python(a)] \in {"idle", "closed"}

(* The last resort is taken when no more can come, and stands until the     *)
(* next attempt.                                                            *)
LastResort ==
    /\ handler = "read" => verdict = "none"
    /\ verdict = "nosignal" =>
          /\ errs[cur] = <<>>
          /\ parser[cur] # "on" /\ run[cur] \in {"idle", "closed"}
          /\ handler = "launch" \/ closed[cur]

StreamInv ==
    /\ TypeOK
    /\ NoneEarly
    /\ AllLaunched
    /\ \A s \in Streams : InStage(s) /\ NothingGivenUp(s)
    /\ PythonFirst
    /\ LastResort

-----------------------------------------------------------------------------

(* The streams by name.                                                     *)
LEMMA Named ==
    /\ \A a \in Attempts :
          /\ a \in Streams /\ Python(a) \in Streams /\ Python(a) \notin Attempts
          /\ AttemptOf(a) = a /\ AttemptOf(Python(a)) = a
    /\ \A s \in Streams :
          /\ AttemptOf(s) \in Attempts
          /\ s \in {AttemptOf(s), Python(AttemptOf(s))}
    /\ MaxStreams \in Nat /\ MaxLines \in Nat /\ EventCap \in Nat \ {0}
BY StreamAssumption DEF Streams, Attempts, Python, AttemptOf

(* The invariant holds before the first attempt.                            *)
LEMMA InitKeeps == Init => StreamInv
<1> SUFFICES ASSUME Init PROVE StreamInv
  OBVIOUS
<1> USE StreamAssumption DEF Init
<1>1. TypeOK
  <2>1. pipe \in [Streams -> Seq(Lines)] /\ buf \in [Streams -> Seq(Lines)]
    OBVIOUS
  <2>2. ChannelsOK
    BY DEF ChannelsOK
  <2>3. left \in 0..MaxLines /\ cur \in Attempts
    BY DEF Attempts
  <2> QED
    BY <2>1, <2>2, <2>3 DEF TypeOK
<1>2. NoneEarly /\ AllLaunched /\ PythonFirst /\ LastResort
  BY Named DEF NoneEarly, AllLaunched, PythonFirst, LastResort
<1>3. \A s \in Streams : InStage(s) /\ NothingGivenUp(s)
  BY DEF InStage, NothingGivenUp, Reading
<1> QED
  BY <1>1, <1>2, <1>3 DEF StreamInv

(* What a send does to a sequence.                                          *)
LEMMA Adding ==
    ASSUME NEW S, NEW q \in Seq(S), NEW x \in S
    PROVE  Append(q, x) \in Seq(S) /\ Len(Append(q, x)) = Len(q) + 1
OBVIOUS

(* What a receive does to a sequence.                                       *)
LEMMA Taking ==
    ASSUME NEW S, NEW q \in Seq(S), q # <<>>
    PROVE  Head(q) \in S /\ Tail(q) \in Seq(S) /\ Len(Tail(q)) = Len(q) - 1
OBVIOUS

(* The four things a step may do to the channels keep them within their     *)
(* capacity.                                                                *)
LEMMA PutEvent ==
    ASSUME ChannelsOK, NEW c \in Streams, NEW e \in Lines, Len(events[c]) < EventCap,
           events' = [events EXCEPT ![c] = Append(@, e)], errs' = errs
    PROVE  ChannelsOK'
<1>1. events[c] \in Seq(Lines) /\ Len(events[c]) \in Nat /\ EventCap \in Nat
  BY StreamAssumption DEF ChannelsOK
<1>2. Append(events[c], e) \in Seq(Lines) /\ Len(Append(events[c], e)) <= EventCap
  BY <1>1, Adding
<1> QED
  BY <1>2 DEF ChannelsOK

(* They are not touched.                                                    *)
LEMMA ChannelsKept ==
    ASSUME ChannelsOK, UNCHANGED <<events, errs>>
    PROVE  ChannelsOK'
BY DEF ChannelsOK

(* An event is received.                                                    *)
LEMMA TakeEvent ==
    ASSUME ChannelsOK, NEW c \in Streams, events[c] # <<>>,
           events' = [events EXCEPT ![c] = Tail(@)], errs' = errs
    PROVE  ChannelsOK'
<1>1. events[c] \in Seq(Lines) /\ Len(events[c]) \in Nat /\ EventCap \in Nat
  BY StreamAssumption DEF ChannelsOK
<1>2. Tail(events[c]) \in Seq(Lines) /\ Len(Tail(events[c])) = Len(events[c]) - 1
  BY <1>1, Taking
<1>3. Len(Tail(events[c])) <= EventCap
  BY <1>1, <1>2 DEF ChannelsOK
<1> QED
  BY <1>2, <1>3 DEF ChannelsOK

(* An error is received.                                                    *)
LEMMA TakeError ==
    ASSUME ChannelsOK, NEW c \in Streams, errs[c] # <<>>,
           errs' = [errs EXCEPT ![c] = Tail(@)], events' = events
    PROVE  ChannelsOK'
<1>1. errs[c] \in Seq(Streams) /\ Len(errs[c]) \in Nat /\ Len(errs[c]) <= 1
  BY DEF ChannelsOK
<1>2. Tail(errs[c]) \in Seq(Streams) /\ Len(Tail(errs[c])) = Len(errs[c]) - 1
  BY <1>1, Taking
<1>3. Len(Tail(errs[c])) <= 1
  BY <1>1, <1>2
<1> QED
  BY <1>2, <1>3 DEF ChannelsOK

(* An error is sent, unless one has been: its place is then free.           *)
LEMMA SendKeeps ==
    ASSUME ChannelsOK, sent \in [Streams -> BOOLEAN], NEW s \in Streams, send(s),
           events' = events
    PROVE  ChannelsOK' /\ sent' \in [Streams -> BOOLEAN]
<1>1. CASE sent[s] \/ errs[s] # <<>>
  BY <1>1 DEF send, ChannelsOK
<1>2. CASE errs[s] = <<>> /\ errs' = [errs EXCEPT ![s] = Append(@, s)]
  <2>1. errs'[s] = <<s>>
    BY <1>2 DEF ChannelsOK
  <2>2. <<s>> \in Seq(Streams) /\ Len(<<s>>) <= 1
    OBVIOUS
  <2> QED
    BY <1>2, <2>1, <2>2 DEF send, ChannelsOK
<1> QED
  BY <1>1, <1>2 DEF send

(* A process ends, and its children may keep the pipe.                      *)
LEMMA EndsKeeps ==
    ASSUME TypeOK, NEW s \in Streams, NEW exit \in {"none", "ok", "bad"},
           NEW stays \in BOOLEAN, Ends(s, exit, stays)
    PROVE  /\ proc' \in [Streams -> {"none", "running", "ok", "bad"}]
           /\ held' \in [Streams -> BOOLEAN]
<1>1. proc \in [Streams -> {"none", "running", "ok", "bad"}] /\ held \in [Streams -> BOOLEAN]
  BY DEF TypeOK
<1> QED
  BY <1>1 DEF Ends

(* Every attempt so far has started a stream of its own, so that another    *)
(* attempt is within the bound of streams.                                  *)
LEMMA RoomForAnother ==
    ASSUME TypeOK, NoneEarly, AllLaunched, handler = "next",
           Cardinality({s \in Streams : run[s] # "idle"}) < MaxStreams
    PROVE  cur + 1 \in Attempts
<1> DEFINE started == {s \in Streams : run[s] # "idle"}
           f == [s \in started |-> AttemptOf(s)]
<1>1. cur \in 1..MaxStreams /\ MaxStreams \in Nat
  BY StreamAssumption DEF TypeOK, Attempts
<1>2. f \in [started -> 1..cur]
  BY Named, <1>1 DEF NoneEarly, Attempts
<1>3. ASSUME NEW a \in 1..cur PROVE \E s \in started : f[s] = a
  <2>1. a \in Attempts /\ Launched(a)
    BY <1>1 DEF AllLaunched, Attempts
  <2> QED
    BY <2>1, Named DEF Launched
<1>4. f \in Surjection(started, 1..cur)
  BY <1>2, <1>3 DEF Surjection
<1>5. IsFiniteSet(started)
  <2>1. IsFiniteSet(-MaxStreams..MaxStreams)
    BY <1>1, FS_Interval
  <2> QED
    BY <2>1, FS_Subset DEF Streams
<1>6. Cardinality(1..cur) = cur
  BY <1>1, FS_Interval
<1> HIDE DEF f
<1>7. cur <= Cardinality(started) /\ Cardinality(started) \in Nat
  BY <1>4, <1>5, <1>6, FS_Surjection, FS_CardinalityType
<1> HIDE DEF started
<1>8. Cardinality(started) < MaxStreams
  BY DEF started
<1> QED
  BY <1>1, <1>7, <1>8 DEF Attempts

(* The collector ends the Python phase of an attempt.                       *)
CollectEnd(a) == CollectPythonResult(a) /\ ~CollectEvent(a) /\ ~CollectError(a)

(* Every step keeps the types.                                              *)
LEMMA TypeStep == ASSUME StreamInv, [Next]_vars PROVE TypeOK'
<1> USE Named
<1>1. TypeOK
  BY DEF StreamInv
<1>2. ASSUME UNCHANGED vars PROVE TypeOK'
  BY <1>1, <1>2 DEF TypeOK, ChannelsOK, vars, child, reader, stream, channels, job
<1>3. ASSUME NEW s \in Streams, WriteLine(s) PROVE TypeOK'
  <2>1. PICK line \in Lines : pipe' = [pipe EXCEPT ![s] = Append(@, line)]
    BY <1>3 DEF WriteLine
  <2>2. Append(pipe[s], line) \in Seq(Lines)
    BY <1>1, Adding DEF TypeOK
  <2>3. pipe' \in [Streams -> Seq(Lines)]
    BY <1>1, <2>1, <2>2 DEF TypeOK
  <2>4. left' \in 0..MaxLines
    BY <1>1, <1>3 DEF TypeOK, WriteLine
  <2> QED
    <3>1. UNCHANGED <<proc, held, reader, stream, channels, active, job>>
      BY <1>3 DEF WriteLine
    <3>2. ChannelsOK'
      BY <1>1, <3>1, ChannelsKept DEF TypeOK, channels
    <3> QED
      BY <1>1, <2>3, <2>4, <3>1, <3>2 DEF TypeOK, reader, stream, channels, job
<1>4. ASSUME NEW s \in Streams, Exit(s) PROVE TypeOK'
  <2>1. PICK exit \in {"ok", "bad"}, stays \in BOOLEAN : Ends(s, exit, stays)
    BY <1>4 DEF Exit
  <2>2. /\ proc' \in [Streams -> {"none", "running", "ok", "bad"}]
        /\ held' \in [Streams -> BOOLEAN]
    BY <1>1, <2>1, EndsKeeps
  <2> QED
    BY <1>1, <1>4, <2>2 DEF TypeOK, ChannelsOK, Exit, reader, stream, channels, job
<1>5. ASSUME NEW s \in Streams, Read(s) PROVE TypeOK'
  <2>1. pipe' \in [Streams -> Seq(Lines)] /\ buf' \in [Streams -> Seq(Lines)]
    <3>1. /\ pipe' = [pipe EXCEPT ![s] = <<>>] /\ buf' = [buf EXCEPT ![s] = pipe[s]]
          /\ pipe \in [Streams -> Seq(Lines)] /\ buf \in [Streams -> Seq(Lines)]
      BY <1>1, <1>5 DEF TypeOK, Read
    <3>2. pipe[s] \in Seq(Lines) /\ <<>> \in Seq(Lines)
      BY <3>1
    <3> QED
      BY <3>1, <3>2
  <2> QED
    <3>1. UNCHANGED <<child, left, parser, sent, stream, channels, active, job>>
      BY <1>5 DEF Read
    <3>2. ChannelsOK'
      BY <1>1, <3>1, ChannelsKept DEF TypeOK, channels
    <3> QED
      BY <1>1, <2>1, <3>1, <3>2 DEF TypeOK, child, stream, channels, job
<1>6. ASSUME NEW s \in Streams, EndOfStream(s) PROVE TypeOK'
  <2>1. /\ parser' = [parser EXCEPT ![s] = "done"] /\ held' = [held EXCEPT ![s] = FALSE]
        /\ UNCHANGED <<proc, left, pipe, buf, sent, stream, channels, active, job>>
    BY <1>6 DEF EndOfStream
  <2>2. ChannelsOK'
    BY <1>1, <2>1, ChannelsKept DEF TypeOK, channels
  <2>3. parser' \in [Streams -> {"off", "on", "done"}] /\ held' \in [Streams -> BOOLEAN]
    BY <1>1, <2>1 DEF TypeOK
  <2> QED
    BY <1>1, <2>1, <2>2, <2>3 DEF TypeOK, stream, channels, job
<1>7. ASSUME NEW s \in Streams, Scan(s) PROVE TypeOK'
  <2>1. buf' \in [Streams -> Seq(Lines)]
    BY <1>1, <1>7, Taking DEF TypeOK, Scan
  <2>2. ChannelsOK' /\ sent' \in [Streams -> BOOLEAN]
    <3>1. CASE send(s) /\ events' = events
      BY <1>1, <3>1, SendKeeps DEF TypeOK
    <3>2. CASE /\ ~Full(s) /\ events' = [events EXCEPT ![s] = Append(@, Head(buf[s]))]
               /\ UNCHANGED <<errs, sent>>
      <4>1. Head(buf[s]) \in Lines
        BY <1>1, <1>7, Taking DEF TypeOK, Scan
      <4>2. Len(events[s]) < EventCap
        BY <1>1, <3>2 DEF TypeOK, ChannelsOK, Full
      <4> QED
        BY <1>1, <3>2, <4>1, <4>2, PutEvent DEF TypeOK
    <3> QED
      BY <1>7, <3>1, <3>2 DEF Scan
  <2> QED
    <3>1. UNCHANGED <<child, left, pipe, parser, stream, closed, active, job>>
      BY <1>7 DEF Scan
    <3> QED
      BY <1>1, <2>1, <2>2, <3>1 DEF TypeOK, child, stream, job
<1>8. ASSUME NEW s \in Streams, Start(s) PROVE TypeOK'
  <2>1. /\ \E to \in {"wait", "report"} : run' = [run EXCEPT ![s] = to]
        /\ proc' = proc \/ proc' = [proc EXCEPT ![s] = "running"]
        /\ parser' = parser \/ parser' = [parser EXCEPT ![s] = "on"]
        /\ active' \in {active, s}
        /\ \/ report' = report
           \/ \E why \in {"failure", "unsupported"} : report' = [report EXCEPT ![s] = why]
        /\ UNCHANGED <<held, left, pipe, buf, sent, deadline, channels, job>>
    BY <1>8 DEF Start, Goto
  <2>2. /\ proc' \in [Streams -> {"none", "running", "ok", "bad"}]
        /\ parser' \in [Streams -> {"off", "on", "done"}]
    <3>1. /\ proc \in [Streams -> {"none", "running", "ok", "bad"}]
          /\ parser \in [Streams -> {"off", "on", "done"}]
      BY <1>1 DEF TypeOK
    <3>2. proc' = proc \/ proc' = [proc EXCEPT ![s] = "running"]
      BY <2>1
    <3>3. parser' = parser \/ parser' = [parser EXCEPT ![s] = "on"]
      BY <2>1
    <3> QED
      BY <3>1, <3>2, <3>3
  <2>3. /\ run' \in [Streams -> {"idle", "begin", "wait", "drain", "abandon",
                                 "report", "close", "closed"}]
        /\ report' \in [Streams -> {"none", "failure", "unsupported"}]
    <3>1. /\ run \in [Streams -> {"idle", "begin", "wait", "drain", "abandon",
                                  "report", "close", "closed"}]
          /\ report \in [Streams -> {"none", "failure", "unsupported"}]
      BY <1>1 DEF TypeOK
    <3>2. \E to \in {"wait", "report"} : run' = [run EXCEPT ![s] = to]
      BY <2>1
    <3>3. \/ report' = report
          \/ \E why \in {"failure", "unsupported"} : report' = [report EXCEPT ![s] = why]
      BY <2>1
    <3> QED
      BY <3>1, <3>2, <3>3
  <2>4. ChannelsOK'
    BY <1>1, <2>1, ChannelsKept DEF TypeOK, channels
  <2> QED
    BY <1>1, <2>1, <2>2, <2>3, <2>4 DEF TypeOK, channels, job
<1>9. ASSUME NEW s \in Streams, Waited(s) PROVE TypeOK'
  BY <1>1, <1>9 DEF TypeOK, ChannelsOK, Waited, Goto, reader, channels, job
<1>10. ASSUME NEW s \in Streams, ContextDone(s) PROVE TypeOK'
  <2>1. PICK stays \in BOOLEAN : Ends(s, "none", stays)
    BY <1>10 DEF ContextDone, killProcessGroup
  <2>2. /\ proc' \in [Streams -> {"none", "running", "ok", "bad"}]
        /\ held' \in [Streams -> BOOLEAN]
    BY <1>1, <2>1, EndsKeeps
  <2>3. /\ run' = [run EXCEPT ![s] = "drain"]
        /\ report' = [report EXCEPT ![s] = "failure"]
    BY <1>10 DEF ContextDone, Goto
  <2> QED
    <3>1. run' \in [Streams -> {"idle", "begin", "wait", "drain", "abandon",
                                  "report", "close", "closed"}]
      BY <1>1, <2>3 DEF TypeOK
    <3>2. report' \in [Streams -> {"none", "failure", "unsupported"}]
      BY <1>1, <2>3 DEF TypeOK
    <3> QED
      <4>1. UNCHANGED <<left, pipe, reader, deadline, channels, active, job>>
        BY <1>10 DEF ContextDone
      <4>2. {held', deadline', sent', closed'} \subseteq [Streams -> BOOLEAN]
        BY <1>1, <2>2, <4>1 DEF TypeOK, reader, channels
      <4>3. ChannelsOK' /\ {pipe', buf'} \subseteq [Streams -> Seq(Lines)]
        BY <1>1, <4>1 DEF TypeOK, ChannelsOK, reader, channels
      <4> QED
        BY <1>1, <2>2, <3>1, <3>2, <4>1, <4>2, <4>3 DEF TypeOK, reader, channels, job
<1>11. ASSUME NEW s \in Streams, drainPipe(s) PROVE TypeOK'
  <2>1. \E to \in {"abandon", "report"} : run' = [run EXCEPT ![s] = to]
    BY <1>11 DEF drainPipe, Goto
  <2>2. deadline' = deadline \/ deadline' = [deadline EXCEPT ![s] = TRUE]
    BY <1>11 DEF drainPipe
  <2> QED
    <3>1. run' \in [Streams -> {"idle", "begin", "wait", "drain", "abandon",
                                  "report", "close", "closed"}]
      BY <1>1, <2>1 DEF TypeOK
    <3>2. deadline' \in [Streams -> BOOLEAN]
      <4>1. deadline \in [Streams -> BOOLEAN]
        BY <1>1 DEF TypeOK
      <4> QED
        BY <2>2, <4>1
    <3> QED
      <4>1. UNCHANGED <<child, left, pipe, reader, report, channels, active, job>>
        BY <1>11 DEF drainPipe
      <4>2. ChannelsOK'
        BY <1>1, <4>1, ChannelsKept DEF TypeOK, channels
      <4> QED
        BY <1>1, <3>1, <3>2, <4>1, <4>2 DEF TypeOK, child, reader, channels, job
<1>12. ASSUME NEW s \in Streams, Report(s) PROVE TypeOK'
  <2>1. ChannelsOK' /\ sent' \in [Streams -> BOOLEAN]
    BY <1>1, <1>12, SendKeeps DEF TypeOK, ChannelsOK, Report
  <2> QED
    BY <1>1, <1>12, <2>1 DEF TypeOK, Report, Goto, child, job
<1>13. ASSUME NEW s \in Streams, Close(s) PROVE TypeOK'
  <2>1. active' \in Streams \cup {NoCmd}
    BY <1>1, <1>13 DEF TypeOK, Close
  <2>2. run' \in [Streams -> {"idle", "begin", "wait", "drain", "abandon",
                              "report", "close", "closed"}]
    BY <1>1, <1>13 DEF TypeOK, Close, Goto
  <2>3. {held', deadline', sent', closed'} \subseteq [Streams -> BOOLEAN]
    BY <1>1, <1>13 DEF TypeOK, Close, child
  <2> QED
    BY <1>1, <1>13, <2>1, <2>2, <2>3 DEF TypeOK, ChannelsOK, Close, child, job
<1>14. ASSUME NEW a \in Attempts, CollectEvent(a) PROVE TypeOK'
  <2> DEFINE p == Python(a)
             event == Head(events[p])
             forwards == saw[a] \/ event = "complete"
  <2>1. p \in Streams /\ a \in Streams /\ p # a
    OBVIOUS
  <2> HIDE DEF p
  <2>2. /\ events[p] # <<>> /\ (forwards => ~Full(a))
        /\ saw' = [saw EXCEPT ![a] = forwards]
        /\ events' = [events EXCEPT ![p] = Tail(@),
                                    ![a] = IF forwards THEN Append(@, event) ELSE @]
        /\ UNCHANGED <<child, left, pipe, reader, stream, errs, closed, active, cur,
                       handler, verdict>>
    BY <1>14 DEF CollectEvent, p
  <2>3. /\ events \in [Streams -> Seq(Lines)] /\ events[p] \in Seq(Lines)
        /\ events[a] \in Seq(Lines)
        /\ Len(events[p]) <= EventCap /\ Len(events[a]) <= EventCap
    BY <1>1, <2>1 DEF TypeOK, ChannelsOK
  <2>4. /\ event \in Lines /\ Tail(events[p]) \in Seq(Lines)
        /\ Len(Tail(events[p])) = Len(events[p]) - 1
    BY <2>2, <2>3, Taking
  <2>5. forwards => Len(events[a]) < EventCap
    BY <2>2, <2>3 DEF Full
  <2> HIDE DEF event
  <2>6. Append(events[a], event) \in Seq(Lines) /\ Len(Append(events[a], event)) = Len(events[a]) + 1
    BY <2>3, <2>4, Adding
  <2> DEFINE rest == IF forwards THEN Append(events[a], event) ELSE events[a]
  <2>7. rest \in Seq(Lines) /\ Len(rest) <= EventCap
    <3>1. CASE forwards
      BY <2>3, <2>5, <2>6, <3>1
    <3>2. CASE ~forwards
      BY <2>3, <3>2
    <3> QED
      BY <3>1, <3>2
  <2>8. events' = [events EXCEPT ![p] = Tail(@), ![a] = rest]
    BY <2>1, <2>2, <2>3
  <2> HIDE DEF rest
  <2>9. Len(Tail(events[p])) <= EventCap
    BY <2>3, <2>4
  <2>10. ChannelsOK'
    <3>1. events' \in [Streams -> Seq(Lines)]
      BY <2>1, <2>3, <2>4, <2>7, <2>8
    <3>2. ASSUME NEW s \in Streams PROVE Len(events'[s]) <= EventCap
      BY <1>1, <2>1, <2>3, <2>7, <2>8, <2>9 DEF TypeOK, ChannelsOK
    <3> QED
      BY <1>1, <2>2, <3>1, <3>2 DEF TypeOK, ChannelsOK
  <2>11. saw' \in [Attempts -> BOOLEAN]
    <3>1. saw \in [Attempts -> BOOLEAN] /\ forwards \in BOOLEAN
      BY <1>1 DEF TypeOK
    <3> HIDE DEF forwards
    <3> QED
      BY <2>2, <3>1
  <2> QED
    BY <1>1, <2>2, <2>10, <2>11 DEF TypeOK, child, reader, stream
<1>15. ASSUME NEW a \in Attempts, CollectError(a) PROVE TypeOK'
  <2> DEFINE p == Python(a)
             err == Head(errs[p])
             rest == IF saw[a] THEN Append(errs[a], err) ELSE errs[a]
  <2>1. p \in Streams /\ a \in Streams /\ p # a
    OBVIOUS
  <2> HIDE DEF p
  <2>2. /\ errs[p] # <<>> /\ (saw[a] => errs[a] = <<>>)
        /\ errs' = [errs EXCEPT ![p] = Tail(@),
                                ![a] = IF saw[a] THEN Append(@, err) ELSE @]
        /\ UNCHANGED <<child, left, pipe, reader, stream, events, closed, active, job>>
    BY <1>15 DEF CollectError, p
  <2>3. /\ errs \in [Streams -> Seq(Streams)] /\ errs[p] \in Seq(Streams)
        /\ errs[a] \in Seq(Streams) /\ Len(errs[p]) <= 1 /\ Len(errs[a]) <= 1
    BY <1>1, <2>1 DEF TypeOK, ChannelsOK
  <2>4. err \in Streams /\ Tail(errs[p]) \in Seq(Streams) /\ Len(Tail(errs[p])) = Len(errs[p]) - 1
    BY <2>2, <2>3, Taking
  <2> HIDE DEF err
  <2>5. rest \in Seq(Streams) /\ Len(rest) <= 1
    <3>1. CASE saw[a]
      <4>1. errs[a] = <<>> /\ rest = Append(errs[a], err)
        BY <2>2, <3>1
      <4> HIDE DEF rest
      <4>2. Len(rest) = Len(errs[a]) + 1 /\ rest \in Seq(Streams)
        BY <2>3, <2>4, <4>1, Adding
      <4>3. Len(errs[a]) = 0
        BY <4>1
      <4> QED
        BY <4>2, <4>3
    <3>2. CASE ~saw[a]
      BY <2>3, <3>2
    <3> QED
      BY <3>1, <3>2
  <2>6. errs' = [errs EXCEPT ![p] = Tail(@), ![a] = rest]
    BY <2>1, <2>2, <2>3
  <2> HIDE DEF rest
  <2>7. Len(Tail(errs[p])) <= 1
    BY <2>3, <2>4
  <2>8. ChannelsOK'
    <3>1. errs' \in [Streams -> Seq(Streams)]
      BY <2>1, <2>3, <2>4, <2>5, <2>6
    <3>2. ASSUME NEW s \in Streams PROVE Len(errs'[s]) <= 1
      BY <1>1, <2>1, <2>3, <2>5, <2>6, <2>7 DEF TypeOK, ChannelsOK
    <3> QED
      BY <1>1, <2>2, <3>1, <3>2 DEF TypeOK, ChannelsOK
  <2> QED
    BY <1>1, <2>2, <2>8 DEF TypeOK, child, reader, stream, job
<1>16. ASSUME NEW a \in Attempts, CollectEnd(a) PROVE TypeOK'
  <2>1. /\ run' = run \/ run' = [run EXCEPT ![a] = "begin"]
        /\ closed' = closed \/ closed' = [closed EXCEPT ![a] = TRUE]
        /\ UNCHANGED <<child, left, pipe, reader, report, deadline, events, errs, active, job>>
    BY <1>16 DEF CollectEnd, CollectPythonResult, Goto
  <2> QED
    <3>1. run' \in [Streams -> {"idle", "begin", "wait", "drain", "abandon",
                                  "report", "close", "closed"}]
      BY <1>1, <2>1 DEF TypeOK
    <3>2. closed' \in [Streams -> BOOLEAN]
      <4>1. closed \in [Streams -> BOOLEAN]
        BY <1>1 DEF TypeOK
      <4> QED
        BY <2>1, <4>1
    <3>3. ChannelsOK'
      BY <1>1, <2>1 DEF TypeOK, ChannelsOK
    <3>4. UNCHANGED <<proc, held, active>>
      BY <2>1 DEF child
    <3>5. UNCHANGED <<left, pipe, report, deadline>>
      BY <2>1
    <3>6. UNCHANGED <<buf, parser, sent>>
      BY <2>1 DEF reader
    <3>7. UNCHANGED <<cur, handler, verdict, saw>>
      BY <2>1 DEF job
    <3> QED
      BY <1>1, <3>1, <3>2, <3>3, <3>4, <3>5, <3>6, <3>7 DEF TypeOK
<1>17. ASSUME Launch PROVE TypeOK'
  <2>1. /\ run' = run \/ \E first \in Streams : run' = [run EXCEPT ![first] = "begin"]
        /\ handler' \in {"read", "over"} /\ verdict' = "none"
        /\ UNCHANGED <<child, left, pipe, reader, report, deadline, channels,
                       active, saw, cur>>
    BY <1>1, <1>17 DEF TypeOK, Launch, Goto
  <2>2. run' \in [Streams -> {"idle", "begin", "wait", "drain", "abandon",
                              "report", "close", "closed"}]
    BY <1>1, <2>1 DEF TypeOK
  <2>3. ChannelsOK'
    BY <1>1, <2>1, ChannelsKept DEF TypeOK, channels
  <2> QED
    BY <1>1, <2>1, <2>2, <2>3 DEF TypeOK, child, reader, channels
<1>18. ASSUME ReceiveEvent PROVE TypeOK'
  <2>1. ChannelsOK'
    BY <1>1, <1>18, TakeEvent DEF TypeOK, ReceiveEvent, channels
  <2> QED
    BY <1>1, <1>18, <2>1 DEF TypeOK, ReceiveEvent, Verdict, child, reader, stream
<1>19. ASSUME ReceiveError PROVE TypeOK'
  <2>1. ChannelsOK'
    BY <1>1, <1>19, TakeError DEF TypeOK, ReceiveError
  <2> QED
    BY <1>1, <1>19, <2>1 DEF TypeOK, ReceiveError, Verdict, child, reader, stream
<1>20. ASSUME attemptDownload, ~ReceiveEvent, ~ReceiveError PROVE TypeOK'
  BY <1>1, <1>20 DEF TypeOK, ChannelsOK, attemptDownload, Verdict, child, reader, stream, channels
<1>21. ASSUME AbortActive PROVE TypeOK'
  <2>1. CASE active # NoCmd /\ proc[active] = "running"
    <3>1. PICK stays \in BOOLEAN : Ends(active, "bad", stays)
      BY <1>21, <2>1 DEF AbortActive
    <3>2. active \in Streams
      BY <1>1, <2>1 DEF TypeOK
    <3>3. /\ proc' \in [Streams -> {"none", "running", "ok", "bad"}]
          /\ held' \in [Streams -> BOOLEAN]
      BY <1>1, <3>1, <3>2, EndsKeeps
    <3> QED
      BY <1>1, <1>21, <3>3 DEF TypeOK, ChannelsOK, AbortActive, reader, stream, channels
  <2>2. CASE UNCHANGED child
    BY <1>1, <1>21, <2>2 DEF TypeOK, ChannelsOK, AbortActive, child, reader, stream, channels
  <2> QED
    BY <1>21, <2>1, <2>2 DEF AbortActive
<1>22. ASSUME NextAttempt PROVE TypeOK'
  <2>1. cur' \in Attempts
    BY <1>1, <1>22, RoomForAnother DEF NextAttempt, StreamInv, TypeOK
  <2> QED
    BY <1>1, <1>22, <2>1 DEF TypeOK, ChannelsOK, NextAttempt, child, reader, stream, channels
<1> QED
  BY <1>2, <1>3, <1>4, <1>5, <1>6, <1>7, <1>8, <1>9, <1>10, <1>11, <1>12, <1>13, <1>14,
     <1>15, <1>16, <1>17, <1>18, <1>19, <1>20, <1>21, <1>22
     DEF Next, parseProgress, streamBackend, runAttemptsWithRetry, CollectEnd

-----------------------------------------------------------------------------
(* Control.                                                                 *)

(* A stream that has started goes on; one that is closed, or has not        *)
(* started, is left alone.                                                  *)
Onward ==
    \A s \in Streams : \/ run'[s] = run[s]
                       \/ run[s] \notin {"idle", "closed"} /\ run'[s] # "idle"

BackendStep(s) == WriteLine(s) \/ Exit(s) \/ parseProgress(s) \/ streamBackend(s)

(* A step of one backend leaves the other streams and the handler alone.    *)
LEMMA BackendMoves ==
    ASSUME TypeOK, NEW s \in Streams, BackendStep(s)
    PROVE  Onward /\ UNCHANGED <<cur, handler, verdict>>
<1>1. run \in [Streams -> {"idle", "begin", "wait", "drain", "abandon",
                           "report", "close", "closed"}]
  BY DEF TypeOK
<1>2. CASE WriteLine(s) \/ Exit(s) \/ parseProgress(s)
  BY <1>2 DEF Onward, WriteLine, Exit, parseProgress, Read, EndOfStream, Scan, stream, job
<1>3. CASE Start(s)
  BY <1>1, <1>3 DEF Onward, Start, Goto, job
<1>4. CASE Waited(s) \/ ContextDone(s)
  BY <1>1, <1>4 DEF Onward, Waited, ContextDone, Goto, job
<1>5. CASE drainPipe(s)
  BY <1>1, <1>5 DEF Onward, drainPipe, Goto, job
<1>6. CASE Report(s) \/ Close(s)
  BY <1>1, <1>6 DEF Onward, Report, Close, Goto, job
<1> QED
  BY <1>2, <1>3, <1>4, <1>5, <1>6 DEF BackendStep, streamBackend

(* The collector closes the attempt, or starts its CLI.                     *)
LEMMA CollectEndDoes ==
    ASSUME StreamInv, NEW a \in Attempts, CollectEnd(a)
    PROVE  /\ run[Python(a)] = "closed" /\ run[a] = "idle" /\ ~closed[a]
           /\ \/ closed' = [closed EXCEPT ![a] = TRUE] /\ run' = run
              \/ closed' = closed /\ run' = [run EXCEPT ![a] = "begin"]
           /\ UNCHANGED <<child, left, pipe, reader, report, deadline, events, errs,
                          active, job>>
<1>1. closed[Python(a)] => run[Python(a)] = "closed"
  BY Named DEF StreamInv, InStage
<1>2. Collecting(a) /\ closed[Python(a)]
  BY DEF CollectEnd, CollectPythonResult
<1>3. /\ \/ closed' = [closed EXCEPT ![a] = TRUE] /\ run' = run
         \/ closed' = closed /\ run' = [run EXCEPT ![a] = "begin"]
      /\ UNCHANGED <<child, left, pipe, reader, report, deadline, events, errs,
                     active, job>>
  BY DEF CollectEnd, CollectPythonResult, Goto
<1> QED
  BY <1>1, <1>2, <1>3 DEF Collecting

(* The handler gets its verdict on the attempt it reads.                    *)
GetsVerdict ==
    /\ handler = "read"
    /\ handler' \in {"read", "abort", "over"} /\ (handler' = "read" => verdict' = verdict)
    /\ UNCHANGED <<child, left, pipe, reader, stream, closed, active, saw, cur>>

(* Whatever the handler receives, it is about the attempt it reads.         *)
LEMMA AttemptGetsVerdict == ASSUME attemptDownload PROVE GetsVerdict
<1>1. CASE ReceiveEvent
  BY <1>1 DEF ReceiveEvent, Verdict, GetsVerdict
<1>2. CASE ReceiveError
  BY <1>2 DEF ReceiveError, Verdict, GetsVerdict
<1>3. CASE ~ReceiveEvent /\ ~ReceiveError
  BY <1>3 DEF attemptDownload, Verdict, GetsVerdict, channels
<1> QED
  BY <1>1, <1>2, <1>3

(* Every step keeps the order in which the streams are launched.            *)
LEMMA ControlStep ==
    ASSUME StreamInv, [Next]_vars PROVE NoneEarly' /\ AllLaunched' /\ PythonFirst'
<1> USE Named
<1>1. TypeOK /\ NoneEarly /\ AllLaunched /\ PythonFirst /\ cur \in 1..MaxStreams
      /\ cur \in Attempts /\ \A a \in 1..cur : a \in Attempts
  BY DEF StreamInv, TypeOK, Attempts
<1>2. run \in [Streams -> {"idle", "begin", "wait", "drain", "abandon",
                           "report", "close", "closed"}]
  BY <1>1 DEF TypeOK
<1>3. ASSUME UNCHANGED <<run, cur>>, handler' = "launch" => handler = "launch",
             handler' \in {"read", "abort", "next"} => handler \in {"read", "abort", "next"}
      PROVE  NoneEarly' /\ AllLaunched' /\ PythonFirst'
  BY <1>1, <1>3 DEF NoneEarly, AllLaunched, PythonFirst, Launched
<1>4. ASSUME NEW s \in Streams, BackendStep(s)
      PROVE  NoneEarly' /\ AllLaunched' /\ PythonFirst'
  <2>1. Onward /\ UNCHANGED <<cur, handler>>
    BY <1>1, <1>4, BackendMoves
  <2>2. NoneEarly' /\ PythonFirst'
    BY <1>1, <2>1 DEF Onward, NoneEarly, PythonFirst
  <2>3. AllLaunched'
    <3>1. ASSUME NEW a \in 1..cur, Launched(a) PROVE Launched(a)'
      <4>1. a \in Streams /\ Python(a) \in Streams
        BY <1>1
      <4> QED
        BY <2>1, <3>1, <4>1 DEF Onward, Launched
    <3> QED
      BY <1>1, <2>1, <3>1 DEF AllLaunched
  <2> QED
    BY <2>2, <2>3
<1>5. CASE \/ UNCHANGED vars \/ AbortActive
            \/ \E a \in Attempts : CollectEvent(a) \/ CollectError(a)
  <2>1. CASE UNCHANGED <<run, cur, handler>>
    BY <1>3, <2>1
  <2>2. CASE AbortActive
    BY <1>3, <2>2 DEF AbortActive, stream
  <2>3. UNCHANGED vars \/ (\E a \in Attempts : CollectEvent(a) \/ CollectError(a))
        => UNCHANGED <<run, cur, handler>>
    BY DEF vars, stream, job, CollectEvent, CollectError
  <2> QED
    BY <1>5, <2>1, <2>2, <2>3
<1>6. ASSUME NEW a \in Attempts, CollectEnd(a)
      PROVE  NoneEarly' /\ AllLaunched' /\ PythonFirst'
  <2>1. /\ run[Python(a)] = "closed"
        /\ run' = run \/ run' = [run EXCEPT ![a] = "begin"]
        /\ UNCHANGED <<cur, handler>>
    BY <1>6, CollectEndDoes DEF job
  <2>2. a <= cur /\ (a = cur => handler # "launch")
    BY <1>1, <2>1 DEF NoneEarly
  <2>3. NoneEarly'
    BY <1>1, <1>2, <2>1, <2>2 DEF NoneEarly
  <2>4. AllLaunched'
    <3>1. ASSUME NEW b \in 1..cur, Launched(b) PROVE Launched(b)'
      BY <1>1, <1>2, <2>1, <3>1 DEF Launched
    <3> QED
      BY <1>1, <2>1, <3>1 DEF AllLaunched
  <2>5. PythonFirst'
    <3> SUFFICES ASSUME NEW b \in Attempts, run'[b] # "idle"
                 PROVE  run'[Python(b)] \in {"idle", "closed"}
      BY DEF PythonFirst
    <3>1. run'[Python(b)] = run[Python(b)]
      BY <1>2, <2>1
    <3>2. CASE b = a
      BY <2>1, <3>1, <3>2
    <3>3. CASE b # a
      BY <1>1, <1>2, <2>1, <3>1, <3>3 DEF PythonFirst
    <3> QED
      BY <3>2, <3>3
  <2> QED
    BY <2>3, <2>4, <2>5
<1>7. CASE Launch
  <2>1. CASE handler' = "over" /\ run' = run
    BY <1>3, <1>7, <2>1 DEF Launch
  <2>2. ASSUME NEW first \in {cur, Python(cur)}, run' = [run EXCEPT ![first] = "begin"],
               handler' = "read", cur' = cur, handler = "launch"
        PROVE  NoneEarly' /\ AllLaunched' /\ PythonFirst'
    <3>1. first \in Streams /\ AttemptOf(first) = cur
      BY <1>1
    <3>2. NoneEarly'
      BY <1>1, <1>2, <2>2, <3>1 DEF NoneEarly
    <3>3. AllLaunched'
      <4>1. ASSUME NEW a \in 1..cur PROVE Launched(a)'
        <5>1. a \in Streams /\ Python(a) \in Streams
          BY <1>1
        <5>2. CASE a = cur
          BY <1>2, <2>2, <5>1, <5>2 DEF Launched
        <5>3. CASE a # cur
          <6>1. a < cur
            BY <1>1, <5>3
          <6>2. Launched(a)
            BY <1>1, <6>1 DEF AllLaunched
          <6> QED
            BY <1>2, <2>2, <5>1, <6>2 DEF Launched
        <5> QED
          BY <5>2, <5>3
      <4> QED
        BY <1>1, <2>2, <4>1 DEF AllLaunched
    <3>4. PythonFirst'
      <4> SUFFICES ASSUME NEW a \in Attempts, run'[a] # "idle"
                   PROVE  run'[Python(a)] \in {"idle", "closed"}
        BY DEF PythonFirst
      <4>1. run[cur] = "idle" /\ run[Python(cur)] = "idle"
        BY <1>1, <2>2 DEF NoneEarly
      <4>2. CASE a = cur
        <5>1. first = cur
          BY <1>1, <1>2, <2>2, <4>1, <4>2
        <5> QED
          BY <1>1, <1>2, <2>2, <4>1, <4>2, <5>1
      <4>3. CASE a # cur
        <5>1. a # first /\ Python(a) # first
          BY <1>1, <3>1, <4>3
        <5> QED
          BY <1>1, <1>2, <2>2, <5>1 DEF PythonFirst
      <4> QED
        BY <4>2, <4>3
    <3> QED
      BY <3>2, <3>3, <3>4
  <2>3. \/ handler' = "over" /\ run' = run
        \/ \E first \in {cur, Python(cur)} : /\ run' = [run EXCEPT ![first] = "begin"]
                                             /\ handler' = "read"
    BY <1>7 DEF Launch, Goto
  <2> QED
    BY <1>7, <2>1, <2>2, <2>3 DEF Launch
<1>8. CASE attemptDownload
  BY <1>3, <1>8, AttemptGetsVerdict DEF GetsVerdict, stream
<1>9. CASE NextAttempt
  <2>1. /\ run' = run /\ handler = "next"
        /\ \/ cur' = cur /\ handler' = "over"
           \/ cur' = cur + 1 /\ handler' = "launch"
    <3>1. run' = run /\ handler = "next"
      BY <1>9 DEF NextAttempt, stream
    <3>2. \/ cur' = cur /\ handler' = "over"
          \/ cur' = cur + 1 /\ handler' = "launch"
      BY <1>9 DEF NextAttempt
    <3> QED
      BY <3>1, <3>2
  <2>2. CASE cur' = cur /\ handler' = "over"
    BY <1>3, <2>1, <2>2
  <2>3. CASE cur' = cur + 1 /\ handler' = "launch"
    <3>1. \A s \in Streams : run[s] # "idle" => AttemptOf(s) < cur + 1
      BY <1>1 DEF NoneEarly, Attempts
    <3>2. NoneEarly'
      BY <1>1, <2>1, <2>3, <3>1 DEF NoneEarly, Attempts
    <3>3. AllLaunched'
      BY <1>1, <2>1, <2>3 DEF AllLaunched, Launched
    <3> QED
      BY <1>1, <2>1, <3>2, <3>3 DEF PythonFirst
  <2> QED
    BY <2>1, <2>2, <2>3
<1> QED
  BY <1>4, <1>5, <1>6, <1>7, <1>8, <1>9
     DEF Next, BackendStep, CollectEnd, runAttemptsWithRetry

-----------------------------------------------------------------------------
(* The stages of a stream.                                                  *)

(* Every step keeps process, parser and goroutine in the same stage.        *)
LEMMA StageStep ==
    ASSUME StreamInv, [Next]_vars PROVE \A t \in Streams : InStage(t)'
<1> SUFFICES ASSUME NEW t \in Streams PROVE InStage(t)'
  OBVIOUS
<1> USE Named
<1>1. \A s \in Streams : InStage(s)
  BY DEF StreamInv
<1>2. /\ proc \in [Streams -> {"none", "running", "ok", "bad"}]
      /\ parser \in [Streams -> {"off", "on", "done"}]
      /\ run \in [Streams -> {"idle", "begin", "wait", "drain", "abandon",
                              "report", "close", "closed"}]
      /\ deadline \in [Streams -> BOOLEAN] /\ closed \in [Streams -> BOOLEAN]
      /\ DOMAIN errs = Streams
  BY DEF StreamInv, TypeOK, ChannelsOK
<1>3. ASSUME UNCHANGED <<proc, parser, deadline, run, closed, errs>> PROVE InStage(t)'
  BY <1>1, <1>3 DEF InStage
<1>4. ASSUME NEW s \in Streams, BackendStep(s) PROVE InStage(t)'
  <2>1. CASE WriteLine(s) \/ Read(s)
    BY <1>3, <2>1 DEF WriteLine, Read, child, reader, stream, channels
  <2>2. CASE Exit(s)
    BY <1>1, <1>2, <2>2 DEF Exit, Ends, InStage, reader, stream, channels
  <2>3. CASE EndOfStream(s)
    BY <1>1, <1>2, <2>3 DEF EndOfStream, InStage, stream, channels
  <2>4. CASE Scan(s)
    <3>1. errs' = errs \/ errs' = [errs EXCEPT ![s] = Append(@, s)]
      BY <2>4 DEF Scan, send
    <3>2. parser[s] = "on" /\ UNCHANGED <<proc, parser, run, deadline, closed>>
      BY <2>4 DEF Scan, child, stream
    <3> QED
      BY <1>1, <1>2, <3>1, <3>2 DEF InStage
  <2>5. CASE Start(s)
    BY <1>1, <1>2, <2>5 DEF Start, Goto, InStage, channels
  <2>6. CASE Waited(s)
    BY <1>1, <1>2, <2>6 DEF Waited, Goto, InStage, reader, channels
  <2>7. CASE ContextDone(s)
    BY <1>1, <1>2, <2>7 DEF ContextDone, killProcessGroup, Ends, Goto, InStage, reader, channels
  <2>8. CASE drainPipe(s)
    BY <1>1, <1>2, <2>8 DEF drainPipe, Goto, InStage, child, reader, channels
  <2>9. CASE Report(s)
    <3>1. errs' = errs \/ errs' = [errs EXCEPT ![s] = Append(@, s)]
      BY <2>9 DEF Report, send
    <3>2. /\ run[s] = "report" /\ run' = [run EXCEPT ![s] = "close"]
          /\ UNCHANGED <<proc, parser, deadline, closed>>
      BY <2>9 DEF Report, Goto, child
    <3> QED
      BY <1>1, <1>2, <3>1, <3>2 DEF InStage
  <2>10. CASE Close(s)
    BY <1>1, <1>2, <2>10 DEF Close, Goto, InStage, child
  <2> QED
    BY <1>4, <2>1, <2>2, <2>3, <2>4, <2>5, <2>6, <2>7, <2>8, <2>9, <2>10
       DEF BackendStep, parseProgress, streamBackend
<1>5. CASE UNCHANGED vars \/ NextAttempt \/ \E a \in Attempts : CollectEvent(a)
  BY <1>3, <1>5 DEF vars, CollectEvent, NextAttempt, child, reader, stream, channels
<1>6. ASSUME NEW a \in Attempts, CollectError(a) PROVE InStage(t)'
  <2>1. /\ errs' = [errs EXCEPT ![Python(a)] = Tail(@),
                               ![a] = IF saw[a] THEN Append(@, Head(errs[Python(a)])) ELSE @]
        /\ errs[Python(a)] # <<>> /\ run[Python(a)] # "idle"
        /\ UNCHANGED <<proc, parser, deadline, run, closed>>
    BY <1>6 DEF CollectError, Collecting, child, reader, stream
  <2>2. errs'[t] = errs[t] \/ t \in {a, Python(a)}
    BY <1>2, <2>1
  <2> QED
    BY <1>1, <2>1, <2>2 DEF InStage
<1>7. ASSUME NEW a \in Attempts, CollectEnd(a) PROVE InStage(t)'
  <2>1. /\ run[Python(a)] = "closed" /\ run[a] = "idle" /\ ~closed[a]
        /\ \/ closed' = [closed EXCEPT ![a] = TRUE] /\ run' = run
           \/ closed' = closed /\ run' = [run EXCEPT ![a] = "begin"]
        /\ UNCHANGED <<proc, parser, deadline, errs>>
    BY <1>7, CollectEndDoes DEF child, reader
  <2>2. CASE t = a
    BY <1>1, <1>2, <2>1, <2>2 DEF InStage
  <2>3. CASE t # a
    <3>1. run'[t] = run[t] /\ closed'[t] = closed[t]
      BY <1>2, <2>1, <2>3
    <3>2. t \in Attempts => run'[Python(t)] = run[Python(t)]
      BY <1>2, <2>1
    <3> QED
      BY <1>1, <2>1, <3>1, <3>2 DEF InStage
  <2> QED
    BY <2>2, <2>3
<1>8. CASE Launch
  <2>1. /\ handler = "launch" /\ UNCHANGED <<proc, parser, deadline, closed, errs>>
        /\ \A s \in Streams : \/ run'[s] = run[s]
                              \/ run[s] = "idle" /\ run'[s] = "begin" /\ AttemptOf(s) = cur
    <3>1. cur \in Attempts
      BY DEF StreamInv, TypeOK
    <3> QED
      BY <1>2, <1>8, <3>1 DEF Launch, Goto, child, reader, channels
  <2>2. \A s \in Streams : run[s] # "idle" => AttemptOf(s) # cur
    BY <2>1 DEF StreamInv, NoneEarly
  <2>3. t \in Attempts => /\ AttemptOf(Python(t)) = AttemptOf(t)
                          /\ run'[Python(t)] = "idle" => run[Python(t)] = "idle"
    BY <2>1
  <2> QED
    BY <1>1, <1>2, <2>1, <2>2, <2>3 DEF InStage
<1>9. CASE attemptDownload
  <2>1. handler = "read" /\ UNCHANGED <<proc, parser, deadline, run, closed, cur>>
    BY <1>9, AttemptGetsVerdict DEF GetsVerdict, child, reader, stream
  <2>2. \/ errs' = errs
        \/ errs[cur] # <<>> /\ errs' = [errs EXCEPT ![cur] = Tail(@)]
    BY <1>9 DEF attemptDownload, ReceiveEvent, ReceiveError, channels
  <2> QED
    BY <1>1, <1>2, <2>1, <2>2 DEF InStage
<1>10. CASE AbortActive
  BY <1>1, <1>2, <1>10 DEF AbortActive, Ends, InStage, child, reader, stream, channels
<1> QED
  BY <1>4, <1>5, <1>6, <1>7, <1>8, <1>9, <1>10
     DEF Next, BackendStep, CollectEnd, runAttemptsWithRetry

-----------------------------------------------------------------------------
(* Grace periods.                                                           *)

(* No grace period ends with output in the pipe of a stream that is read.   *)
LEMMA GivenUpStep ==
    ASSUME StreamInv, [Next]_vars PROVE \A t \in Streams : NothingGivenUp(t)'
<1> SUFFICES ASSUME NEW t \in Streams PROVE NothingGivenUp(t)'
  OBVIOUS
<1> USE Named
<1>1. NothingGivenUp(t) /\ InStage(t) /\ NoneEarly
  BY DEF StreamInv
<1>2. /\ proc \in [Streams -> {"none", "running", "ok", "bad"}]
      /\ parser \in [Streams -> {"off", "on", "done"}]
      /\ run \in [Streams -> {"idle", "begin", "wait", "drain", "abandon",
                              "report", "close", "closed"}]
      /\ deadline \in [Streams -> BOOLEAN]
      /\ DOMAIN pipe = Streams
  BY DEF StreamInv, TypeOK
<1>3. ASSUME UNCHANGED <<parser, deadline, run, pipe>>, Reading(t)' => Reading(t)
      PROVE  NothingGivenUp(t)'
  BY <1>1, <1>3 DEF NothingGivenUp, Returned
<1>4. ASSUME NEW s \in Streams, BackendStep(s) PROVE NothingGivenUp(t)'
  <2> SUFFICES ASSUME Reading(t) PROVE NothingGivenUp(t)'
    <3>1. UNCHANGED <<cur, handler>>
      BY <1>4, BackendMoves DEF StreamInv
    <3> QED
      BY <3>1 DEF NothingGivenUp, Reading
  <2>1. /\ deadline[t] \/ parser[t] = "done" => pipe[t] = <<>>
        /\ Returned(t) => parser[t] = "done"
    BY <1>1 DEF NothingGivenUp
  <2>2. SUFFICES /\ deadline'[t] \/ parser'[t] = "done" => pipe'[t] = <<>>
                 /\ Returned(t)' => parser'[t] = "done"
    BY DEF NothingGivenUp
  <2>3. CASE WriteLine(s)
    BY <1>1, <1>2, <2>1, <2>3 DEF WriteLine, InStage, Returned, reader, stream
  <2>4. CASE Exit(s) \/ Scan(s)
    BY <2>1, <2>4 DEF Exit, Scan, Returned, child, reader, stream
  <2>5. CASE Read(s)
    BY <1>2, <2>1, <2>5 DEF Read, Returned, stream
  <2>6. CASE EndOfStream(s)
    BY <1>2, <2>1, <2>6 DEF EndOfStream, Returned, stream
  <2>7. CASE Start(s)
    BY <1>1, <1>2, <2>1, <2>7 DEF Start, Goto, InStage, Returned
  <2>8. CASE Waited(s) \/ ContextDone(s)
    BY <1>2, <2>1, <2>8 DEF Waited, ContextDone, Goto, Returned, reader
  <2>9. CASE drainPipe(s)
    <3>1. ~Blocked(t) \/ (buf[t] = <<>> /\ pipe[t] = <<>>)
      BY DEF Blocked, Taken, Reading
    <3>2. UNCHANGED <<pipe, parser>> /\ (parser[s] = "done" \/ Blocked(s))
      BY <2>9 DEF drainPipe, reader
    <3>3. CASE s # t
      BY <1>2, <2>1, <2>9, <3>2, <3>3 DEF drainPipe, Goto, Returned
    <3>4. CASE s = t
      BY <1>2, <2>1, <2>9, <3>1, <3>2, <3>4 DEF drainPipe, Goto, Returned
    <3> QED
      BY <3>3, <3>4
  <2>10. CASE Report(s) \/ Close(s)
    BY <1>2, <2>1, <2>10 DEF Report, Close, Goto, Returned
  <2> QED
    BY <1>4, <2>3, <2>4, <2>5, <2>6, <2>7, <2>8, <2>9, <2>10
       DEF BackendStep, parseProgress, streamBackend
<1>5. CASE UNCHANGED vars \/ \E a \in Attempts : CollectEvent(a) \/ CollectError(a)
  <2>1. UNCHANGED <<parser, deadline, run, pipe, handler, cur>>
    BY <1>5 DEF vars, CollectEvent, CollectError, reader, stream, job
  <2> QED
    BY <1>3, <2>1 DEF Reading
<1>6. ASSUME NEW a \in Attempts, CollectEnd(a) PROVE NothingGivenUp(t)'
  <2>1. /\ run[a] = "idle"
        /\ run' = run \/ run' = [run EXCEPT ![a] = "begin"]
        /\ UNCHANGED <<parser, deadline, pipe, handler, cur>>
    BY <1>6, CollectEndDoes DEF reader, job
  <2> QED
    BY <1>1, <1>2, <2>1 DEF NothingGivenUp, Reading, Returned
<1>7. CASE Launch
  <2>1. /\ handler = "launch" /\ UNCHANGED <<parser, deadline, pipe, cur>>
        /\ \A s \in Streams : run'[s] = run[s] \/ run'[s] = "begin"
    BY <1>2, <1>7 DEF Launch, Goto, reader, channels
  <2>2. AttemptOf(t) = cur => run[t] = "idle"
    BY <1>1, <2>1 DEF NoneEarly
  <2> QED
    BY <1>1, <1>2, <2>1, <2>2 DEF NothingGivenUp, InStage, Reading, Returned
<1>8. CASE attemptDownload
  BY <1>3, <1>8, AttemptGetsVerdict DEF GetsVerdict, Reading, reader, stream
<1>9. CASE AbortActive \/ NextAttempt
  <2>1. handler' # "read"
    BY <1>9 DEF AbortActive, NextAttempt
  <2> QED
    BY <2>1 DEF NothingGivenUp, Reading
<1> QED
  BY <1>4, <1>5, <1>6, <1>7, <1>8, <1>9
     DEF Next, BackendStep, CollectEnd, runAttemptsWithRetry

-----------------------------------------------------------------------------
(* The last resort.                                                         *)

(* The fallback reason is used only when no other can come.                 *)
LEMMA LastResortStep ==
    ASSUME StreamInv, [Next]_vars PROVE LastResort'
<1> USE Named
<1>1. LastResort /\ NoneEarly /\ TypeOK /\ cur \in Attempts /\ cur \in Streams
  BY DEF StreamInv, TypeOK
<1>2. \A s \in Streams : InStage(s) /\ NothingGivenUp(s)
  BY DEF StreamInv
<1>3. /\ parser \in [Streams -> {"off", "on", "done"}]
      /\ run \in [Streams -> {"idle", "begin", "wait", "drain", "abandon",
                              "report", "close", "closed"}]
      /\ closed \in [Streams -> BOOLEAN]
      /\ DOMAIN errs = Streams
  BY DEF StreamInv, TypeOK, ChannelsOK
<1>4. ASSUME UNCHANGED <<handler, cur, verdict>>,
             verdict = "nosignal" =>
                UNCHANGED <<errs[cur], parser[cur], run[cur], closed[cur]>>
      PROVE  LastResort'
  BY <1>1, <1>4 DEF LastResort
<1>5. ASSUME NEW s \in Streams, BackendStep(s) PROVE LastResort'
  <2>1. UNCHANGED <<cur, handler, verdict>>
    BY <1>1, <1>5, BackendMoves
  <2>2. SUFFICES ASSUME verdict = "nosignal"
                 PROVE  UNCHANGED <<errs[cur], parser[cur], run[cur], closed[cur]>>
    BY <1>4, <2>1
  <2>3. parser[cur] # "on" /\ run[cur] \in {"idle", "closed"}
    BY <1>1, <2>2 DEF LastResort
  <2>4. CASE WriteLine(s) \/ Exit(s) \/ Read(s)
    BY <2>1, <2>4 DEF WriteLine, Exit, Read, reader, stream, channels
  <2>5. CASE EndOfStream(s)
    BY <1>3, <2>1, <2>3, <2>5 DEF EndOfStream, stream, channels
  <2>6. CASE Scan(s)
    <3>1. s # cur
      BY <2>3, <2>6 DEF Scan
    <3> QED
      BY <1>1, <1>3, <2>1, <2>6, <3>1 DEF Scan, send, stream
  <2>7. CASE streamBackend(s)
    <3>1. s # cur
      BY <2>3, <2>7 DEF streamBackend, Start, Waited, ContextDone, drainPipe, Report, Close, Goto
    <3>2. CASE Start(s) \/ Waited(s) \/ ContextDone(s) \/ drainPipe(s)
      BY <1>1, <1>3, <2>1, <3>1, <3>2 DEF Start, Waited, ContextDone, drainPipe, Goto, reader, channels
    <3>3. CASE Report(s) \/ Close(s)
      BY <1>1, <1>3, <2>1, <3>1, <3>3 DEF Report, Close, send, Goto
    <3> QED
      BY <2>7, <3>2, <3>3 DEF streamBackend
  <2> QED
    BY <1>5, <2>4, <2>5, <2>6, <2>7 DEF BackendStep, parseProgress
<1>6. CASE UNCHANGED vars \/ \E a \in Attempts : CollectEvent(a)
  BY <1>4, <1>6 DEF vars, CollectEvent, reader, stream, channels, job
<1>7. ASSUME NEW a \in Attempts, Collecting(a), verdict = "nosignal"
      PROVE  cur # a /\ cur # Python(a)
  <2>1. run[Python(a)] # "idle" /\ ~closed[a]
    BY <1>7 DEF Collecting
  <2>2. a = cur => handler # "launch"
    BY <1>1, <2>1 DEF NoneEarly
  <2> QED
    BY <1>1, <1>7, <2>1, <2>2 DEF LastResort
<1>8. ASSUME NEW a \in Attempts, CollectError(a) \/ CollectEnd(a) PROVE LastResort'
  <2>1. verdict = "nosignal" => cur # a /\ cur # Python(a)
    BY <1>7, <1>8 DEF CollectError, CollectEnd, CollectPythonResult
  <2>2. CASE CollectError(a)
    <3>1. /\ errs' = [errs EXCEPT ![Python(a)] = Tail(@),
                                 ![a] = IF saw[a] THEN Append(@, Head(errs[Python(a)])) ELSE @]
          /\ UNCHANGED <<parser, run, closed, cur, handler, verdict>>
      BY <2>2 DEF CollectError, reader, stream, job
    <3> QED
      BY <1>1, <1>3, <1>4, <2>1, <3>1
  <2>3. CASE CollectEnd(a)
    <3>1. /\ \/ closed' = [closed EXCEPT ![a] = TRUE] /\ run' = run
             \/ closed' = closed /\ run' = [run EXCEPT ![a] = "begin"]
          /\ UNCHANGED <<parser, errs, cur, handler, verdict>>
      BY <2>3, CollectEndDoes DEF reader, job
    <3> QED
      BY <1>1, <1>3, <1>4, <2>1, <3>1
  <2> QED
    BY <1>8, <2>2, <2>3
<1>9. CASE Launch
  <2>1. verdict' = "none"
    BY <1>9 DEF Launch
  <2> QED
    BY <2>1 DEF LastResort
<1>10. CASE attemptDownload
  <2>1. GetsVerdict
    BY <1>10, AttemptGetsVerdict
  <2>2. verdict' \in {"none", "completed", "failed"} \/ (Drained /\ UNCHANGED <<errs, closed>>)
    BY <1>1, <1>10, <2>1 DEF attemptDownload, ReceiveEvent, ReceiveError, Verdict, GetsVerdict,
       LastResort, channels
  <2>3. CASE verdict' # "nosignal"
    BY <1>1, <2>1, <2>3 DEF GetsVerdict, LastResort
  <2>4. CASE Drained /\ UNCHANGED <<errs, closed>>
    <3>1. handler = "read" /\ UNCHANGED <<parser, run, cur>> /\ closed'[cur] /\ errs'[cur] = <<>>
      BY <2>1, <2>4 DEF GetsVerdict, Drained, reader, stream
    <3>2. run[cur] \in {"idle", "closed"}
      BY <1>1, <1>2, <3>1, <2>4 DEF InStage
    <3>3. parser[cur] # "on"
      <4>1. Reading(cur)
        BY <1>1, <3>1 DEF Reading
      <4>2. CASE run[cur] = "closed"
        BY <1>1, <1>2, <4>1, <4>2 DEF NothingGivenUp, Returned
      <4>3. CASE run[cur] = "idle"
        BY <1>1, <1>2, <4>3 DEF InStage
      <4> QED
        BY <3>2, <4>2, <4>3
    <3> QED
      BY <1>1, <2>1, <3>1, <3>2, <3>3 DEF LastResort, GetsVerdict
  <2> QED
    BY <2>2, <2>3, <2>4
<1>11. CASE AbortActive
  <2>1. handler = "abort" /\ handler' = "next"
        /\ UNCHANGED <<cur, verdict, errs, parser, run, closed>>
    BY <1>11 DEF AbortActive, reader, stream, channels
  <2> QED
    BY <1>1, <2>1 DEF LastResort
<1>12. CASE NextAttempt
  <2>1. UNCHANGED <<verdict, errs, parser, run, closed>> /\ handler = "next"
    BY <1>12 DEF NextAttempt, reader, stream, channels
  <2>2. CASE cur' = cur /\ handler' = "over"
    BY <1>1, <2>1, <2>2 DEF LastResort
  <2>3. CASE cur' = cur + 1 /\ handler' = "launch"
    <3>1. cur + 1 \in Attempts
      BY <1>1, <1>12, <2>3, RoomForAnother DEF NextAttempt, StreamInv
    <3>2. cur + 1 \in Streams /\ ~(cur + 1 <= cur)
      BY <1>1, <3>1 DEF Attempts
    <3>3. run[cur + 1] = "idle" /\ run[Python(cur + 1)] = "idle"
      BY <1>1, <3>1, <3>2 DEF NoneEarly
    <3>4. errs[cur + 1] = <<>> /\ parser[cur + 1] # "on"
      BY <1>2, <3>2, <3>3, <1>3 DEF InStage
    <3> QED
      BY <2>1, <2>3, <3>2, <3>3, <3>4 DEF LastResort
  <2>4. \/ cur' = cur /\ handler' = "over"
        \/ cur' = cur + 1 /\ handler' = "launch"
    BY <1>12 DEF NextAttempt
  <2> QED
    BY <2>2, <2>3, <2>4
<1> QED
  BY <1>5, <1>6, <1>8, <1>9, <1>10, <1>11, <1>12
     DEF Next, BackendStep, CollectEnd, runAttemptsWithRetry

-----------------------------------------------------------------------------

(* The streams of a job, its handler and the collector between them keep    *)
(* their invariant, however many attempts the job makes.                    *)
THEOREM StreamInvariant == Spec => []StreamInv
<1>1. StreamInv /\ [Next]_vars => StreamInv'
  <2> SUFFICES ASSUME StreamInv, [Next]_vars PROVE StreamInv'
    OBVIOUS
  <2>1. TypeOK' /\ LastResort'
    BY TypeStep, LastResortStep
  <2>2. NoneEarly' /\ AllLaunched' /\ PythonFirst'
    BY ControlStep
  <2>3. \A s \in Streams : InStage(s)' /\ NothingGivenUp(s)'
    BY StageStep, GivenUpStep
  <2> QED
    BY <2>1, <2>2, <2>3 DEF StreamInv
<1> QED
  BY <1>1, InitKeeps, PTL DEF Spec

(* Every variable keeps its type, no channel holds more than its capacity,  *)
(* and no attempt is made beyond the bound of streams.                      *)
THEOREM StreamTypeCorrect == Spec => []TypeOK
<1>1. StreamInv => TypeOK
  BY DEF StreamInv
<1> QED
  BY <1>1, StreamInvariant, PTL

(* No byte a backend wrote is given up, neither to the grace periods nor to *)
(* the kill, while the handler waits for the verdict on its attempt.        *)
THEOREM NoOutputLost == Spec => []NothingLostWhileRead
<1>1. StreamInv => NothingLostWhileRead
  BY DEF StreamInv, NothingLostWhileRead, NothingGivenUp, Reading, AllRead
<1> QED
  BY <1>1, StreamInvariant, PTL

(* "cli exited without completion signal" replaces no reason a backend or   *)
(* its exit status gave: an error that is still to come, or that lies in    *)
(* the channel, keeps the handler waiting.                                  *)
THEOREM ReasonsAreKept == Spec => []FailureHasReason
<1>1. StreamInv => FailureHasReason
  BY DEF StreamInv, LastResort, FailureHasReason
<1> QED
  BY <1>1, StreamInvariant, PTL

(* In every attempt Python is dead when the CLI it falls back to starts,    *)
(* and does not start again: the two never share the job's directory.       *)
THEOREM PhasesAreApart == Spec => []PhasesDoNotOverlap
<1>1. StreamInv => PhasesDoNotOverlap
  BY Named DEF StreamInv, PythonFirst, InStage, PhasesDoNotOverlap
<1> QED
  BY <1>1, StreamInvariant, PTL
=============================================================================
