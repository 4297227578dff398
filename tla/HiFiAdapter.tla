----------------------------- MODULE HiFiAdapter -----------------------------
(***************************************************************************)
(* The adapter's answer to one track request of a CLI run (hifi_adapter.go): *)
(* hifi-api answers with a manifest, or with a ticket when all its          *)
(* credentials are busy, and the ticket is polled for a while.             *)
(*                                                                         *)
(* Time is counted in intervals of the poll.                               *)
(***************************************************************************)
EXTENDS Ages

CONSTANT playbackQueueWait

ASSUME AdapterAssumption == playbackQueueWait \in Nat

VARIABLES
    request,  \* the adapter's request, per worker
    waited    \* since the ticket was given

adapterVars == <<request, waited>>

(* What get returns: an error, or an envelope, which may be a ticket, and   *)
(* may have a manifest of a known type with a URL in it.                    *)
Envelopes == [status : {"", "pending", "processing", "failed", "cancelled"},
              statusURL : BOOLEAN, manifest : BOOLEAN]
Error == [status |-> "error", statusURL |-> FALSE, manifest |-> FALSE]

AdapterInit ==
    /\ request = [w \in Workers |-> "none"]
    /\ waited = [w \in Workers |-> 0]

RequestGoto(w, pc) == request' = [request EXCEPT ![w] = pc]

(* The manifest of a final answer is decoded to one URL.                    *)
decodeManifest(resp) == IF resp.manifest THEN "served" ELSE "refused"

(* The CLI asks the adapter for a track.                                    *)
AskTrack(w) ==
    /\ request[w] = "none"
    /\ RequestGoto(w, "asking")
    /\ UNCHANGED waited

(* ResolveTrackURL up to its first answer.                                  *)
ResolveTrackURL(w) ==
    /\ request[w] = "asking"
    /\ \E resp \in Envelopes \cup {Error} :
          RequestGoto(w, IF resp.status = "pending" /\ resp.statusURL THEN "waiting"
                         ELSE decodeManifest(resp))
    /\ waited' = [waited EXCEPT ![w] = 0]

(* A bug: a ticket is polled for as long as it is pending.                  *)
PollForEver(w) ==
    /\ request[w] = "waiting"
    /\ RequestGoto(w, "sleeping")
    /\ UNCHANGED waited

(* The head of awaitPlayback's loop.                                        *)
CheckQueueWait(w) ==
    /\ request[w] = "waiting"
    /\ RequestGoto(w, IF waited[w] > playbackQueueWait THEN "refused" ELSE "sleeping")
    /\ UNCHANGED waited

(* The poll after the sleep.                                                *)
PollTicket(w) ==
    /\ request[w] = "due"
    /\ \E resp \in Envelopes \cup {Error} :
          RequestGoto(w, IF resp.status \in {"pending", "processing"} THEN "waiting"
                         ELSE IF resp.status \in {"failed", "cancelled", "error"} THEN "refused"
                         ELSE decodeManifest(resp))
    /\ UNCHANGED waited

(* The CLI has its answer, or has stopped waiting for it.  The adapter goes *)
(* on alone; nobody sees what becomes of that.                              *)
DropRequest(w) ==
    /\ request' = [request EXCEPT ![w] = "none"]
    /\ waited' = [waited EXCEPT ![w] = 0]

AdapterTick ==
    /\ request' = [w \in Workers |-> IF request[w] = "sleeping" THEN "due" ELSE request[w]]
    /\ waited' = [w \in Workers |->
           IF waited[w] <= playbackQueueWait /\ request[w] \in {"waiting", "sleeping", "due"}
           THEN waited[w] + 1 ELSE waited[w]]

answerTrack(w) == ResolveTrackURL(w) \/ CheckQueueWait(w) \/ PollTicket(w)

AdapterTypeOK ==
    /\ request \in [Workers ->
          {"none", "asking", "waiting", "sleeping", "due", "served", "refused"}]
    /\ waited \in [Workers -> 0..(playbackQueueWait + 1)]

(* Every track request is answered, also if hifi-api never takes its turn.  *)
EveryTrackAnswered ==
    \A w \in Workers : request[w] = "asking" ~> request[w] \in {"none", "served", "refused"}
=============================================================================
