------------------------------ MODULE JobStore ------------------------------
(***************************************************************************)
(* The jobs table of internal/queue: one row per nzo_id, shared by the     *)
(* active queue and the history (column is_history).  SQLiteQueue opens a  *)
(* single connection, so every SQL statement is atomic: each operator      *)
(* below is what one statement (or, for RecoverStuckJobs, one transaction) *)
(* makes of the whole table.                                               *)
(*                                                                         *)
(* A row keeps the columns that control flow depends on: url, status,      *)
(* is_history and recover_count.  nzo_ids are numbered in the order of     *)
(* their INSERT, which is also the order of time_added.                    *)
(***************************************************************************)
EXTENDS Naturals, FiniteSets

CONSTANTS
    MaxJobs,        \* bound: how many nzo_ids are ever created
    Urls,           \* the Spotify URLs requests may name
    MaxRecoveries   \* queue.MaxRecoveries

ASSUME StoreAssumption ==
    /\ MaxJobs \in Nat \ {0}
    /\ MaxRecoveries \in Nat
    /\ "" \notin Urls

Ids == 1..MaxJobs

ActiveStatuses == {"Queued", "Paused", "Downloading"}
TerminalStatuses == {"Completed", "Failed"}
Statuses == ActiveStatuses \cup TerminalStatuses

(* A row, and the value that stands for "no such row".                      *)
Row == [url : Urls \cup {""}, status : Statuses \cup {"None"},
        hist : BOOLEAN, recover : Nat]
NoRow == [url |-> "", status |-> "None", hist |-> FALSE, recover |-> 0]

Present(row) == row.status # "None"
Active(row) == Present(row) /\ ~row.hist
InHistory(row) == Present(row) /\ row.hist

-----------------------------------------------------------------------------

(* INSERT: is_history and recover_count take their column defaults.         *)
Add(table, i, url) ==
    [table EXCEPT ![i] = [url |-> url, status |-> "Queued",
                          hist |-> FALSE, recover |-> 0]]

(* UPDATE ... WHERE nzo_id = ?: writes every column of the caller's struct  *)
(* except url and is_history, whichever side of the table the row is on.    *)
Update(table, i, status, recover) ==
    IF Present(table[i])
    THEN [table EXCEPT ![i].status = status, ![i].recover = recover]
    ELSE table

Delete(table, i) == [table EXCEPT ![i] = NoRow]

DeleteFromHistory(table, i) ==
    IF InHistory(table[i]) THEN [table EXCEPT ![i] = NoRow] ELSE table

MoveToQueue(table, i) ==
    IF Present(table[i])
    THEN [table EXCEPT ![i].hist = FALSE, ![i].recover = 0]
    ELSE table

MoveToHistory(table, i) ==
    IF Present(table[i]) THEN [table EXCEPT ![i].hist = TRUE] ELSE table

(* Mutant of Recovered: the exhausted job is archived with its old status.  *)
RecoveredUnmarked(row) ==
    IF ~(Active(row) /\ row.status = "Downloading") THEN row
    ELSE IF row.recover >= MaxRecoveries
         THEN [row EXCEPT !.hist = TRUE]
         ELSE [row EXCEPT !.status = "Queued", !.recover = @ + 1]

(* The startup sweep over rows a dead process left Downloading.             *)
Recovered(row) ==
    IF ~(Active(row) /\ row.status = "Downloading") THEN row
    ELSE IF row.recover >= MaxRecoveries
         THEN [url |-> row.url, status |-> "Failed", hist |-> TRUE,
               recover |-> row.recover]
         ELSE [url |-> row.url, status |-> "Queued", hist |-> FALSE,
               recover |-> row.recover + 1]

(* Mutant of RecoverStuckJobs: the sweep is not run.                        *)
RecoverNothing(table) == table

RecoverStuckJobs(table) == [i \in Ids |-> Recovered(table[i])]

(* The tables PruneHistory(keep) may leave: `keep' history rows survive.    *)
(* Which ones depends on completed_at, which the table does not carry, so   *)
(* any choice of survivors is allowed.  keep = 0 disables pruning.          *)
PruneHistory(table, keep) ==
    LET history == {i \in Ids : InHistory(table[i])}
    IN  IF keep = 0 \/ Cardinality(history) <= keep
        THEN {table}
        ELSE {[i \in Ids |-> IF i \in history \ kept THEN NoRow ELSE table[i]] :
                kept \in {s \in SUBSET history : Cardinality(s) = keep}}

(* SELECT ... WHERE is_history = 0 AND status IN (Queued, Downloading):     *)
(* is there a job addurl would answer with instead of creating one?         *)
FindActiveBySpotifyURL(table, url) ==
    {i \in Ids : /\ Active(table[i])
                 /\ table[i].url = url
                 /\ table[i].status \in {"Queued", "Downloading"}}

(* List: the active rows whose position in time_added order falls in        *)
(* [start, start + limit), and the number of active rows.                   *)
ActiveIds(table) == {i \in Ids : Active(table[i])}

List(table, start, limit) ==
    {i \in ActiveIds(table) :
        LET position == Cardinality({j \in ActiveIds(table) : j < i})
        IN  start <= position /\ position < start + limit}
=============================================================================
