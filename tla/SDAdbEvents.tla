---------------------------- MODULE SDAdbEvents ----------------------------
(***************************************************************************)
(* The file event log of the store (src/sda/cmd/finalize/finalize.md):     *)
(* UpdateFileEventLog appends rows, GetFileStatus reads the latest row of  *)
(* a correlation id by id, and getUserFiles shows each file's latest row   *)
(* by started_at.  A row gets started_at when its INSERT statement starts  *)
(* (the column default now()) and its id from the sequence when the row is *)
(* written, so two concurrent INSERTs can take the two in opposite orders. *)
(* Every round trip may fail; when LostReplies holds an INSERT may commit  *)
(* while its reply is lost.                                                *)
(***************************************************************************)
EXTENDS Naturals, Sequences

CONSTANTS
    Sessions,     \* concurrent callers (workers and the API)
    FileIDs,      \* file ids
    Events,       \* event names
    CorrIDs,      \* correlation ids
    RetryTimes,   \* database.RetryTimes
    MaxClock,     \* bound on statement starts, so on now()
    LostReplies   \* whether a committed INSERT's reply can be lost

ASSUME EventsAssumption ==
    /\ RetryTimes \in Nat \ {0}
    /\ MaxClock \in Nat
    /\ LostReplies \in BOOLEAN
    /\ FileIDs # {} /\ Events # {} /\ CorrIDs # {}

VARIABLES
    log,      \* sda.file_event_log in id order: row i has id i
    clock,    \* now() of the last statement start
    pc,       \* the statement each session executes next
    count,    \* attempts made by the session's retry loop
    arg,      \* file, event and correlation id of the session's call
    stamp,    \* now() taken by the session's INSERT statement
    own,      \* history: id of the last row the session inserted, or 0
    readID,   \* id of the row the session's GetFileStatus returned, or 0
    result    \* what the session's last call returned

vars == <<log, clock, pc, count, arg, stamp, own, readID, result>>

Rows == [file : FileIDs, event : Events, corr : CorrIDs, started : 1..MaxClock]
Args == [file : FileIDs, event : Events, corr : CorrIDs]

TypeOK ==
    /\ log \in Seq(Rows)
    /\ clock \in 0..MaxClock
    /\ pc \in [Sessions -> {"idle", "append", "append_exec", "status"}]
    /\ count \in [Sessions -> 0..RetryTimes]
    /\ arg \in [Sessions -> Args]
    /\ stamp \in [Sessions -> 0..MaxClock]
    /\ own \in [Sessions -> 0..Len(log)]
    /\ readID \in [Sessions -> 0..Len(log)]
    /\ result \in [Sessions -> {"none", "ok", "err"}]

Init ==
    /\ log = <<>>
    /\ clock = 0
    /\ pc = [s \in Sessions |-> "idle"]
    /\ count = [s \in Sessions |-> 0]
    /\ arg = [s \in Sessions |-> CHOOSE a \in Args : TRUE]
    /\ stamp = [s \in Sessions |-> 0]
    /\ own = [s \in Sessions |-> 0]
    /\ readID = [s \in Sessions |-> 0]
    /\ result = [s \in Sessions |-> "none"]

(* The ids of the rows of correlation id c.                                *)
IdsOf(c) == {i \in 1..Len(log) : log[i].corr = c}

(* Mutant: the loop condition tested with <= RetryTimes.                  *)
RetryOffByOne(s, st) ==
    /\ count' = [count EXCEPT ![s] = @ + 1]
    /\ IF count[s] + 1 <= RetryTimes
         THEN /\ pc' = [pc EXCEPT ![s] = st]
              /\ UNCHANGED result
         ELSE /\ pc' = [pc EXCEPT ![s] = "idle"]
              /\ result' = [result EXCEPT ![s] = "err"]

(* The session's loop "for count == 0 || (err != nil && count < RetryTimes)" *)
(* after a failed attempt: go round again at statement st, or return err.  *)
Retry(s, st) ==
    /\ count' = [count EXCEPT ![s] = @ + 1]
    /\ IF count[s] + 1 < RetryTimes
         THEN /\ pc' = [pc EXCEPT ![s] = st]
              /\ UNCHANGED result
         ELSE /\ pc' = [pc EXCEPT ![s] = "idle"]
              /\ result' = [result EXCEPT ![s] = "err"]

(* The attempt succeeded: count++ and the loop ends.                       *)
ReturnOK(s) ==
    /\ pc' = [pc EXCEPT ![s] = "idle"]
    /\ count' = [count EXCEPT ![s] = @ + 1]
    /\ result' = [result EXCEPT ![s] = "ok"]

StartUpdateFileEventLog(s, a) ==
    /\ pc[s] = "idle"
    /\ pc' = [pc EXCEPT ![s] = "append"]
    /\ count' = [count EXCEPT ![s] = 0]
    /\ arg' = [arg EXCEPT ![s] = a]
    /\ readID' = [readID EXCEPT ![s] = 0]
    /\ result' = [result EXCEPT ![s] = "none"]
    /\ UNCHANGED <<log, clock, stamp, own>>

(* db.Exec of the INSERT starts: now() is fixed for the statement.          *)
AppendStart(s) ==
    /\ pc[s] = "append"
    /\ clock < MaxClock
    /\ clock' = clock + 1
    /\ stamp' = [stamp EXCEPT ![s] = clock + 1]
    /\ pc' = [pc EXCEPT ![s] = "append_exec"]
    /\ UNCHANGED <<log, count, arg, own, readID, result>>

(* The row is written with the next id of the sequence and commits.       *)
AppendRow(s) ==
    log' = Append(log, [file |-> arg[s].file, event |-> arg[s].event,
                        corr |-> arg[s].corr, started |-> stamp[s]])

(* Mutant: an upsert, INSERT ... ON CONFLICT (file_id) DO UPDATE, which   *)
(* keeps one status row per file and rewrites it.                         *)
AppendInsertUpsert(s) ==
    /\ pc[s] = "append_exec"
    /\ IF \E i \in 1..Len(log) : log[i].file = arg[s].file
         THEN LET i == CHOOSE i \in 1..Len(log) : log[i].file = arg[s].file
              IN  /\ log' = [log EXCEPT ![i] = [file |-> arg[s].file,
                                   event |-> arg[s].event, corr |-> arg[s].corr,
                                   started |-> stamp[s]]]
                  /\ own' = [own EXCEPT ![s] = i]
         ELSE /\ AppendRow(s)
              /\ own' = [own EXCEPT ![s] = Len(log) + 1]
    /\ ReturnOK(s)
    /\ UNCHANGED <<clock, arg, stamp, readID>>

AppendInsert(s) ==
    /\ pc[s] = "append_exec"
    /\ AppendRow(s)
    /\ own' = [own EXCEPT ![s] = Len(log) + 1]
    /\ ReturnOK(s)
    /\ UNCHANGED <<clock, arg, stamp, readID>>

(* The INSERT commits but its reply is lost: the loop inserts again.      *)
AppendInsertLost(s) ==
    /\ LostReplies
    /\ pc[s] = "append_exec"
    /\ AppendRow(s)
    /\ own' = [own EXCEPT ![s] = Len(log) + 1]
    /\ Retry(s, "append")
    /\ UNCHANGED <<clock, arg, stamp, readID>>

(* The INSERT fails, or affects zero rows: the loop goes round.           *)
AppendFail(s) ==
    /\ pc[s] = "append_exec"
    /\ Retry(s, "append")
    /\ UNCHANGED <<log, clock, arg, stamp, own, readID>>

StartGetFileStatus(s, c) ==
    /\ pc[s] = "idle"
    /\ pc' = [pc EXCEPT ![s] = "status"]
    /\ count' = [count EXCEPT ![s] = 0]
    /\ arg' = [arg EXCEPT ![s].corr = c]
    /\ readID' = [readID EXCEPT ![s] = 0]
    /\ result' = [result EXCEPT ![s] = "none"]
    /\ UNCHANGED <<log, clock, stamp, own>>

(* Mutant: the rows ordered by id ascending.                               *)
LatestByIDAsc(c) == CHOOSE i \in IdsOf(c) : \A j \in IdsOf(c) : i <= j

(* SELECT event FROM sda.file_event_log WHERE correlation_id = $1          *)
(* ORDER BY id DESC LIMIT 1.                                               *)
LatestByID(c) == CHOOSE i \in IdsOf(c) : \A j \in IdsOf(c) : j <= i

(* The query returns a row; with no row, Scan fails with sql.ErrNoRows,    *)
(* which the loop retries like any other error.                            *)
StatusRead(s) ==
    /\ pc[s] = "status"
    /\ \/ /\ IdsOf(arg[s].corr) # {}
          /\ readID' = [readID EXCEPT ![s] = LatestByID(arg[s].corr)]
          /\ ReturnOK(s)
       \/ /\ IdsOf(arg[s].corr) = {}
          /\ Retry(s, "status")
          /\ UNCHANGED readID
    /\ UNCHANGED <<log, clock, arg, stamp, own>>

StatusFail(s) ==
    /\ pc[s] = "status"
    /\ Retry(s, "status")
    /\ UNCHANGED <<log, clock, arg, stamp, own, readID>>

Next ==
    \E s \in Sessions :
        \/ \E a \in Args : StartUpdateFileEventLog(s, a)
        \/ \E c \in CorrIDs : StartGetFileStatus(s, c)
        \/ AppendStart(s)
        \/ AppendInsert(s)
        \/ AppendInsertLost(s)
        \/ AppendFail(s)
        \/ StatusRead(s)
        \/ StatusFail(s)

Spec == Init /\ [][Next]_vars

-----------------------------------------------------------------------------
(* The subquery of getUserFiles: SELECT DISTINCT ON (file_id) ... ORDER BY  *)
(* file_id, started_at DESC, the row of file f that started last.          *)
LatestByStarted(f) ==
    CHOOSE i \in 1..Len(log) :
        /\ log[i].file = f
        /\ \A j \in 1..Len(log) : log[j].file = f => log[j].started <= log[i].started

(* A session that appended an event and then asks GetFileStatus for the    *)
(* same correlation id is answered with its own row or a later one: the    *)
(* INSERT commits before UpdateFileEventLog returns, ids only grow, and    *)
(* the query takes the highest id.                                         *)
ReadYourWrites ==
    \A s \in Sessions :
        /\ pc[s] = "idle" /\ result[s] = "ok" /\ readID[s] # 0
        /\ own[s] # 0 /\ log[own[s]].corr = arg[s].corr
        => readID[s] >= own[s]

(* For a file whose events all carry one correlation id, GetFileStatus     *)
(* (latest by id) and the status getUserFiles lists (latest by started_at) *)
(* agree, as the spec's ordering guarantee (section 5: per correlation id  *)
(* the log is strictly increasing in started_at) would make them.          *)
StatusViewsAgree ==
    \A f \in FileIDs, c \in CorrIDs :
        /\ IdsOf(c) # {}
        /\ \A i \in 1..Len(log) : (log[i].file = f) <=> (log[i].corr = c)
        => log[LatestByID(c)].event = log[LatestByStarted(f)].event

-----------------------------------------------------------------------------
(* The log as the spec describes it: the rows without their started_at,    *)
(* and, for each session, the argument of its running UpdateFileEventLog   *)
(* call.                                                                   *)
NoCall == [none |-> TRUE]

EntryOf(row) == [file |-> row.file, event |-> row.event, corr |-> row.corr]

Appending(s) == pc[s] \in {"append", "append_exec"}

EventLog == INSTANCE FileEventLog
    WITH Callers <- Sessions, Entries <- Args, Idle <- NoCall,
         events <- [i \in 1..Len(log) |-> EntryOf(log[i])],
         pending <- [s \in Sessions |-> IF Appending(s) THEN arg[s] ELSE NoCall]

(* The event log is append-only (spec section 4.1: no event row is ever   *)
(* updated or deleted), and every row it gains carries the arguments of a  *)
(* running UpdateFileEventLog call, possibly more than once after a lost   *)
(* reply; status reads change nothing.                                     *)
FileEventLogSpec == EventLog!Spec

=============================================================================
