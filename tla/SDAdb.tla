------------------------------- MODULE SDAdb -------------------------------
(***************************************************************************)
(* The event-logged file store of the Sensitive Data Archive: the SDAdb    *)
(* type of package database (sda/internal/database/database.go, found in   *)
(* src/sda/cmd/finalize/finalize.md from line 148).                        *)
(*                                                                         *)
(* The tables files, file_event_log, datasets and file_dataset are the     *)
(* state.  Several Sessions (worker goroutines and API handlers sharing    *)
(* the connection pool) call the store concurrently.  A call that runs a   *)
(* single SQL statement is one atomic action.  A call that runs several    *)
(* statements (CheckAccessionIDExists, MapFilesToDataset) is one action   *)
(* per statement, so the statements of different sessions interleave.      *)
(* Every statement of a retried call may fail transiently (a dropped       *)
(* connection, a database restart); the call's retry loop then starts a    *)
(* new attempt, at most RetryTimes attempts in all.                        *)
(***************************************************************************)
EXTENDS Naturals, Sequences, FiniteSets

CONSTANTS
    Sessions,       \* concurrent callers of the store
    FileIDs,        \* identifiers register_file may hand out
    Users,          \* submission users
    Paths,          \* submission file paths
    AccessionIDs,   \* stable ids
    DatasetIDs,     \* dataset stable ids
    Events,         \* the file_event_log event names the callers write
    RetryTimes,     \* attempts of a retrying call (database.RetryTimes)
    MaxLog,         \* bound on the length of file_event_log
    NoRow,          \* no files row for this id yet
    NoAcc,          \* stable_id is NULL
    LostReplies     \* whether a committed write's reply can be lost

ASSUME RetryTimesAssumption == RetryTimes \in Nat \ {0}
ASSUME MaxLogAssumption == MaxLog \in Nat
ASSUME NonEmptyAssumption ==
    FileIDs # {} /\ AccessionIDs # {} /\ DatasetIDs # {}
ASSUME LostRepliesAssumption == LostReplies \in BOOLEAN
ASSUME SentinelAssumption ==
    /\ NoRow \notin Users \X Paths
    /\ NoAcc \notin AccessionIDs

VARIABLES
    fileRow,      \* files.(submission_user, submission_file_path), or NoRow
    stableID,     \* files.stable_id
    eventLog,     \* file_event_log, in insertion (id) order
    datasets,     \* datasets.stable_id of the rows of datasets
    fileDataset,  \* file_dataset rows <<file_id, dataset stable id>>
    pc,           \* the statement each session executes next
    count,        \* attempt number of the session's retry loop
    fileArg,      \* file argument of the session's accession call
    accArg,       \* accession argument of the session's accession call
    dsArg,        \* dataset argument of MapFilesToDataset
    accsArg,      \* accession list of MapFilesToDataset
    todo,         \* accessions the current attempt has not yet mapped
    txRows,       \* rows the open transaction has inserted: <<acc, file>>
    committed,    \* history: accessions the last mapping call committed
    call,         \* the session's current or last multi-statement call
    result        \* what that call returned

store == <<fileRow, stableID, eventLog, datasets, fileDataset>>
args == <<fileArg, accArg, dsArg, accsArg>>
session == <<pc, count, args, todo, txRows, committed, call, result>>
vars == <<store, session>>

(* Statements a session can be about to execute.                          *)
AccSteps == {"acc_same", "acc_count", "acc_set"}
MapSteps == {"map_dataset", "map_begin", "map_lookup", "map_commit"}
PCs == {"idle"} \cup AccSteps \cup MapSteps

Calls == {"none", "AssignAccession", "MapFilesToDataset"}
Results == {"none", "ok", "err", "crash", "same", "duplicate"}

(* Placeholder values of the arguments a call does not take.               *)
AnyFile == CHOOSE f \in FileIDs : TRUE
AnyAcc == CHOOSE a \in AccessionIDs : TRUE
AnyDataset == CHOOSE d \in DatasetIDs : TRUE

Registered == {f \in FileIDs : fileRow[f] # NoRow}

(* The files holding a stable id: SELECT id FROM sda.files WHERE           *)
(* stable_id = $1.                                                         *)
HoldersOf(a) == {f \in FileIDs : stableID[f] = a}

StoreTypeOK ==
    /\ fileRow \in [FileIDs -> (Users \X Paths) \cup {NoRow}]
    /\ stableID \in [FileIDs -> AccessionIDs \cup {NoAcc}]
    /\ eventLog \in Seq([file : FileIDs, event : Events \cup {"registered"}])
    /\ datasets \subseteq DatasetIDs
    /\ fileDataset \subseteq FileIDs \X DatasetIDs

SessionTypeOK ==
    /\ pc \in [Sessions -> PCs]
    /\ count \in [Sessions -> 1..RetryTimes]
    /\ fileArg \in [Sessions -> FileIDs]
    /\ accArg \in [Sessions -> AccessionIDs]
    /\ dsArg \in [Sessions -> DatasetIDs]
    /\ accsArg \in [Sessions -> SUBSET AccessionIDs]
    /\ todo \in [Sessions -> SUBSET AccessionIDs]
    /\ txRows \in [Sessions -> SUBSET (AccessionIDs \X FileIDs)]
    /\ committed \in [Sessions -> SUBSET AccessionIDs]
    /\ call \in [Sessions -> Calls]
    /\ result \in [Sessions -> Results]

TypeOK == StoreTypeOK /\ SessionTypeOK

Init ==
    /\ fileRow = [f \in FileIDs |-> NoRow]
    /\ stableID = [f \in FileIDs |-> NoAcc]
    /\ eventLog = <<>>
    /\ datasets = {}
    /\ fileDataset = {}
    /\ pc = [s \in Sessions |-> "idle"]
    /\ count = [s \in Sessions |-> 1]
    /\ fileArg = [s \in Sessions |-> AnyFile]
    /\ accArg = [s \in Sessions |-> AnyAcc]
    /\ dsArg = [s \in Sessions |-> AnyDataset]
    /\ accsArg = [s \in Sessions |-> {}]
    /\ todo = [s \in Sessions |-> {}]
    /\ txRows = [s \in Sessions |-> {}]
    /\ committed = [s \in Sessions |-> {}]
    /\ call = [s \in Sessions |-> "none"]
    /\ result = [s \in Sessions |-> "none"]

(* The session's call returns r; its loop counter and its transaction (if  *)
(* any) are gone.                                                          *)
Return(s, r) ==
    /\ pc' = [pc EXCEPT ![s] = "idle"]
    /\ result' = [result EXCEPT ![s] = r]
    /\ count' = [count EXCEPT ![s] = 1]
    /\ todo' = [todo EXCEPT ![s] = {}]
    /\ txRows' = [txRows EXCEPT ![s] = {}]

(* Mutants of the retry loop: a loop bound of <= instead of <, and a loop   *)
(* that never advances its counter.                                        *)
RetryOffByOne(s, first) ==
    IF count[s] <= RetryTimes
      THEN /\ pc' = [pc EXCEPT ![s] = first]
           /\ count' = [count EXCEPT ![s] = @ + 1]
           /\ todo' = [todo EXCEPT ![s] = {}]
           /\ txRows' = [txRows EXCEPT ![s] = {}]
           /\ UNCHANGED result
      ELSE Return(s, "err")

RetryNoCount(s, first) ==
    IF count[s] < RetryTimes
      THEN /\ pc' = [pc EXCEPT ![s] = first]
           /\ todo' = [todo EXCEPT ![s] = {}]
           /\ txRows' = [txRows EXCEPT ![s] = {}]
           /\ UNCHANGED <<count, result>>
      ELSE Return(s, "err")

(* The session's retry loop sleeps and starts attempt count + 1 at         *)
(* statement first, or, after RetryTimes attempts, returns the error.      *)
Retry(s, first) ==
    IF count[s] < RetryTimes
      THEN /\ pc' = [pc EXCEPT ![s] = first]
           /\ count' = [count EXCEPT ![s] = @ + 1]
           /\ todo' = [todo EXCEPT ![s] = {}]
           /\ txRows' = [txRows EXCEPT ![s] = {}]
           /\ UNCHANGED result
      ELSE Return(s, "err")

-----------------------------------------------------------------------------
(***************************************************************************)
(* Single-statement calls: one round trip, atomic in the database.         *)
(***************************************************************************)

(* RegisterFile: SELECT sda.register_file(path, user).  The stored         *)
(* procedure reuses the row of (user, path) or creates one, and always     *)
(* appends a "registered" event.                                           *)
RegisterFile(u, p) ==
    /\ Len(eventLog) < MaxLog
    /\ \E f \in FileIDs :
        /\ \/ fileRow[f] = <<u, p>>
           \/ /\ fileRow[f] = NoRow
              /\ \A g \in FileIDs : fileRow[g] # <<u, p>>
        /\ fileRow' = [fileRow EXCEPT ![f] = <<u, p>>]
        /\ eventLog' = Append(eventLog, [file |-> f, event |-> "registered"])
    /\ UNCHANGED <<stableID, datasets, fileDataset, session>>

(* UpdateFileEventLog: INSERT INTO sda.file_event_log.  The file_id comes  *)
(* from an earlier lookup, so the files row exists.                        *)
UpdateFileEventLog(f, e) ==
    /\ f \in Registered
    /\ Len(eventLog) < MaxLog
    /\ eventLog' = Append(eventLog, [file |-> f, event |-> e])
    /\ UNCHANGED <<fileRow, stableID, datasets, fileDataset, session>>

-----------------------------------------------------------------------------
(***************************************************************************)
(* Accession assignment: CheckAccessionIDExists, then SetAccessionID when  *)
(* the check found the accession unused, as the workers that assign        *)
(* accessions do.                                                          *)
(***************************************************************************)

StartAssignAccession(s, a, f) ==
    /\ pc[s] = "idle"
    /\ f \in Registered
    /\ pc' = [pc EXCEPT ![s] = "acc_same"]
    /\ accArg' = [accArg EXCEPT ![s] = a]
    /\ fileArg' = [fileArg EXCEPT ![s] = f]
    /\ dsArg' = [dsArg EXCEPT ![s] = AnyDataset]
    /\ accsArg' = [accsArg EXCEPT ![s] = {}]
    /\ committed' = [committed EXCEPT ![s] = {}]
    /\ call' = [call EXCEPT ![s] = "AssignAccession"]
    /\ result' = [result EXCEPT ![s] = "none"]
    /\ UNCHANGED <<store, count, todo, txRows>>

(* SELECT COUNT(id) FROM sda.files WHERE stable_id = $1 and id = $2.      *)
CheckAccessionIDExistsSame(s) ==
    /\ pc[s] = "acc_same"
    /\ IF stableID[fileArg[s]] = accArg[s]
         THEN Return(s, "same")
         ELSE /\ pc' = [pc EXCEPT ![s] = "acc_count"]
              /\ UNCHANGED <<count, todo, txRows, result>>
    /\ UNCHANGED <<store, args, committed, call>>

(* SELECT COUNT(id) FROM sda.files WHERE stable_id = $1.  An unused       *)
(* accession makes the caller go on to SetAccessionID, whose own retry     *)
(* loop starts at attempt 1.                                               *)
CheckAccessionIDExistsCount(s) ==
    /\ pc[s] = "acc_count"
    /\ IF HoldersOf(accArg[s]) # {}
         THEN Return(s, "duplicate")
         ELSE /\ pc' = [pc EXCEPT ![s] = "acc_set"]
              /\ count' = [count EXCEPT ![s] = 1]
              /\ UNCHANGED <<todo, txRows, result>>
    /\ UNCHANGED <<store, args, committed, call>>

(* A query of CheckAccessionIDExists fails; the loop retries from the      *)
(* first query.                                                            *)
CheckAccessionIDExistsFail(s) ==
    /\ pc[s] \in {"acc_same", "acc_count"}
    /\ Retry(s, "acc_same")
    /\ UNCHANGED <<store, args, committed, call>>

(* Mutant: a files table without the unique constraint on stable_id.      *)
SetAccessionIDUpdateUnconstrained(s) ==
    /\ pc[s] = "acc_set"
    /\ stableID' = [stableID EXCEPT ![fileArg[s]] = accArg[s]]
    /\ Return(s, "ok")
    /\ UNCHANGED <<fileRow, eventLog, datasets, fileDataset, args, committed,
                   call>>

(* UPDATE sda.files SET stable_id = $1 WHERE id = $2.  The unique         *)
(* constraint on stable_id refuses an accession another file holds.        *)
SetAccessionIDUpdate(s) ==
    /\ pc[s] = "acc_set"
    /\ HoldersOf(accArg[s]) \subseteq {fileArg[s]}
    /\ stableID' = [stableID EXCEPT ![fileArg[s]] = accArg[s]]
    /\ Return(s, "ok")
    /\ UNCHANGED <<fileRow, eventLog, datasets, fileDataset, args, committed,
                   call>>

(* The UPDATE commits but its reply is lost (the connection drops after   *)
(* the server's commit): the driver returns an error and the loop runs     *)
(* the UPDATE again, or returns the error after the last attempt.         *)
SetAccessionIDUpdateLost(s) ==
    /\ LostReplies
    /\ pc[s] = "acc_set"
    /\ HoldersOf(accArg[s]) \subseteq {fileArg[s]}
    /\ stableID' = [stableID EXCEPT ![fileArg[s]] = accArg[s]]
    /\ Retry(s, "acc_set")
    /\ UNCHANGED <<fileRow, eventLog, datasets, fileDataset, args, committed,
                   call>>

(* The UPDATE fails, transiently or on the unique constraint; the loop     *)
(* retries every error alike and returns the last one.                     *)
SetAccessionIDFail(s) ==
    /\ pc[s] = "acc_set"
    /\ Retry(s, "acc_set")
    /\ UNCHANGED <<store, args, committed, call>>

-----------------------------------------------------------------------------
(***************************************************************************)
(* MapFilesToDataset(datasetID, accessionIDs).                             *)
(***************************************************************************)

(* The accession list comes from a mapping message, whose schema requires   *)
(* at least one accession.                                                 *)
StartMapFilesToDataset(s, d, as) ==
    /\ pc[s] = "idle"
    /\ pc' = [pc EXCEPT ![s] = "map_dataset"]
    /\ dsArg' = [dsArg EXCEPT ![s] = d]
    /\ accsArg' = [accsArg EXCEPT ![s] = as]
    /\ committed' = [committed EXCEPT ![s] = {}]
    /\ fileArg' = [fileArg EXCEPT ![s] = AnyFile]
    /\ accArg' = [accArg EXCEPT ![s] = AnyAcc]
    /\ call' = [call EXCEPT ![s] = "MapFilesToDataset"]
    /\ result' = [result EXCEPT ![s] = "none"]
    /\ UNCHANGED <<store, count, todo, txRows>>

(* INSERT INTO sda.datasets (stable_id) VALUES ($1) ON CONFLICT DO         *)
(* NOTHING, on the pool, outside the transaction that follows.             *)
MapDatasetInsert(s) ==
    /\ pc[s] = "map_dataset"
    /\ datasets' = datasets \cup {dsArg[s]}
    /\ pc' = [pc EXCEPT ![s] = "map_begin"]
    /\ UNCHANGED <<fileRow, stableID, eventLog, fileDataset, count, args,
                   todo, txRows, committed, call, result>>

(* transaction, _ := db.Begin().                                          *)
MapBegin(s) ==
    /\ pc[s] = "map_begin"
    /\ pc' = [pc EXCEPT ![s] = "map_lookup"]
    /\ todo' = [todo EXCEPT ![s] = accsArg[s]]
    /\ UNCHANGED <<store, count, args, txRows, committed, call, result>>

(* Begin fails and its error is dropped: the first use of the nil          *)
(* transaction panics and the caller dies; nothing was written in it.      *)
MapBeginFail(s) ==
    /\ pc[s] = "map_begin"
    /\ Return(s, "crash")
    /\ UNCHANGED <<store, args, committed, call>>

(* Mutant: the loop commits after the first accession it maps.           *)
MapLookupInsertCommitFirst(s) ==
    /\ pc[s] = "map_lookup"
    /\ \E a \in todo[s], f \in FileIDs :
        /\ f \in HoldersOf(a)
        /\ txRows' = [txRows EXCEPT ![s] = @ \cup {<<a, f>>}]
        /\ todo' = [todo EXCEPT ![s] = @ \ {a}]
        /\ pc' = [pc EXCEPT ![s] = "map_commit"]
    /\ UNCHANGED <<store, count, args, committed, call, result>>

(* Mutant: the error of the lookup's Scan ignored, so the INSERT runs with *)
(* whatever fileID holds: the previous accession's file or none.          *)
MapLookupInsertUnchecked(s) ==
    /\ pc[s] = "map_lookup"
    /\ \E a \in todo[s], f \in FileIDs :
        /\ txRows' = [txRows EXCEPT ![s] = @ \cup {<<a, f>>}]
        /\ todo' = [todo EXCEPT ![s] = @ \ {a}]
        /\ pc' = [pc EXCEPT ![s] = IF todo'[s] = {} THEN "map_commit"
                                                    ELSE "map_lookup"]
    /\ UNCHANGED <<store, count, args, committed, call, result>>

(* For the next accession a: SELECT id FROM sda.files WHERE stable_id = a  *)
(* on the pool, then INSERT INTO sda.file_dataset ... ON CONFLICT DO       *)
(* NOTHING in the transaction.  The insert writes only the session's own   *)
(* transaction, so no other session can observe the two apart: one step.   *)
MapLookupInsert(s) ==
    /\ pc[s] = "map_lookup"
    /\ \E a \in todo[s], f \in FileIDs :
        /\ f \in HoldersOf(a)
        /\ txRows' = [txRows EXCEPT ![s] = @ \cup {<<a, f>>}]
        /\ todo' = [todo EXCEPT ![s] = @ \ {a}]
        /\ pc' = [pc EXCEPT ![s] = IF todo'[s] = {} THEN "map_commit"
                                                    ELSE "map_lookup"]
    /\ UNCHANGED <<store, count, args, committed, call, result>>

(* transaction.Commit().                                                  *)
MapCommit(s) ==
    /\ pc[s] = "map_commit"
    /\ fileDataset' = fileDataset \cup {<<r[2], dsArg[s]>> : r \in txRows[s]}
    /\ committed' = [committed EXCEPT ![s] = @ \cup {r[1] : r \in txRows[s]}]
    /\ Return(s, "ok")
    /\ UNCHANGED <<fileRow, stableID, eventLog, datasets, args, call>>

(* The commit takes effect but its reply is lost: the call sees an error   *)
(* and retries from the dataset insert, or returns the error after the     *)
(* last attempt.                                                           *)
MapCommitLost(s) ==
    /\ LostReplies
    /\ pc[s] = "map_commit"
    /\ fileDataset' = fileDataset \cup {<<r[2], dsArg[s]>> : r \in txRows[s]}
    /\ committed' = [committed EXCEPT ![s] = @ \cup {r[1] : r \in txRows[s]}]
    /\ Retry(s, "map_dataset")
    /\ UNCHANGED <<fileRow, stableID, eventLog, datasets, args, call>>

(* The attempt fails: a statement errs, or the lookup finds no file with   *)
(* the accession (sql: no rows in result set).  The transaction is rolled  *)
(* back and the loop retries from the dataset insert.  The dataset row     *)
(* stays.                                                                  *)
MapAttemptFail(s) ==
    /\ pc[s] \in {"map_dataset", "map_lookup", "map_commit"}
    /\ Retry(s, "map_dataset")
    /\ UNCHANGED <<store, args, committed, call>>

-----------------------------------------------------------------------------

(* The steps of a call in progress.  Each is a database round trip that    *)
(* the driver completes or fails.                                          *)
CallStep(s) ==
    \/ CheckAccessionIDExistsSame(s)
    \/ CheckAccessionIDExistsCount(s)
    \/ CheckAccessionIDExistsFail(s)
    \/ SetAccessionIDUpdate(s)
    \/ SetAccessionIDUpdateLost(s)
    \/ SetAccessionIDFail(s)
    \/ MapDatasetInsert(s)
    \/ MapBegin(s)
    \/ MapBeginFail(s)
    \/ MapLookupInsert(s)
    \/ MapCommit(s)
    \/ MapCommitLost(s)
    \/ MapAttemptFail(s)

Next ==
    \/ \E u \in Users, p \in Paths : RegisterFile(u, p)
    \/ \E f \in FileIDs, e \in Events : UpdateFileEventLog(f, e)
    \/ \E s \in Sessions :
        \/ \E a \in AccessionIDs, f \in FileIDs : StartAssignAccession(s, a, f)
        \/ \E d \in DatasetIDs, as \in SUBSET AccessionIDs \ {{}} :
              StartMapFilesToDataset(s, d, as)
        \/ CallStep(s)

Spec == Init /\ [][Next]_vars

(* A session inside a call keeps taking steps (each is a round trip the    *)
(* driver answers or fails): weak fairness of CallStep.                    *)
FairSpec == Spec /\ \A s \in Sessions : WF_vars(CallStep(s))

-----------------------------------------------------------------------------
(***************************************************************************)
(* Properties.                                                             *)
(***************************************************************************)

(* A stable id is held by at most one file (spec section 8), although the  *)
(* workers check CheckAccessionIDExists and then call SetAccessionID in    *)
(* two separate round trips, so two sessions can both find an accession   *)
(* unused before either sets it.                                           *)
StableIDUnique ==
    \A f, g \in FileIDs :
        f # g /\ stableID[f] # NoAcc => stableID[f] # stableID[g]

(* MapFilesToDataset is all-or-nothing (spec section 8): a call that       *)
(* returned nil committed a file_dataset row for every accession of its    *)
(* list, and a call that returned an error, or died, committed none.  The  *)
(* rollback on every failing statement and the single Commit are what the  *)
(* second half rests on; a lost reply to that Commit defeats it.           *)
MapAllOrNothing ==
    \A s \in Sessions :
        pc[s] = "idle" /\ call[s] = "MapFilesToDataset" =>
            /\ result[s] = "ok" => committed[s] = accsArg[s]
            /\ result[s] \in {"err", "crash"} => committed[s] = {}

(* Only accessioned files are in datasets: every file_dataset row names a *)
(* registered file that holds a stable id.  MapFilesToDataset looks the    *)
(* file up by accession in one round trip and inserts the row in another,  *)
(* and commits later still; the property rests on the lookup's error being *)
(* checked and on no statement ever clearing stable_id or deleting a file. *)
MappedFilesAccessioned ==
    \A r \in fileDataset : r[1] \in Registered /\ stableID[r[1]] # NoAcc

(* Every call the store starts returns: its retry loops are bounded by     *)
(* RetryTimes, and no step waits on another session.                       *)
CallsReturn ==
    \A s \in Sessions : pc[s] # "idle" ~> pc[s] = "idle"

(* A datasets row exists only for a dataset that has files mapped to it,   *)
(* or while a MapFilesToDataset call for it runs: the spec has the         *)
(* dataset row created inside the mapping transaction and rolled back      *)
(* with it (sections 3 and 4.1).                                           *)
DatasetRowHasFiles ==
    \A d \in datasets :
        \/ \E f \in FileIDs : <<f, d>> \in fileDataset
        \/ \E s \in Sessions : pc[s] \in MapSteps /\ dsArg[s] = d

(* CheckAccessionIDExists answers "duplicate" only when the accession is   *)
(* taken by another file: its purpose is to tell "already assigned to     *)
(* this file" from "taken by another file" (spec section 4.1).             *)
CheckDuplicateSound ==
    [][\A s \in Sessions :
         pc[s] = "acc_count" /\ result'[s] = "duplicate" =>
             \E g \in FileIDs \ {fileArg[s]} : stableID[g] = accArg[s]]_vars

(* The accessions of a dataset do not change once it has files: a file    *)
(* mapped into a dataset keeps the stable id it was mapped by (spec: a     *)
(* dataset is an immutable set of accessioned files, and an accession is   *)
(* assigned to a file once).  The UPDATE of setAccessionID has no          *)
(* "stable_id IS NULL" filter, and the pre-check only asks whether the     *)
(* new accession is taken, so a second assignment to a mapped file is      *)
(* accepted.                                                               *)
DatasetAccessionsImmutable ==
    [][\A f \in FileIDs :
         (\E d \in DatasetIDs : <<f, d>> \in fileDataset) =>
             stableID'[f] = stableID[f]]_vars

=============================================================================
