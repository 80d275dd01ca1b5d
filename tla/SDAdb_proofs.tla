---------------------------- MODULE SDAdb_proofs ----------------------------
(***************************************************************************)
(* Proofs about the file store SDAdb, for every value of its constants.    *)
(***************************************************************************)
EXTENDS SDAdb, TLAPS

USE RetryTimesAssumption, NonEmptyAssumption, SentinelAssumption

(* The per-session helpers keep the session's variables typed.            *)
LEMMA ReturnTyped ==
    ASSUME NEW s \in Sessions, NEW r \in Results,
           pc \in [Sessions -> PCs], result \in [Sessions -> Results],
           count \in [Sessions -> 1..RetryTimes],
           todo \in [Sessions -> SUBSET AccessionIDs],
           txRows \in [Sessions -> SUBSET (AccessionIDs \X FileIDs)],
           Return(s, r)
    PROVE  /\ pc' \in [Sessions -> PCs]
           /\ result' \in [Sessions -> Results]
           /\ count' \in [Sessions -> 1..RetryTimes]
           /\ todo' \in [Sessions -> SUBSET AccessionIDs]
           /\ txRows' \in [Sessions -> SUBSET (AccessionIDs \X FileIDs)]
BY DEF Return, PCs

LEMMA RetryTyped ==
    ASSUME NEW s \in Sessions, NEW first \in PCs,
           pc \in [Sessions -> PCs], result \in [Sessions -> Results],
           count \in [Sessions -> 1..RetryTimes],
           todo \in [Sessions -> SUBSET AccessionIDs],
           txRows \in [Sessions -> SUBSET (AccessionIDs \X FileIDs)],
           Retry(s, first)
    PROVE  /\ pc' \in [Sessions -> PCs]
           /\ result' \in [Sessions -> Results]
           /\ count' \in [Sessions -> 1..RetryTimes]
           /\ todo' \in [Sessions -> SUBSET AccessionIDs]
           /\ txRows' \in [Sessions -> SUBSET (AccessionIDs \X FileIDs)]
<1>1. CASE count[s] < RetryTimes
  <2>1. count[s] + 1 \in 1..RetryTimes
    BY <1>1
  <2>2. QED
    BY <1>1, <2>1 DEF Retry
<1>2. CASE ~(count[s] < RetryTimes)
  BY <1>2, ReturnTyped DEF Retry, Results
<1>3. QED
  BY <1>1, <1>2

(* The type invariant holds in every reachable state.                     *)
THEOREM TypeCorrect == Spec => []TypeOK
<1>1. Init => TypeOK
  BY DEF Init, TypeOK, StoreTypeOK, SessionTypeOK, AnyFile, AnyAcc, AnyDataset, PCs, Calls, Results
<1>2. TypeOK /\ [Next]_vars => TypeOK'
  <2> SUFFICES ASSUME StoreTypeOK, SessionTypeOK, [Next]_vars
               PROVE  StoreTypeOK' /\ SessionTypeOK'
    BY DEF TypeOK
  <2>1. ASSUME NEW u \in Users, NEW p \in Paths, RegisterFile(u, p)
        PROVE  StoreTypeOK' /\ SessionTypeOK'
    <3>1. StoreTypeOK'
      BY <2>1 DEF RegisterFile, StoreTypeOK, SessionTypeOK, session, args
    <3>2. SessionTypeOK'
      BY <2>1 DEF RegisterFile, SessionTypeOK, session, args
    <3>3. QED
      BY <3>1, <3>2
  <2>2. ASSUME NEW f \in FileIDs, NEW e \in Events, UpdateFileEventLog(f, e)
        PROVE  StoreTypeOK' /\ SessionTypeOK'
    <3>1. StoreTypeOK'
      BY <2>2 DEF UpdateFileEventLog, StoreTypeOK, SessionTypeOK, session, args
    <3>2. SessionTypeOK'
      BY <2>2 DEF UpdateFileEventLog, SessionTypeOK, session, args
    <3>3. QED
      BY <3>1, <3>2
  <2>3. ASSUME NEW s \in Sessions, NEW a \in AccessionIDs, NEW f \in FileIDs,
               StartAssignAccession(s, a, f)
        PROVE  StoreTypeOK' /\ SessionTypeOK'
    <3>1. StoreTypeOK'
      BY <2>3 DEF StartAssignAccession, StoreTypeOK, SessionTypeOK, store, AnyDataset, PCs, AccSteps, MapSteps, Calls, Results
    <3>2. SessionTypeOK'
      BY <2>3 DEF StartAssignAccession, SessionTypeOK, store, AnyDataset, PCs, AccSteps, MapSteps, Calls, Results
    <3>3. QED
      BY <3>1, <3>2
  <2>4. ASSUME NEW s \in Sessions, NEW d \in DatasetIDs,
               NEW as \in SUBSET AccessionIDs \ {{}},
               StartMapFilesToDataset(s, d, as)
        PROVE  StoreTypeOK' /\ SessionTypeOK'
    <3>1. StoreTypeOK'
      BY <2>4 DEF StartMapFilesToDataset, StoreTypeOK, SessionTypeOK, store, AnyFile, AnyAcc, PCs, AccSteps, MapSteps, Calls, Results
    <3>2. SessionTypeOK'
      BY <2>4 DEF StartMapFilesToDataset, SessionTypeOK, store, AnyFile, AnyAcc, PCs, AccSteps, MapSteps, Calls, Results
    <3>3. QED
      BY <3>1, <3>2
  <2>5. ASSUME NEW s \in Sessions, CheckAccessionIDExistsSame(s)
        PROVE  StoreTypeOK' /\ SessionTypeOK'
    <3>1. StoreTypeOK'
      BY <2>5 DEF CheckAccessionIDExistsSame, StoreTypeOK, SessionTypeOK, store, args, PCs, AccSteps, MapSteps, Results
    <3>2. SessionTypeOK'
      BY <2>5, ReturnTyped DEF CheckAccessionIDExistsSame, SessionTypeOK, store, args, PCs, AccSteps, MapSteps, Results
    <3>3. QED
      BY <3>1, <3>2
  <2>6. ASSUME NEW s \in Sessions, CheckAccessionIDExistsCount(s)
        PROVE  StoreTypeOK' /\ SessionTypeOK'
    <3>1. StoreTypeOK'
      BY <2>6 DEF CheckAccessionIDExistsCount, StoreTypeOK, SessionTypeOK, store, args, PCs, AccSteps, MapSteps, Results
    <3>2. SessionTypeOK'
      BY <2>6, ReturnTyped DEF CheckAccessionIDExistsCount, SessionTypeOK, store, args, PCs, AccSteps, MapSteps, Results
    <3>3. QED
      BY <3>1, <3>2
  <2>7. ASSUME NEW s \in Sessions, CheckAccessionIDExistsFail(s)
        PROVE  StoreTypeOK' /\ SessionTypeOK'
    <3>1. StoreTypeOK'
      BY <2>7 DEF CheckAccessionIDExistsFail, StoreTypeOK, SessionTypeOK, store, args, PCs, AccSteps, MapSteps
    <3>2. SessionTypeOK'
      BY <2>7, RetryTyped DEF CheckAccessionIDExistsFail, SessionTypeOK, store, args, PCs, AccSteps, MapSteps
    <3>3. QED
      BY <3>1, <3>2
  <2>8. ASSUME NEW s \in Sessions, SetAccessionIDUpdate(s)
        PROVE  StoreTypeOK' /\ SessionTypeOK'
    <3>1. StoreTypeOK'
      BY <2>8 DEF SetAccessionIDUpdate, StoreTypeOK, SessionTypeOK, args, Results
    <3>2. SessionTypeOK'
      BY <2>8, ReturnTyped DEF SetAccessionIDUpdate, SessionTypeOK, args, Results
    <3>3. QED
      BY <3>1, <3>2
  <2>9. ASSUME NEW s \in Sessions, SetAccessionIDFail(s)
        PROVE  StoreTypeOK' /\ SessionTypeOK'
    <3>1. StoreTypeOK'
      BY <2>9 DEF SetAccessionIDFail, StoreTypeOK, SessionTypeOK, store, args, PCs, AccSteps, MapSteps
    <3>2. SessionTypeOK'
      BY <2>9, RetryTyped DEF SetAccessionIDFail, SessionTypeOK, store, args, PCs, AccSteps, MapSteps
    <3>3. QED
      BY <3>1, <3>2
  <2>10. ASSUME NEW s \in Sessions, MapDatasetInsert(s)
        PROVE  StoreTypeOK' /\ SessionTypeOK'
    <3>1. StoreTypeOK'
      BY <2>10 DEF MapDatasetInsert, StoreTypeOK, SessionTypeOK, args, PCs, AccSteps, MapSteps
    <3>2. SessionTypeOK'
      BY <2>10 DEF MapDatasetInsert, SessionTypeOK, args, PCs, AccSteps, MapSteps
    <3>3. QED
      BY <3>1, <3>2
  <2>11. ASSUME NEW s \in Sessions, MapBegin(s)
        PROVE  StoreTypeOK' /\ SessionTypeOK'
    <3>1. StoreTypeOK'
      BY <2>11 DEF MapBegin, StoreTypeOK, SessionTypeOK, store, args, PCs, AccSteps, MapSteps
    <3>2. SessionTypeOK'
      BY <2>11 DEF MapBegin, SessionTypeOK, store, args, PCs, AccSteps, MapSteps
    <3>3. QED
      BY <3>1, <3>2
  <2>12. ASSUME NEW s \in Sessions, MapBeginFail(s)
        PROVE  StoreTypeOK' /\ SessionTypeOK'
    <3>1. StoreTypeOK'
      BY <2>12 DEF MapBeginFail, StoreTypeOK, SessionTypeOK, store, args, Results
    <3>2. SessionTypeOK'
      BY <2>12, ReturnTyped DEF MapBeginFail, SessionTypeOK, store, args, Results
    <3>3. QED
      BY <3>1, <3>2
  <2>13. ASSUME NEW s \in Sessions, MapLookupInsert(s)
        PROVE  StoreTypeOK' /\ SessionTypeOK'
    <3>1. StoreTypeOK'
      BY <2>13 DEF MapLookupInsert, StoreTypeOK, SessionTypeOK, store, args, PCs, AccSteps, MapSteps, HoldersOf
    <3>2. SessionTypeOK'
      BY <2>13 DEF MapLookupInsert, SessionTypeOK, store, args, PCs, AccSteps, MapSteps, HoldersOf
    <3>3. QED
      BY <3>1, <3>2
  <2>14. ASSUME NEW s \in Sessions, MapCommit(s)
        PROVE  StoreTypeOK' /\ SessionTypeOK'
    <3>1. StoreTypeOK'
      BY <2>14 DEF MapCommit, StoreTypeOK, SessionTypeOK, args, Results
    <3>2. SessionTypeOK'
      BY <2>14, ReturnTyped DEF MapCommit, SessionTypeOK, args, Results
    <3>3. QED
      BY <3>1, <3>2
  <2>15. ASSUME NEW s \in Sessions, MapAttemptFail(s)
        PROVE  StoreTypeOK' /\ SessionTypeOK'
    <3>1. StoreTypeOK'
      BY <2>15 DEF MapAttemptFail, StoreTypeOK, SessionTypeOK, store, args, PCs, AccSteps, MapSteps
    <3>2. SessionTypeOK'
      BY <2>15, RetryTyped DEF MapAttemptFail, SessionTypeOK, store, args, PCs, AccSteps, MapSteps
    <3>3. QED
      BY <3>1, <3>2
  <2>16. ASSUME NEW s \in Sessions, SetAccessionIDUpdateLost(s)
        PROVE  StoreTypeOK' /\ SessionTypeOK'
    <3>1. StoreTypeOK'
      BY <2>16 DEF SetAccessionIDUpdateLost, StoreTypeOK, SessionTypeOK, args, PCs, AccSteps, MapSteps
    <3>2. SessionTypeOK'
      BY <2>16, RetryTyped DEF SetAccessionIDUpdateLost, SessionTypeOK, args, PCs, AccSteps, MapSteps
    <3>3. QED
      BY <3>1, <3>2
  <2>17. ASSUME NEW s \in Sessions, MapCommitLost(s)
        PROVE  StoreTypeOK' /\ SessionTypeOK'
    <3>1. StoreTypeOK'
      BY <2>17 DEF MapCommitLost, StoreTypeOK, SessionTypeOK, args, PCs, AccSteps, MapSteps
    <3>2. SessionTypeOK'
      BY <2>17, RetryTyped DEF MapCommitLost, SessionTypeOK, args, PCs, AccSteps, MapSteps
    <3>3. QED
      BY <3>1, <3>2
  <2>18. CASE UNCHANGED vars
    BY <2>18 DEF vars, store, session, args, StoreTypeOK, SessionTypeOK
  <2>19. QED
    BY <2>1, <2>2, <2>3, <2>4, <2>5, <2>6, <2>7, <2>8, <2>9, <2>10, <2>11, <2>12, <2>13, <2>14, <2>15, <2>16, <2>17, <2>18
       DEF Next, CallStep
<1>3. QED
  BY <1>1, <1>2, PTL DEF Spec

(* Only the UPDATE of SetAccessionID writes files.stable_id, whether its   *)
(* reply arrives or is lost, and it writes only under the unique           *)
(* constraint; every other step of the store leaves the column alone.      *)
ConstrainedStableIDWrite(s) ==
    /\ pc[s] = "acc_set"
    /\ HoldersOf(accArg[s]) \subseteq {fileArg[s]}
    /\ stableID' = [stableID EXCEPT ![fileArg[s]] = accArg[s]]

LEMMA OnlySetAccessionWritesStableID ==
    ASSUME [Next]_vars
    PROVE  \/ \E s \in Sessions : ConstrainedStableIDWrite(s)
           \/ stableID' = stableID
<1>1. ASSUME NEW u \in Users, NEW p \in Paths, RegisterFile(u, p)
      PROVE  stableID' = stableID
  BY <1>1 DEF RegisterFile, store
<1>2. ASSUME NEW f \in FileIDs, NEW e \in Events, UpdateFileEventLog(f, e)
      PROVE  stableID' = stableID
  BY <1>2 DEF UpdateFileEventLog, store
<1>3. ASSUME NEW s \in Sessions, NEW a \in AccessionIDs, NEW f \in FileIDs,
               StartAssignAccession(s, a, f)
      PROVE  stableID' = stableID
  BY <1>3 DEF StartAssignAccession, store
<1>4. ASSUME NEW s \in Sessions, NEW d \in DatasetIDs,
               NEW as \in SUBSET AccessionIDs \ {{}},
               StartMapFilesToDataset(s, d, as)
      PROVE  stableID' = stableID
  BY <1>4 DEF StartMapFilesToDataset, store
<1>5. ASSUME NEW s \in Sessions, CheckAccessionIDExistsSame(s)
      PROVE  stableID' = stableID
  BY <1>5 DEF CheckAccessionIDExistsSame, store
<1>6. ASSUME NEW s \in Sessions, CheckAccessionIDExistsCount(s)
      PROVE  stableID' = stableID
  BY <1>6 DEF CheckAccessionIDExistsCount, store
<1>7. ASSUME NEW s \in Sessions, CheckAccessionIDExistsFail(s)
      PROVE  stableID' = stableID
  BY <1>7 DEF CheckAccessionIDExistsFail, store
<1>8. ASSUME NEW s \in Sessions, SetAccessionIDFail(s)
      PROVE  stableID' = stableID
  BY <1>8 DEF SetAccessionIDFail, store
<1>9. ASSUME NEW s \in Sessions, MapDatasetInsert(s)
      PROVE  stableID' = stableID
  BY <1>9 DEF MapDatasetInsert, store
<1>10. ASSUME NEW s \in Sessions, MapBegin(s)
      PROVE  stableID' = stableID
  BY <1>10 DEF MapBegin, store
<1>11. ASSUME NEW s \in Sessions, MapBeginFail(s)
      PROVE  stableID' = stableID
  BY <1>11 DEF MapBeginFail, store
<1>12. ASSUME NEW s \in Sessions, MapLookupInsert(s)
      PROVE  stableID' = stableID
  BY <1>12 DEF MapLookupInsert, store
<1>13. ASSUME NEW s \in Sessions, MapCommit(s)
      PROVE  stableID' = stableID
  BY <1>13 DEF MapCommit, store
<1>14. ASSUME NEW s \in Sessions, MapAttemptFail(s)
      PROVE  stableID' = stableID
  BY <1>14 DEF MapAttemptFail, store
<1>15. ASSUME NEW s \in Sessions, MapCommitLost(s)
      PROVE  stableID' = stableID
  BY <1>15 DEF MapCommitLost
<1>16. ASSUME NEW s \in Sessions, SetAccessionIDUpdate(s)
      PROVE  ConstrainedStableIDWrite(s)
  BY <1>16 DEF SetAccessionIDUpdate, ConstrainedStableIDWrite
<1>17. ASSUME NEW s \in Sessions, SetAccessionIDUpdateLost(s)
      PROVE  ConstrainedStableIDWrite(s)
  BY <1>17 DEF SetAccessionIDUpdateLost, ConstrainedStableIDWrite
<1>18. CASE UNCHANGED vars
  BY <1>18 DEF vars, store
<1>19. QED
  BY <1>1, <1>2, <1>3, <1>4, <1>5, <1>6, <1>7, <1>8, <1>9, <1>10, <1>11,
     <1>12, <1>13, <1>14, <1>15, <1>16, <1>17, <1>18 DEF Next, CallStep

(* No two files ever hold the same stable id, for any number of sessions   *)
(* and any retry bound: the unique constraint the UPDATE of SetAccessionID *)
(* runs under keeps the property although CheckAccessionIDExists and       *)
(* SetAccessionID are separate round trips.                                *)
THEOREM StableIDUniqueHolds == Spec => []StableIDUnique
<1>1. Init => StableIDUnique
  BY SentinelAssumption DEF Init, StableIDUnique
<1>2. TypeOK /\ StableIDUnique /\ [Next]_vars => StableIDUnique'
  <2> SUFFICES ASSUME TypeOK, StableIDUnique, [Next]_vars
               PROVE  StableIDUnique'
    OBVIOUS
  <2>1. CASE stableID' = stableID
    BY <2>1 DEF StableIDUnique
  <2>2. ASSUME NEW s \in Sessions, ConstrainedStableIDWrite(s)
        PROVE  StableIDUnique'
    <3> DEFINE a == accArg[s]
               fa == fileArg[s]
    <3>1. a \in AccessionIDs /\ fa \in FileIDs
      BY DEF TypeOK, SessionTypeOK
    <3>2. stableID' = [stableID EXCEPT ![fa] = a]
      BY <2>2 DEF ConstrainedStableIDWrite
    <3>3. \A g \in FileIDs : stableID[g] = a => g = fa
      BY <2>2 DEF ConstrainedStableIDWrite, HoldersOf
    <3>4. stableID \in [FileIDs -> AccessionIDs \cup {NoAcc}]
      BY DEF TypeOK, StoreTypeOK
    <3>5. QED
      BY <3>1, <3>2, <3>3, <3>4 DEF StableIDUnique
  <2>3. QED
    BY <2>1, <2>2, OnlySetAccessionWritesStableID
<1>3. QED
  BY <1>1, <1>2, TypeCorrect, PTL DEF Spec

-----------------------------------------------------------------------------
(***************************************************************************)
(* MapFilesToDataset is all-or-nothing when every reply arrives.           *)
(***************************************************************************)

(* The accessions of the rows a transaction has inserted.                  *)
TxAccs(R) == {r[1] : r \in R}

(* What a session's mapping call has done so far.  Inside a mapping call   *)
(* nothing is committed yet; outside the lookup loop and the commit the    *)
(* session has no open transaction rows; during the loop every accession   *)
(* of the list is either still to do or has a row in the transaction, and  *)
(* at the commit every one has a row.                                      *)
MapSessionInv(s) ==
    /\ pc[s] \in MapSteps => call[s] = "MapFilesToDataset" /\ committed[s] = {}
    /\ pc[s] \in AccSteps => call[s] = "AssignAccession"
    /\ pc[s] \notin {"map_lookup", "map_commit"} => txRows[s] = {}
    /\ pc[s] = "map_lookup" => todo[s] \cup TxAccs(txRows[s]) = accsArg[s]
    /\ pc[s] = "map_commit" => TxAccs(txRows[s]) = accsArg[s]
    /\ pc[s] = "idle" /\ call[s] = "MapFilesToDataset" =>
           /\ result[s] = "ok" => committed[s] = accsArg[s]
           /\ result[s] \in {"err", "crash"} => committed[s] = {}

MapInv == \A s \in Sessions : MapSessionInv(s)

(* The step leaves the mapping state of every session but s alone.         *)
MapFrame(s) ==
    \A t \in Sessions \ {s} :
        /\ pc'[t] = pc[t] /\ call'[t] = call[t] /\ committed'[t] = committed[t]
        /\ txRows'[t] = txRows[t] /\ todo'[t] = todo[t]
        /\ accsArg'[t] = accsArg[t] /\ result'[t] = result[t]

LEMMA MapFrameKeeps ==
    ASSUME MapInv, NEW s \in Sessions, MapSessionInv(s)', MapFrame(s)
    PROVE  MapInv'
<1> SUFFICES ASSUME NEW t \in Sessions PROVE MapSessionInv(t)'
  BY DEF MapInv
<1>1. CASE t = s
  BY <1>1
<1>2. CASE t # s
  <2>1. MapSessionInv(t)
    BY DEF MapInv
  <2> QED BY <1>2, <2>1 DEF MapFrame, MapSessionInv
<1> QED BY <1>1, <1>2

(* Return and Retry change the session's own entries only.                *)
LEMMA ReturnFrame ==
    ASSUME TypeOK, NEW s \in Sessions, NEW r, Return(s, r),
           UNCHANGED <<call, committed, accsArg>>
    PROVE  MapFrame(s)
BY DEF Return, MapFrame, TypeOK, SessionTypeOK

LEMMA RetryFrame ==
    ASSUME TypeOK, NEW s \in Sessions, NEW first, Retry(s, first),
           UNCHANGED <<call, committed, accsArg>>
    PROVE  MapFrame(s)
BY DEF Retry, Return, MapFrame, TypeOK, SessionTypeOK

(* A retry either starts the next attempt at first with an empty          *)
(* transaction, or returns "err".                                          *)
LEMMA RetryOutcome ==
    ASSUME TypeOK, NEW s \in Sessions, NEW first, Retry(s, first)
    PROVE  \/ pc'[s] = first /\ txRows'[s] = {} /\ result'[s] = result[s]
           \/ pc'[s] = "idle" /\ txRows'[s] = {} /\ result'[s] = "err"
BY DEF Retry, Return, TypeOK, SessionTypeOK

LEMMA ReturnOutcome ==
    ASSUME TypeOK, NEW s \in Sessions, NEW r, Return(s, r)
    PROVE  pc'[s] = "idle" /\ txRows'[s] = {} /\ result'[s] = r
BY DEF Return, TypeOK, SessionTypeOK

(* A row inserted in the transaction adds its accession to TxAccs.        *)
LEMMA TxAccsAdd ==
    ASSUME NEW R, NEW a, NEW f
    PROVE  TxAccs(R \cup {<<a, f>>}) = TxAccs(R) \cup {a}
<1>1. <<a, f>>[1] = a
  OBVIOUS
<1>2. \A x : x \in TxAccs(R \cup {<<a, f>>}) <=> x \in TxAccs(R) \/ x = a
  BY <1>1, Zenon DEF TxAccs
<1> QED BY <1>2

(* Every step keeps MapInv when no reply is lost.                          *)
LEMMA MapInvInductive ==
    ASSUME ~LostReplies
    PROVE  TypeOK /\ MapInv /\ [Next]_vars => MapInv'
<1> SUFFICES ASSUME TypeOK, MapInv, [Next]_vars PROVE MapInv'
  OBVIOUS
<1>0. /\ pc \in [Sessions -> PCs] /\ call \in [Sessions -> Calls]
      /\ txRows \in [Sessions -> SUBSET (AccessionIDs \X FileIDs)]
      /\ committed \in [Sessions -> SUBSET AccessionIDs]
      /\ accsArg \in [Sessions -> SUBSET AccessionIDs]
      /\ todo \in [Sessions -> SUBSET AccessionIDs]
      /\ result \in [Sessions -> Results]
  BY DEF TypeOK, SessionTypeOK
<1>1. CASE UNCHANGED session
  BY <1>1 DEF session, args, MapInv, MapSessionInv
<1>2. ASSUME NEW s \in Sessions, NEW a \in AccessionIDs, NEW f \in FileIDs,
             StartAssignAccession(s, a, f)
      PROVE  MapInv'
  <2>1. MapSessionInv(s) /\ pc[s] = "idle"
    BY <1>2 DEF MapInv, StartAssignAccession
  <2>2. MapSessionInv(s)'
    BY <1>0, <1>2, <2>1 DEF StartAssignAccession, MapSessionInv, AccSteps, MapSteps
  <2>3. MapFrame(s)
    BY <1>0, <1>2 DEF StartAssignAccession, MapFrame
  <2> QED BY <2>2, <2>3, MapFrameKeeps
<1>3. ASSUME NEW s \in Sessions, NEW d \in DatasetIDs,
             NEW as \in SUBSET AccessionIDs \ {{}},
             StartMapFilesToDataset(s, d, as)
      PROVE  MapInv'
  <2>1. MapSessionInv(s) /\ pc[s] = "idle"
    BY <1>3 DEF MapInv, StartMapFilesToDataset
  <2>2. MapSessionInv(s)'
    BY <1>0, <1>3, <2>1 DEF StartMapFilesToDataset, MapSessionInv, AccSteps, MapSteps
  <2>3. MapFrame(s)
    BY <1>0, <1>3 DEF StartMapFilesToDataset, MapFrame
  <2> QED BY <2>2, <2>3, MapFrameKeeps
<1>4. ASSUME NEW s \in Sessions, CheckAccessionIDExistsSame(s)
      PROVE  MapInv'
  <2>1. MapSessionInv(s) /\ pc[s] = "acc_same" /\ call[s] = "AssignAccession"
        /\ txRows[s] = {}
    BY <1>4 DEF MapInv, MapSessionInv, CheckAccessionIDExistsSame, AccSteps
  <2>2. UNCHANGED <<call, committed, accsArg>>
    BY <1>4 DEF CheckAccessionIDExistsSame, args
  <2>3. CASE stableID[fileArg[s]] = accArg[s]
    <3>1. Return(s, "same")
      BY <1>4, <2>3 DEF CheckAccessionIDExistsSame
    <3>2. MapSessionInv(s)'
      BY <2>1, <2>2, <3>1, ReturnOutcome DEF MapSessionInv, AccSteps, MapSteps
    <3> QED BY <2>2, <3>1, <3>2, ReturnFrame, MapFrameKeeps
  <2>4. CASE stableID[fileArg[s]] # accArg[s]
    <3>1. pc' = [pc EXCEPT ![s] = "acc_count"] /\ UNCHANGED <<todo, txRows, result>>
      BY <1>4, <2>4 DEF CheckAccessionIDExistsSame
    <3>2. MapSessionInv(s)'
      BY <1>0, <2>1, <2>2, <3>1 DEF MapSessionInv, AccSteps, MapSteps
    <3>3. MapFrame(s)
      BY <1>0, <2>2, <3>1 DEF MapFrame
    <3> QED BY <3>2, <3>3, MapFrameKeeps
  <2> QED BY <2>3, <2>4
<1>5. ASSUME NEW s \in Sessions, CheckAccessionIDExistsCount(s)
      PROVE  MapInv'
  <2>1. MapSessionInv(s) /\ pc[s] = "acc_count" /\ call[s] = "AssignAccession"
        /\ txRows[s] = {}
    BY <1>5 DEF MapInv, MapSessionInv, CheckAccessionIDExistsCount, AccSteps
  <2>2. UNCHANGED <<call, committed, accsArg>>
    BY <1>5 DEF CheckAccessionIDExistsCount, args
  <2>3. CASE HoldersOf(accArg[s]) # {}
    <3>1. Return(s, "duplicate")
      BY <1>5, <2>3 DEF CheckAccessionIDExistsCount
    <3>2. MapSessionInv(s)'
      BY <2>1, <2>2, <3>1, ReturnOutcome DEF MapSessionInv, AccSteps, MapSteps
    <3> QED BY <2>2, <3>1, <3>2, ReturnFrame, MapFrameKeeps
  <2>4. CASE HoldersOf(accArg[s]) = {}
    <3>1. pc' = [pc EXCEPT ![s] = "acc_set"] /\ UNCHANGED <<todo, txRows, result>>
      BY <1>5, <2>4 DEF CheckAccessionIDExistsCount
    <3>2. MapSessionInv(s)'
      BY <1>0, <2>1, <2>2, <3>1 DEF MapSessionInv, AccSteps, MapSteps
    <3>3. MapFrame(s)
      BY <1>0, <2>2, <3>1 DEF MapFrame
    <3> QED BY <3>2, <3>3, MapFrameKeeps
  <2> QED BY <2>3, <2>4
<1>6. ASSUME NEW s \in Sessions, CheckAccessionIDExistsFail(s)
      PROVE  MapInv'
  <2>1. MapSessionInv(s) /\ call[s] = "AssignAccession"
    BY <1>6 DEF MapInv, MapSessionInv, CheckAccessionIDExistsFail, AccSteps
  <2>2. UNCHANGED <<call, committed, accsArg>> /\ Retry(s, "acc_same")
    BY <1>6 DEF CheckAccessionIDExistsFail, args
  <2>3. MapSessionInv(s)'
    BY <2>1, <2>2, RetryOutcome DEF MapSessionInv, AccSteps, MapSteps
  <2> QED BY <2>2, <2>3, RetryFrame, MapFrameKeeps
<1>7. ASSUME NEW s \in Sessions, SetAccessionIDUpdate(s)
      PROVE  MapInv'
  <2>1. MapSessionInv(s) /\ call[s] = "AssignAccession"
    BY <1>7 DEF MapInv, MapSessionInv, SetAccessionIDUpdate, AccSteps
  <2>2. UNCHANGED <<call, committed, accsArg>> /\ Return(s, "ok")
    BY <1>7 DEF SetAccessionIDUpdate, args
  <2>3. MapSessionInv(s)'
    BY <2>1, <2>2, ReturnOutcome DEF MapSessionInv, AccSteps, MapSteps
  <2> QED BY <2>2, <2>3, ReturnFrame, MapFrameKeeps
<1>8. ASSUME NEW s \in Sessions, SetAccessionIDFail(s)
      PROVE  MapInv'
  <2>1. MapSessionInv(s) /\ call[s] = "AssignAccession"
    BY <1>8 DEF MapInv, MapSessionInv, SetAccessionIDFail, AccSteps
  <2>2. UNCHANGED <<call, committed, accsArg>> /\ Retry(s, "acc_set")
    BY <1>8 DEF SetAccessionIDFail, args
  <2>3. MapSessionInv(s)'
    BY <2>1, <2>2, RetryOutcome DEF MapSessionInv, AccSteps, MapSteps
  <2> QED BY <2>2, <2>3, RetryFrame, MapFrameKeeps
<1>9. ASSUME NEW s \in Sessions, MapDatasetInsert(s)
      PROVE  MapInv'
  <2>1. MapSessionInv(s) /\ pc[s] = "map_dataset" /\ txRows[s] = {}
    BY <1>9 DEF MapInv, MapSessionInv, MapDatasetInsert
  <2>2. /\ pc' = [pc EXCEPT ![s] = "map_begin"]
        /\ UNCHANGED <<call, committed, accsArg, todo, txRows, result>>
    BY <1>9 DEF MapDatasetInsert, args
  <2>3. MapSessionInv(s)'
    BY <1>0, <2>1, <2>2 DEF MapSessionInv, AccSteps, MapSteps
  <2>4. MapFrame(s)
    BY <1>0, <2>2 DEF MapFrame
  <2> QED BY <2>3, <2>4, MapFrameKeeps
<1>10. ASSUME NEW s \in Sessions, MapBegin(s)
      PROVE  MapInv'
  <2>1. MapSessionInv(s) /\ pc[s] = "map_begin" /\ txRows[s] = {}
    BY <1>10 DEF MapInv, MapSessionInv, MapBegin
  <2>2. /\ pc' = [pc EXCEPT ![s] = "map_lookup"]
        /\ todo' = [todo EXCEPT ![s] = accsArg[s]]
        /\ UNCHANGED <<call, committed, accsArg, txRows, result>>
    BY <1>10 DEF MapBegin, args
  <2>3. TxAccs({}) = {}
    BY DEF TxAccs
  <2>4. MapSessionInv(s)'
    BY <1>0, <2>1, <2>2, <2>3 DEF MapSessionInv, AccSteps, MapSteps
  <2>5. MapFrame(s)
    BY <1>0, <2>2 DEF MapFrame
  <2> QED BY <2>4, <2>5, MapFrameKeeps
<1>11. ASSUME NEW s \in Sessions, MapBeginFail(s)
      PROVE  MapInv'
  <2>1. MapSessionInv(s) /\ pc[s] = "map_begin"
    BY <1>11 DEF MapInv, MapSessionInv, MapBeginFail
  <2>2. UNCHANGED <<call, committed, accsArg>> /\ Return(s, "crash")
    BY <1>11 DEF MapBeginFail, args
  <2>3. MapSessionInv(s)'
    BY <2>1, <2>2, ReturnOutcome DEF MapSessionInv, AccSteps, MapSteps
  <2> QED BY <2>2, <2>3, ReturnFrame, MapFrameKeeps
<1>12. ASSUME NEW s \in Sessions, MapAttemptFail(s)
      PROVE  MapInv'
  <2>1. MapSessionInv(s) /\ pc[s] \in MapSteps
    BY <1>12 DEF MapInv, MapAttemptFail, MapSteps
  <2>2. UNCHANGED <<call, committed, accsArg>> /\ Retry(s, "map_dataset")
    BY <1>12 DEF MapAttemptFail, args
  <2>3. MapSessionInv(s)'
    BY <2>1, <2>2, RetryOutcome DEF MapSessionInv, AccSteps, MapSteps
  <2> QED BY <2>2, <2>3, RetryFrame, MapFrameKeeps
<1>13. ASSUME NEW s \in Sessions, MapLookupInsert(s)
      PROVE  MapInv'
  <2>1. MapSessionInv(s) /\ pc[s] = "map_lookup"
    BY <1>13 DEF MapInv, MapLookupInsert
  <2>2. PICK a \in todo[s], f \in FileIDs :
          /\ txRows' = [txRows EXCEPT ![s] = @ \cup {<<a, f>>}]
          /\ todo' = [todo EXCEPT ![s] = @ \ {a}]
          /\ pc' = [pc EXCEPT ![s] = IF todo'[s] = {} THEN "map_commit"
                                                      ELSE "map_lookup"]
    BY <1>13 DEF MapLookupInsert
  <2>3. UNCHANGED <<call, committed, accsArg, result>>
    BY <1>13 DEF MapLookupInsert, args
  <2>4. /\ txRows'[s] = txRows[s] \cup {<<a, f>>}
        /\ todo'[s] = todo[s] \ {a}
        /\ pc'[s] \in {"map_lookup", "map_commit"}
        /\ pc'[s] = "map_commit" <=> todo'[s] = {}
    BY <1>0, <2>2
  <2>5. TxAccs(txRows'[s]) = TxAccs(txRows[s]) \cup {a}
    <3>1. TxAccs(txRows[s] \cup {<<a, f>>}) = TxAccs(txRows[s]) \cup {a}
      BY TxAccsAdd
    <3> QED BY <2>4, <3>1
  <2>6. todo'[s] \cup TxAccs(txRows'[s]) = accsArg[s]
    BY <2>1, <2>4, <2>5 DEF MapSessionInv
  <2>7. MapSessionInv(s)'
    BY <2>1, <2>3, <2>4, <2>6 DEF MapSessionInv, AccSteps, MapSteps
  <2>8. MapFrame(s)
    BY <1>0, <2>2, <2>3 DEF MapFrame
  <2> QED BY <2>7, <2>8, MapFrameKeeps
<1>14. ASSUME NEW s \in Sessions, MapCommit(s)
      PROVE  MapInv'
  <2>1. MapSessionInv(s) /\ pc[s] = "map_commit"
    BY <1>14 DEF MapInv, MapCommit
  <2>2. /\ committed' = [committed EXCEPT ![s] = @ \cup TxAccs(txRows[s])]
        /\ Return(s, "ok")
        /\ UNCHANGED <<call, accsArg>>
    BY <1>14 DEF MapCommit, args, TxAccs
  <2>3. committed'[s] = accsArg[s] /\ call[s] = "MapFilesToDataset"
    BY <1>0, <2>1, <2>2 DEF MapSessionInv, MapSteps
  <2>4. MapSessionInv(s)'
    BY <2>2, <2>3, ReturnOutcome DEF MapSessionInv, AccSteps, MapSteps
  <2>5. MapFrame(s)
    BY <1>0, <2>2 DEF Return, MapFrame
  <2> QED BY <2>4, <2>5, MapFrameKeeps
<1>15. ASSUME NEW s \in Sessions, SetAccessionIDUpdateLost(s) \/ MapCommitLost(s)
      PROVE  FALSE
  BY <1>15 DEF SetAccessionIDUpdateLost, MapCommitLost
<1>16. ASSUME NEW u \in Users, NEW p \in Paths, RegisterFile(u, p)
      PROVE  UNCHANGED session
  BY <1>16 DEF RegisterFile
<1>17. ASSUME NEW f \in FileIDs, NEW e \in Events, UpdateFileEventLog(f, e)
      PROVE  UNCHANGED session
  BY <1>17 DEF UpdateFileEventLog
<1>18. CASE UNCHANGED vars
  BY <1>1, <1>18 DEF vars
<1> QED
  BY <1>1, <1>2, <1>3, <1>4, <1>5, <1>6, <1>7, <1>8, <1>9, <1>10, <1>11,
     <1>12, <1>13, <1>14, <1>15, <1>16, <1>17, <1>18 DEF Next, CallStep

LEMMA InitMapInv == Init => MapInv
BY DEF Init, MapInv, MapSessionInv, AccSteps, MapSteps

(* MapFilesToDataset is all-or-nothing (spec section 8) for any number of  *)
(* sessions, accessions and attempts, as long as every reply arrives: a    *)
(* call that returned nil committed a row for each accession of its list,  *)
(* and one that returned an error or died committed none.  The hypothesis  *)
(* is needed: with a lost reply to Commit the property fails (sdadb_lost). *)
THEOREM MapAllOrNothingHolds ==
    ASSUME ~LostReplies
    PROVE  Spec => []MapAllOrNothing
<1>1. TypeOK /\ MapInv /\ [Next]_vars => MapInv'
  BY MapInvInductive
<1>2. MapInv => MapAllOrNothing
  BY DEF MapInv, MapSessionInv, MapAllOrNothing
<1> QED BY <1>1, <1>2, InitMapInv, TypeCorrect, PTL DEF Spec
-----------------------------------------------------------------------------
(***************************************************************************)
(* Only accessioned, registered files are ever mapped into a dataset.      *)
(***************************************************************************)

(* Every file holding a stable id has a files row.                         *)
AccessionedRegistered ==
    \A f \in FileIDs : stableID[f] # NoAcc => f \in Registered

(* A session assigning an accession works on a registered file, and every  *)
(* row its open transaction holds names a file with a stable id.           *)
AccSessionInv(t) ==
    /\ pc[t] \in AccSteps => fileArg[t] \in Registered
    /\ \A r \in txRows[t] : stableID[r[2]] # NoAcc

AccInv ==
    /\ MappedFilesAccessioned
    /\ AccessionedRegistered
    /\ \A t \in Sessions : AccSessionInv(t)

(* No statement deletes a files row: register_file only ever fills one.   *)
LEMMA RegisteredGrows ==
    ASSUME TypeOK, [Next]_vars
    PROVE  Registered \subseteq Registered'
<1>1. CASE \E u \in Users, p \in Paths : RegisterFile(u, p)
  <2>1. PICK u \in Users, p \in Paths : RegisterFile(u, p)
    BY <1>1
  <2>2. PICK f \in FileIDs : fileRow' = [fileRow EXCEPT ![f] = <<u, p>>]
    BY <2>1 DEF RegisterFile
  <2>3. <<u, p>> # NoRow
    BY SentinelAssumption
  <2> QED BY <2>2, <2>3 DEF Registered, TypeOK, StoreTypeOK
<1>2. CASE ~\E u \in Users, p \in Paths : RegisterFile(u, p)
  <2>1. fileRow' = fileRow
    BY <1>2 DEF Next, CallStep, UpdateFileEventLog, StartAssignAccession,
       StartMapFilesToDataset, CheckAccessionIDExistsSame,
       CheckAccessionIDExistsCount, CheckAccessionIDExistsFail,
       SetAccessionIDUpdate, SetAccessionIDUpdateLost, SetAccessionIDFail,
       MapDatasetInsert, MapBegin, MapBeginFail, MapLookupInsert, MapCommit,
       MapCommitLost, MapAttemptFail, vars, store
  <2> QED BY <2>1 DEF Registered
<1> QED BY <1>1, <1>2

(* A stable id, once set, is never cleared (it may be overwritten).       *)
LEMMA AccessionStays ==
    ASSUME TypeOK, [Next]_vars
    PROVE  \A f \in FileIDs : stableID[f] # NoAcc => stableID'[f] # NoAcc
<1>1. CASE stableID' = stableID
  BY <1>1
<1>2. ASSUME NEW s \in Sessions, ConstrainedStableIDWrite(s)
      PROVE  \A f \in FileIDs : stableID[f] # NoAcc => stableID'[f] # NoAcc
  BY <1>2, SentinelAssumption DEF ConstrainedStableIDWrite, TypeOK, StoreTypeOK,
     SessionTypeOK
<1> QED BY <1>1, <1>2, OnlySetAccessionWritesStableID

(* Every file with a stable id stays registered: the only write of        *)
(* stable_id is to the file of a session in its accession call.            *)
LEMMA AccessionedRegisteredKept ==
    ASSUME TypeOK, AccInv, [Next]_vars
    PROVE  AccessionedRegistered'
<1>1. Registered \subseteq Registered'
  BY RegisteredGrows
<1>2. CASE stableID' = stableID
  BY <1>1, <1>2 DEF AccInv, AccessionedRegistered
<1>3. ASSUME NEW s \in Sessions, ConstrainedStableIDWrite(s)
      PROVE  AccessionedRegistered'
  <2>1. fileArg[s] \in Registered
    BY <1>3 DEF ConstrainedStableIDWrite, AccInv, AccSessionInv, AccSteps
  <2>2. fileArg[s] \in FileIDs /\ stableID \in [FileIDs -> AccessionIDs \cup {NoAcc}]
    BY DEF TypeOK, SessionTypeOK, StoreTypeOK
  <2> QED BY <1>1, <1>3, <2>1, <2>2
          DEF ConstrainedStableIDWrite, AccInv, AccessionedRegistered
<1> QED BY <1>2, <1>3, OnlySetAccessionWritesStableID

(* The step leaves the accession state of every session but s alone.       *)
AccFrame(s) ==
    \A t \in Sessions \ {s} :
        pc'[t] = pc[t] /\ fileArg'[t] = fileArg[t] /\ txRows'[t] = txRows[t]

LEMMA AccFrameKeeps ==
    ASSUME TypeOK, AccInv, NEW s \in Sessions, AccSessionInv(s)', AccFrame(s),
           Registered \subseteq Registered',
           \A f \in FileIDs : stableID[f] # NoAcc => stableID'[f] # NoAcc
    PROVE  \A t \in Sessions : AccSessionInv(t)'
<1> SUFFICES ASSUME NEW t \in Sessions, t # s PROVE AccSessionInv(t)'
  OBVIOUS
<1>1. AccSessionInv(t) /\ txRows[t] \subseteq AccessionIDs \X FileIDs
  BY DEF AccInv, TypeOK, SessionTypeOK
<1> QED BY <1>1 DEF AccFrame, AccSessionInv

(* Every step keeps the accession state of the sessions.                   *)
LEMMA AccSessionsKept ==
    ASSUME TypeOK, AccInv, [Next]_vars
    PROVE  \A t \in Sessions : AccSessionInv(t)'
<1>0. /\ pc \in [Sessions -> PCs] /\ fileArg \in [Sessions -> FileIDs]
      /\ txRows \in [Sessions -> SUBSET (AccessionIDs \X FileIDs)]
      /\ todo \in [Sessions -> SUBSET AccessionIDs]
      /\ stableID \in [FileIDs -> AccessionIDs \cup {NoAcc}]
  BY DEF TypeOK, SessionTypeOK, StoreTypeOK
<1>a. Registered \subseteq Registered'
  BY RegisteredGrows
<1>b. \A f \in FileIDs : stableID[f] # NoAcc => stableID'[f] # NoAcc
  BY AccessionStays
<1>c. \A t \in Sessions : AccSessionInv(t)
  BY DEF AccInv
<1>1. CASE UNCHANGED <<pc, fileArg, txRows>>
  <2> SUFFICES ASSUME NEW t \in Sessions PROVE AccSessionInv(t)'
    OBVIOUS
  <2> QED BY <1>0, <1>1, <1>a, <1>b, <1>c DEF AccSessionInv
<1>2. ASSUME NEW s \in Sessions, NEW a \in AccessionIDs, NEW f \in FileIDs,
             StartAssignAccession(s, a, f)
      PROVE  \A t \in Sessions : AccSessionInv(t)'
  <2>1. AccSessionInv(s)'
    BY <1>0, <1>2, <1>a, <1>b, <1>c DEF StartAssignAccession, AccSessionInv, AccSteps
  <2>2. AccFrame(s)
    BY <1>0, <1>2 DEF StartAssignAccession, AccFrame
  <2> QED BY <1>a, <1>b, <2>1, <2>2, AccFrameKeeps
<1>3. ASSUME NEW s \in Sessions, NEW d \in DatasetIDs,
             NEW as \in SUBSET AccessionIDs \ {{}},
             StartMapFilesToDataset(s, d, as)
      PROVE  \A t \in Sessions : AccSessionInv(t)'
  <2>1. AccSessionInv(s)'
    BY <1>0, <1>3, <1>b, <1>c DEF StartMapFilesToDataset, AccSessionInv, AccSteps
  <2>2. AccFrame(s)
    BY <1>0, <1>3 DEF StartMapFilesToDataset, AccFrame
  <2> QED BY <1>a, <1>b, <2>1, <2>2, AccFrameKeeps
(* The steps of a call that end in Return or Retry: the session's pc     *)
(* becomes idle or the first statement of its attempt, fileArg stays, and *)
(* its transaction is gone.                                                *)
<1>4. ASSUME NEW s \in Sessions,
             \/ CheckAccessionIDExistsSame(s) \/ CheckAccessionIDExistsCount(s)
             \/ CheckAccessionIDExistsFail(s) \/ SetAccessionIDUpdate(s)
             \/ SetAccessionIDUpdateLost(s) \/ SetAccessionIDFail(s)
             \/ MapDatasetInsert(s) \/ MapBegin(s) \/ MapBeginFail(s)
             \/ MapCommit(s) \/ MapCommitLost(s) \/ MapAttemptFail(s)
      PROVE  \A t \in Sessions : AccSessionInv(t)'
  <2>1. /\ fileArg' = fileArg
        /\ txRows'[s] \subseteq txRows[s]
        /\ pc'[s] \in AccSteps => pc[s] \in AccSteps
        /\ AccFrame(s)
    BY <1>0, <1>4 DEF CheckAccessionIDExistsSame, CheckAccessionIDExistsCount,
       CheckAccessionIDExistsFail, SetAccessionIDUpdate,
       SetAccessionIDUpdateLost, SetAccessionIDFail, MapDatasetInsert, MapBegin,
       MapBeginFail, MapCommit, MapCommitLost, MapAttemptFail, Return, Retry,
       AccFrame, AccSteps, args
  <2>2. AccSessionInv(s)'
    BY <1>0, <1>a, <1>b, <1>c, <2>1 DEF AccSessionInv
  <2> QED BY <1>a, <1>b, <2>1, <2>2, AccFrameKeeps
(* The lookup finds a holder of the accession: the row it inserts names a *)
(* file with a stable id.                                                  *)
<1>5. ASSUME NEW s \in Sessions, MapLookupInsert(s)
      PROVE  \A t \in Sessions : AccSessionInv(t)'
  <2>1. PICK a \in todo[s], f \in FileIDs :
            /\ f \in HoldersOf(a)
            /\ txRows' = [txRows EXCEPT ![s] = @ \cup {<<a, f>>}]
    BY <1>5 DEF MapLookupInsert
  <2>2. stableID[f] # NoAcc
    BY <1>0, <2>1, SentinelAssumption DEF HoldersOf
  <2>3. /\ fileArg' = fileArg /\ pc'[s] \notin AccSteps /\ AccFrame(s)
    BY <1>0, <1>5, <2>1 DEF MapLookupInsert, AccFrame, AccSteps, args
  <2>4. AccSessionInv(s)'
    BY <1>0, <1>b, <1>c, <2>1, <2>2, <2>3 DEF AccSessionInv
  <2> QED BY <1>a, <1>b, <2>3, <2>4, AccFrameKeeps
<1> QED BY <1>1, <1>2, <1>3, <1>4, <1>5
       DEF Next, CallStep, RegisterFile, UpdateFileEventLog, vars, session, args

(* Only the Commit of a mapping call writes file_dataset, and it adds the  *)
(* rows of its own transaction, whether its reply arrives or not.         *)
LEMMA OnlyCommitWritesFileDataset ==
    ASSUME [Next]_vars
    PROVE  \/ fileDataset' = fileDataset
           \/ \E s \in Sessions :
                 fileDataset' = fileDataset \cup {<<r[2], dsArg[s]>> : r \in txRows[s]}
<1>1. CASE \E s \in Sessions : MapCommit(s) \/ MapCommitLost(s)
  BY <1>1 DEF MapCommit, MapCommitLost
<1>2. CASE ~\E s \in Sessions : MapCommit(s) \/ MapCommitLost(s)
  BY <1>2 DEF Next, CallStep, RegisterFile, UpdateFileEventLog,
     StartAssignAccession, StartMapFilesToDataset, CheckAccessionIDExistsSame,
     CheckAccessionIDExistsCount, CheckAccessionIDExistsFail,
     SetAccessionIDUpdate, SetAccessionIDUpdateLost, SetAccessionIDFail,
     MapDatasetInsert, MapBegin, MapBeginFail, MapLookupInsert, MapAttemptFail,
     vars, store
<1> QED BY <1>1, <1>2

LEMMA MappedFilesAccessionedKept ==
    ASSUME TypeOK, AccInv, [Next]_vars
    PROVE  MappedFilesAccessioned'
<1>0. /\ fileDataset \subseteq FileIDs \X DatasetIDs
      /\ txRows \in [Sessions -> SUBSET (AccessionIDs \X FileIDs)]
  BY DEF TypeOK, StoreTypeOK, SessionTypeOK
<1>a. Registered \subseteq Registered'
  BY RegisteredGrows
<1>b. \A f \in FileIDs : stableID[f] # NoAcc => stableID'[f] # NoAcc
  BY AccessionStays
<1>1. CASE fileDataset' = fileDataset
  BY <1>0, <1>1, <1>a, <1>b DEF AccInv, MappedFilesAccessioned
<1>2. ASSUME NEW s \in Sessions,
             fileDataset' = fileDataset \cup {<<r[2], dsArg[s]>> : r \in txRows[s]}
      PROVE  MappedFilesAccessioned'
  <2> SUFFICES ASSUME NEW x \in fileDataset'
               PROVE  x[1] \in Registered' /\ stableID'[x[1]] # NoAcc
    BY DEF MappedFilesAccessioned
  <2>1. CASE x \in fileDataset
    BY <1>0, <1>a, <1>b, <2>1 DEF AccInv, MappedFilesAccessioned
  <2>2. CASE x \notin fileDataset
    <3>1. PICK r \in txRows[s] : x = <<r[2], dsArg[s]>>
      BY <1>2, <2>2
    <3>2. r[2] \in FileIDs /\ stableID[r[2]] # NoAcc
      BY <1>0, <3>1 DEF AccInv, AccSessionInv
    <3>3. r[2] \in Registered
      BY <3>2 DEF AccInv, AccessionedRegistered
    <3> QED BY <1>a, <1>b, <3>1, <3>2, <3>3
  <2> QED BY <2>1, <2>2
<1> QED BY <1>1, <1>2, OnlyCommitWritesFileDataset

LEMMA AccInvInductive == TypeOK /\ AccInv /\ [Next]_vars => AccInv'
BY AccessionedRegisteredKept, AccSessionsKept, MappedFilesAccessionedKept
   DEF AccInv

LEMMA InitAccInv == Init => AccInv
BY SentinelAssumption
   DEF Init, AccInv, MappedFilesAccessioned, AccessionedRegistered,
       AccSessionInv, AccSteps

(* Every file_dataset row names a registered file holding a stable id, for *)
(* any number of sessions, files and attempts, lost replies included:      *)
(* MapFilesToDataset inserts only a file its lookup found by accession,    *)
(* a stable id once set is never cleared, and no files row is deleted.     *)
THEOREM MappedFilesAccessionedHolds == Spec => []MappedFilesAccessioned
<1>1. AccInv => MappedFilesAccessioned
  BY DEF AccInv
<1> QED BY <1>1, InitAccInv, AccInvInductive, TypeCorrect, PTL DEF Spec
=============================================================================
