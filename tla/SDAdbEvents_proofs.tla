-------------------------- MODULE SDAdbEvents_proofs --------------------------
(***************************************************************************)
(* Proofs about the event log SDAdbEvents, for every number of sessions,   *)
(* files, events, correlation ids, attempts and statement starts.          *)
(***************************************************************************)
EXTENDS SDAdbEvents, SequenceTheorems, TLAPS

USE EventsAssumption

(* Every correlation id with rows has a row of highest id.  This is what   *)
(* makes ORDER BY id DESC LIMIT 1 (LatestByID) well defined; it is kept    *)
(* as part of the invariant because each append makes its own row the      *)
(* highest.                                                                *)
HasLatest ==
    \A c \in CorrIDs :
        IdsOf(c) # {} => \E i \in IdsOf(c) : \A j \in IdsOf(c) : j <= i

(* The inductive invariant behind ReadYourWrites: a session appending has  *)
(* no status result pending, an INSERT about to run carries a now() taken  *)
(* by its statement start, and the comparison of ReadYourWrites holds      *)
(* whatever the session is doing.                                          *)
EvInv ==
    /\ TypeOK
    /\ HasLatest
    /\ \A s \in Sessions : pc[s] \in {"append", "append_exec"} => readID[s] = 0
    /\ \A s \in Sessions : pc[s] = "append_exec" => stamp[s] \in 1..MaxClock
    /\ \A s \in Sessions : pc[s] # "idle" => count[s] < RetryTimes
    /\ \A s \in Sessions :
           readID[s] # 0 /\ own[s] # 0 /\ log[own[s]].corr = arg[s].corr
           => readID[s] >= own[s]

(* Appending a row keeps HasLatest: the new row is the highest of its      *)
(* correlation id, and the other ids keep their rows.                      *)
LEMMA AppendKeepsHasLatest ==
    ASSUME log \in Seq(Rows), HasLatest, NEW r \in Rows, log' = Append(log, r)
    PROVE  HasLatest'
<1> SUFFICES ASSUME NEW c \in CorrIDs, IdsOf(c)' # {}
             PROVE  \E i \in IdsOf(c)' : \A j \in IdsOf(c)' : j <= i
  BY DEF HasLatest
<1>1. /\ Len(log') = Len(log) + 1
      /\ \A i \in 1..Len(log) : log'[i] = log[i]
      /\ log'[Len(log) + 1] = r
  BY AppendProperties
<1>2. CASE r.corr = c
  <2>1. Len(log) + 1 \in IdsOf(c)'
    BY <1>1, <1>2 DEF IdsOf
  <2>2. \A j \in IdsOf(c)' : j <= Len(log) + 1
    BY <1>1 DEF IdsOf
  <2> QED BY <2>1, <2>2
<1>3. CASE r.corr # c
  <2>1. IdsOf(c)' = IdsOf(c)
    BY <1>1, <1>3 DEF IdsOf
  <2> QED BY <2>1 DEF HasLatest
<1> QED BY <1>2, <1>3

(* LatestByID picks the row of highest id of its correlation id.           *)
LEMMA LatestByIDIsMax ==
    ASSUME HasLatest, NEW c \in CorrIDs, IdsOf(c) # {}
    PROVE  /\ LatestByID(c) \in IdsOf(c)
           /\ \A j \in IdsOf(c) : j <= LatestByID(c)
BY DEF HasLatest, LatestByID

PCs == {"idle", "append", "append_exec", "status"}

(* The loop's bookkeeping keeps the session variables typed.               *)
LEMMA RetryTyped ==
    ASSUME NEW s \in Sessions, NEW st \in PCs,
           pc \in [Sessions -> PCs], count \in [Sessions -> 0..RetryTimes],
           result \in [Sessions -> {"none", "ok", "err"}],
           count[s] < RetryTimes, Retry(s, st)
    PROVE  /\ pc' \in [Sessions -> PCs]
           /\ count' \in [Sessions -> 0..RetryTimes]
           /\ result' \in [Sessions -> {"none", "ok", "err"}]
           /\ pc'[s] # "idle" => count'[s] < RetryTimes
           /\ \A t \in Sessions \ {s} : pc'[t] = pc[t] /\ count'[t] = count[t]
BY DEF Retry, PCs

LEMMA ReturnOKTyped ==
    ASSUME NEW s \in Sessions,
           pc \in [Sessions -> PCs], count \in [Sessions -> 0..RetryTimes],
           result \in [Sessions -> {"none", "ok", "err"}],
           count[s] < RetryTimes, ReturnOK(s)
    PROVE  /\ pc' \in [Sessions -> PCs]
           /\ count' \in [Sessions -> 0..RetryTimes]
           /\ result' \in [Sessions -> {"none", "ok", "err"}]
           /\ pc'[s] = "idle"
           /\ \A t \in Sessions \ {s} : pc'[t] = pc[t] /\ count'[t] = count[t]
BY DEF ReturnOK, PCs

(* A step that leaves the table alone keeps HasLatest.                     *)
LEMMA HasLatestUnchanged ==
    ASSUME HasLatest, log' = log
    PROVE  HasLatest'
BY DEF HasLatest, IdsOf

(* The row an INSERT appends is a row of the table.                        *)
LEMMA AppendRowTyped ==
    ASSUME EvInv, NEW s \in Sessions, pc[s] = "append_exec", AppendRow(s)
    PROVE  /\ log' = Append(log, [file |-> arg[s].file, event |-> arg[s].event,
                                  corr |-> arg[s].corr, started |-> stamp[s]])
           /\ [file |-> arg[s].file, event |-> arg[s].event,
               corr |-> arg[s].corr, started |-> stamp[s]] \in Rows
           /\ log' \in Seq(Rows)
           /\ Len(log') = Len(log) + 1
           /\ \A i \in 1..Len(log) : log'[i] = log[i]
           /\ log'[Len(log) + 1].corr = arg[s].corr
           /\ HasLatest'
<1>1. [file |-> arg[s].file, event |-> arg[s].event,
       corr |-> arg[s].corr, started |-> stamp[s]] \in Rows
  BY DEF EvInv, TypeOK, Rows, Args
<1>2. log \in Seq(Rows) /\ HasLatest
  BY DEF EvInv, TypeOK
<1> QED BY <1>1, <1>2, AppendProperties, AppendKeepsHasLatest DEF AppendRow

(* Every step keeps EvInv.                                                 *)
LEMMA EvInvInductive == EvInv /\ [Next]_vars => EvInv'
<1> SUFFICES ASSUME EvInv, [Next]_vars PROVE EvInv'
  OBVIOUS
<1>0. log \in Seq(Rows) /\ HasLatest
  BY DEF EvInv, TypeOK
<1> USE DEF EvInv, TypeOK
<1>1. ASSUME NEW s \in Sessions, NEW a \in Args, StartUpdateFileEventLog(s, a)
      PROVE  EvInv'
  <2>1. TypeOK'
    BY <1>1 DEF StartUpdateFileEventLog
  <2>2. HasLatest'
    BY <1>0, <1>1, HasLatestUnchanged DEF StartUpdateFileEventLog
  <2>3. \A t \in Sessions : pc'[t] \in {"append", "append_exec"} => readID'[t] = 0
    BY <1>1 DEF StartUpdateFileEventLog
  <2>4. \A t \in Sessions : pc'[t] = "append_exec" => stamp'[t] \in 1..MaxClock
    BY <1>1 DEF StartUpdateFileEventLog
  <2>5. \A t \in Sessions :
           readID'[t] # 0 /\ own'[t] # 0 /\ log'[own'[t]].corr = arg'[t].corr
           => readID'[t] >= own'[t]
    BY <1>1 DEF StartUpdateFileEventLog
  <2>6. \A t \in Sessions : pc'[t] # "idle" => count'[t] < RetryTimes
    BY <1>1 DEF StartUpdateFileEventLog
  <2> QED BY <2>1, <2>2, <2>3, <2>4, <2>5, <2>6
<1>2. ASSUME NEW s \in Sessions, NEW c \in CorrIDs, StartGetFileStatus(s, c)
      PROVE  EvInv'
  <2>0. arg'[s] = [file |-> arg[s].file, event |-> arg[s].event, corr |-> c]
    BY <1>2 DEF StartGetFileStatus, Args
  <2>1. TypeOK'
    BY <1>2, <2>0 DEF StartGetFileStatus, Args
  <2>2. HasLatest'
    BY <1>0, <1>2, HasLatestUnchanged DEF StartGetFileStatus, Args
  <2>3. \A t \in Sessions : pc'[t] \in {"append", "append_exec"} => readID'[t] = 0
    BY <1>2 DEF StartGetFileStatus, Args
  <2>4. \A t \in Sessions : pc'[t] = "append_exec" => stamp'[t] \in 1..MaxClock
    BY <1>2 DEF StartGetFileStatus, Args
  <2>5. \A t \in Sessions :
           readID'[t] # 0 /\ own'[t] # 0 /\ log'[own'[t]].corr = arg'[t].corr
           => readID'[t] >= own'[t]
    BY <1>2 DEF StartGetFileStatus, Args
  <2>6. \A t \in Sessions : pc'[t] # "idle" => count'[t] < RetryTimes
    BY <1>2 DEF StartGetFileStatus
  <2> QED BY <2>1, <2>2, <2>3, <2>4, <2>5, <2>6
<1>3. ASSUME NEW s \in Sessions, AppendStart(s)
      PROVE  EvInv'
  <2>1. TypeOK'
    BY <1>3 DEF AppendStart
  <2>2. HasLatest'
    BY <1>0, <1>3, HasLatestUnchanged DEF AppendStart
  <2>3. \A t \in Sessions : pc'[t] \in {"append", "append_exec"} => readID'[t] = 0
    BY <1>3 DEF AppendStart
  <2>4. \A t \in Sessions : pc'[t] = "append_exec" => stamp'[t] \in 1..MaxClock
    BY <1>3 DEF AppendStart
  <2>5. \A t \in Sessions :
           readID'[t] # 0 /\ own'[t] # 0 /\ log'[own'[t]].corr = arg'[t].corr
           => readID'[t] >= own'[t]
    BY <1>3 DEF AppendStart
  <2>6. \A t \in Sessions : pc'[t] # "idle" => count'[t] < RetryTimes
    BY <1>3 DEF AppendStart
  <2> QED BY <2>1, <2>2, <2>3, <2>4, <2>5, <2>6
<1>4. ASSUME NEW s \in Sessions, AppendInsert(s)
      PROVE  EvInv'
  <2>0. /\ pc[s] = "append_exec" /\ AppendRow(s) /\ readID[s] = 0
        /\ own' = [own EXCEPT ![s] = Len(log) + 1]
        /\ UNCHANGED <<clock, arg, stamp, readID>>
    BY <1>4 DEF AppendInsert
  <2>1. /\ log' \in Seq(Rows) /\ Len(log') = Len(log) + 1
        /\ \A i \in 1..Len(log) : log'[i] = log[i]
        /\ HasLatest'
    BY <2>0, AppendRowTyped
  <2>2. TypeOK'
    <3>0. ReturnOK(s) /\ count[s] < RetryTimes /\ pc \in [Sessions -> PCs]
      BY <1>4, <2>0 DEF AppendInsert, PCs
    <3>1. /\ pc' \in [Sessions -> PCs]
          /\ count' \in [Sessions -> 0..RetryTimes]
          /\ result' \in [Sessions -> {"none", "ok", "err"}]
      BY <3>0, ReturnOKTyped
    <3>2. own' \in [Sessions -> 0..Len(log')] /\ readID' \in [Sessions -> 0..Len(log')]
      BY <2>0, <2>1
    <3> QED BY <2>0, <2>1, <3>1, <3>2 DEF PCs
  <2>3. \A t \in Sessions : pc'[t] \in {"append", "append_exec"} => readID'[t] = 0
    BY <1>4, <2>0 DEF AppendInsert, ReturnOK
  <2>4. \A t \in Sessions : pc'[t] = "append_exec" => stamp'[t] \in 1..MaxClock
    BY <1>4, <2>0 DEF AppendInsert, ReturnOK
  <2>5. \A t \in Sessions :
           readID'[t] # 0 /\ own'[t] # 0 /\ log'[own'[t]].corr = arg'[t].corr
           => readID'[t] >= own'[t]
    <3> SUFFICES ASSUME NEW t \in Sessions, readID'[t] # 0, own'[t] # 0,
                        log'[own'[t]].corr = arg'[t].corr
                 PROVE  readID'[t] >= own'[t]
      OBVIOUS
    <3>1. t # s
      BY <2>0
    <3>2. own'[t] = own[t] /\ own[t] \in 1..Len(log)
      BY <2>0, <3>1
    <3> QED BY <2>0, <2>1, <3>2
  <2>6. \A t \in Sessions : pc'[t] # "idle" => count'[t] < RetryTimes
    BY <1>4 DEF AppendInsert, ReturnOK
  <2> QED BY <2>1, <2>2, <2>3, <2>4, <2>5, <2>6
<1>5. ASSUME NEW s \in Sessions, AppendInsertLost(s)
      PROVE  EvInv'
  <2>0. /\ pc[s] = "append_exec" /\ AppendRow(s) /\ readID[s] = 0
        /\ own' = [own EXCEPT ![s] = Len(log) + 1]
        /\ UNCHANGED <<clock, arg, stamp, readID>>
    BY <1>5 DEF AppendInsertLost
  <2>1. /\ log' \in Seq(Rows) /\ Len(log') = Len(log) + 1
        /\ \A i \in 1..Len(log) : log'[i] = log[i]
        /\ HasLatest'
    BY <2>0, AppendRowTyped
  <2>2. TypeOK'
    <3>0. Retry(s, "append") /\ count[s] < RetryTimes /\ pc \in [Sessions -> PCs]
          /\ "append" \in PCs
      BY <1>5, <2>0 DEF AppendInsertLost, PCs
    <3>1. /\ pc' \in [Sessions -> PCs]
          /\ count' \in [Sessions -> 0..RetryTimes]
          /\ result' \in [Sessions -> {"none", "ok", "err"}]
      BY <3>0, RetryTyped
    <3>2. own' \in [Sessions -> 0..Len(log')] /\ readID' \in [Sessions -> 0..Len(log')]
      BY <2>0, <2>1
    <3> QED BY <2>0, <2>1, <3>1, <3>2 DEF PCs
  <2>3. \A t \in Sessions : pc'[t] \in {"append", "append_exec"} => readID'[t] = 0
    BY <1>5, <2>0 DEF AppendInsertLost, Retry
  <2>4. \A t \in Sessions : pc'[t] = "append_exec" => stamp'[t] \in 1..MaxClock
    BY <1>5, <2>0 DEF AppendInsertLost, Retry
  <2>5. \A t \in Sessions :
           readID'[t] # 0 /\ own'[t] # 0 /\ log'[own'[t]].corr = arg'[t].corr
           => readID'[t] >= own'[t]
    <3> SUFFICES ASSUME NEW t \in Sessions, readID'[t] # 0, own'[t] # 0,
                        log'[own'[t]].corr = arg'[t].corr
                 PROVE  readID'[t] >= own'[t]
      OBVIOUS
    <3>1. t # s
      BY <2>0
    <3>2. own'[t] = own[t] /\ own[t] \in 1..Len(log)
      BY <2>0, <3>1
    <3> QED BY <2>0, <2>1, <3>2
  <2>6. \A t \in Sessions : pc'[t] # "idle" => count'[t] < RetryTimes
    BY <1>5 DEF AppendInsertLost, Retry
  <2> QED BY <2>1, <2>2, <2>3, <2>4, <2>5, <2>6
<1>6. ASSUME NEW s \in Sessions, AppendFail(s)
      PROVE  EvInv'
  <2>1. TypeOK'
    <3>1. /\ pc' \in [Sessions -> PCs]
          /\ count' \in [Sessions -> 0..RetryTimes]
          /\ result' \in [Sessions -> {"none", "ok", "err"}]
      <4>0. Retry(s, "append") /\ count[s] < RetryTimes /\ pc \in [Sessions -> PCs]
            /\ "append" \in PCs
        BY <1>6 DEF AppendFail, PCs
      <4> QED BY <4>0, RetryTyped
    <3> QED BY <1>6, <3>1 DEF AppendFail, PCs
  <2>2. HasLatest'
    BY <1>0, <1>6, HasLatestUnchanged DEF AppendFail, Retry
  <2>3. \A t \in Sessions : pc'[t] \in {"append", "append_exec"} => readID'[t] = 0
    BY <1>6 DEF AppendFail, Retry
  <2>4. \A t \in Sessions : pc'[t] = "append_exec" => stamp'[t] \in 1..MaxClock
    BY <1>6 DEF AppendFail, Retry
  <2>5. \A t \in Sessions :
           readID'[t] # 0 /\ own'[t] # 0 /\ log'[own'[t]].corr = arg'[t].corr
           => readID'[t] >= own'[t]
    BY <1>6 DEF AppendFail, Retry
  <2>6. \A t \in Sessions : pc'[t] # "idle" => count'[t] < RetryTimes
    BY <1>6 DEF AppendFail, Retry
  <2> QED BY <2>1, <2>2, <2>3, <2>4, <2>5, <2>6
<1>7. ASSUME NEW s \in Sessions, StatusRead(s)
      PROVE  EvInv'
  <2>0. /\ pc[s] = "status" /\ log' = log
        /\ UNCHANGED <<clock, arg, stamp, own>>
    BY <1>7 DEF StatusRead
  <2>1. HasLatest'
    BY <1>0, <2>0, HasLatestUnchanged
  <2>2. CASE IdsOf(arg[s].corr) # {}
    <3>1. /\ LatestByID(arg[s].corr) \in IdsOf(arg[s].corr)
          /\ \A j \in IdsOf(arg[s].corr) : j <= LatestByID(arg[s].corr)
      BY <1>0, <2>2, LatestByIDIsMax DEF Args
    <3>2. readID' = [readID EXCEPT ![s] = LatestByID(arg[s].corr)] /\ ReturnOK(s)
      BY <1>7, <2>2 DEF StatusRead
    <3>3. LatestByID(arg[s].corr) \in 1..Len(log)
      BY <3>1 DEF IdsOf
    <3>4. TypeOK'
      <4>0. ReturnOK(s) /\ count[s] < RetryTimes /\ pc \in [Sessions -> PCs]
        BY <2>0, <3>2 DEF PCs
      <4>1. /\ pc' \in [Sessions -> PCs]
            /\ count' \in [Sessions -> 0..RetryTimes]
            /\ result' \in [Sessions -> {"none", "ok", "err"}]
        BY <4>0, ReturnOKTyped
      <4>2. readID' \in [Sessions -> 0..Len(log')]
        <5> DEFINE m == LatestByID(arg[s].corr)
        <5>1. m \in 0..Len(log) /\ readID \in [Sessions -> 0..Len(log)]
          BY <3>3
        <5>2. readID' = [readID EXCEPT ![s] = m]
          BY <3>2
        <5> QED BY <2>0, <5>1, <5>2
      <4>3. UNCHANGED <<clock, arg, stamp, own>> /\ log' = log
        BY <2>0
      <4> QED BY <4>1, <4>2, <4>3 DEF PCs
    <3>5. own[s] # 0 /\ log[own[s]].corr = arg[s].corr => own[s] <= LatestByID(arg[s].corr)
      BY <3>1 DEF IdsOf
    <3>6. \A t \in Sessions :
              readID'[t] # 0 /\ own'[t] # 0 /\ log'[own'[t]].corr = arg'[t].corr
              => readID'[t] >= own'[t]
      BY <2>0, <3>2, <3>5
    <3> QED BY <2>0, <2>1, <3>2, <3>4, <3>6 DEF ReturnOK
  <2>3. CASE IdsOf(arg[s].corr) = {}
    <3>1. Retry(s, "status") /\ UNCHANGED readID
      BY <1>7, <2>3 DEF StatusRead
    <3>2. /\ pc' \in [Sessions -> PCs]
          /\ count' \in [Sessions -> 0..RetryTimes]
          /\ result' \in [Sessions -> {"none", "ok", "err"}]
          /\ pc'[s] # "idle" => count'[s] < RetryTimes
          /\ \A t \in Sessions \ {s} : pc'[t] = pc[t] /\ count'[t] = count[t]
      <4>0. count[s] < RetryTimes /\ pc \in [Sessions -> PCs] /\ "status" \in PCs
        BY <2>0 DEF PCs
      <4> QED BY <3>1, <4>0, RetryTyped
    <3>3. pc'[s] \in {"idle", "status"}
      BY <3>1 DEF Retry
    <3> QED BY <2>0, <2>1, <3>1, <3>2, <3>3 DEF PCs
  <2> QED BY <2>2, <2>3
<1>8. ASSUME NEW s \in Sessions, StatusFail(s)
      PROVE  EvInv'
  <2>1. TypeOK'
    <3>1. /\ pc' \in [Sessions -> PCs]
          /\ count' \in [Sessions -> 0..RetryTimes]
          /\ result' \in [Sessions -> {"none", "ok", "err"}]
      <4>0. Retry(s, "status") /\ count[s] < RetryTimes /\ pc \in [Sessions -> PCs]
            /\ "status" \in PCs
        BY <1>8 DEF StatusFail, PCs
      <4> QED BY <4>0, RetryTyped
    <3> QED BY <1>8, <3>1 DEF StatusFail, PCs
  <2>2. HasLatest'
    BY <1>0, <1>8, HasLatestUnchanged DEF StatusFail, Retry
  <2>3. \A t \in Sessions : pc'[t] \in {"append", "append_exec"} => readID'[t] = 0
    BY <1>8 DEF StatusFail, Retry
  <2>4. \A t \in Sessions : pc'[t] = "append_exec" => stamp'[t] \in 1..MaxClock
    BY <1>8 DEF StatusFail, Retry
  <2>5. \A t \in Sessions :
           readID'[t] # 0 /\ own'[t] # 0 /\ log'[own'[t]].corr = arg'[t].corr
           => readID'[t] >= own'[t]
    BY <1>8 DEF StatusFail, Retry
  <2>6. \A t \in Sessions : pc'[t] # "idle" => count'[t] < RetryTimes
    BY <1>8 DEF StatusFail, Retry
  <2> QED BY <2>1, <2>2, <2>3, <2>4, <2>5, <2>6
<1>9. CASE UNCHANGED vars
  <2>1. HasLatest'
    BY <1>0, <1>9, HasLatestUnchanged DEF vars
  <2> QED BY <1>9, <2>1 DEF vars
<1> QED BY <1>1, <1>2, <1>3, <1>4, <1>5, <1>6, <1>7, <1>8, <1>9 DEF Next

(* The log starts empty with every session idle: EvInv holds initially.    *)
LEMMA InitEvInv == Init => EvInv
<1> SUFFICES ASSUME Init PROVE EvInv
  OBVIOUS
<1>1. (CHOOSE a \in Args : TRUE) \in Args
  <2>1. \E a \in Args : TRUE
    <3>1. PICK f \in FileIDs, e \in Events, c \in CorrIDs : TRUE
      OBVIOUS
    <3>2. [file |-> f, event |-> e, corr |-> c] \in Args
      BY DEF Args
    <3> QED BY <3>2
  <2> QED BY <2>1
<1>2. HasLatest
  BY DEF Init, HasLatest, IdsOf
<1> QED BY <1>1, <1>2 DEF Init, EvInv, TypeOK

LEMMA EvInvHolds == Spec => []EvInv
BY InitEvInv, EvInvInductive, PTL DEF Spec

(* Type correctness of the event-log model: ids stay within the log and   *)
(* the retry counters within database.RetryTimes.                          *)
THEOREM EventsTypeCorrect == Spec => []TypeOK
BY EvInvHolds, PTL DEF EvInv

(* Read-your-writes of the event log: a session whose UpdateFileEventLog   *)
(* returned and whose later GetFileStatus for the same correlation id      *)
(* returned a row got its own row or a later one, whatever the other       *)
(* sessions appended meanwhile and however many attempts were lost.        *)
THEOREM ReadYourWritesHolds == Spec => []ReadYourWrites
<1>1. EvInv => ReadYourWrites
  BY DEF EvInv, ReadYourWrites
<1> QED BY <1>1, EvInvHolds, PTL

-----------------------------------------------------------------------------
(***************************************************************************)
(* SDAdbEvents implements the append-only log FileEventLog.                *)
(***************************************************************************)

(* The two sides of the refinement mapping of EventLog.                    *)
AbsEvents == [i \in 1..Len(log) |-> EntryOf(log[i])]
AbsPending == [s \in Sessions |-> IF Appending(s) THEN arg[s] ELSE NoCall]

LEMMA NoCallNotArg == NoCall \notin Args
BY DEF NoCall, Args

(* A row written from a call's arguments projects back to them.            *)
LEMMA EntryOfRow ==
    ASSUME NEW a \in Args, NEW t
    PROVE  EntryOf([file |-> a.file, event |-> a.event, corr |-> a.corr,
                    started |-> t]) = a
BY DEF EntryOf, Args

(* Appending a row appends its projection.                                 *)
LEMMA AbsEventsAppend ==
    ASSUME log \in Seq(Rows), NEW r, log' = Append(log, r)
    PROVE  AbsEvents' = Append(AbsEvents, EntryOf(r))
<1>1. /\ Len(log') = Len(log) + 1
      /\ \A i \in 1..Len(log) : log'[i] = log[i]
      /\ log'[Len(log) + 1] = r
  BY AppendProperties
<1> DEFINE E == {EntryOf(log[i]) : i \in 1..Len(log)} \cup {EntryOf(r)}
           A == Append(AbsEvents, EntryOf(r))
<1>2. AbsEvents \in Seq(E) /\ Len(AbsEvents) = Len(log)
  BY DEF AbsEvents
<1>3. /\ A \in Seq(E)
      /\ Len(A) = Len(log) + 1
      /\ \A i \in 1..Len(log) : A[i] = AbsEvents[i]
      /\ A[Len(log) + 1] = EntryOf(r)
  BY <1>2, AppendProperties
<1>4. DOMAIN A = 1..Len(log) + 1
  BY <1>3, LenProperties
<1>5. \A i \in 1..Len(log) + 1 : A[i] = EntryOf(log'[i])
  BY <1>1, <1>3 DEF AbsEvents
<1>6. A = [i \in 1..Len(log) + 1 |-> EntryOf(log'[i])]
  BY <1>4, <1>5, <1>3, LenProperties
<1> QED BY <1>1, <1>6 DEF AbsEvents

(* Every step of the sessions is a step of the append-only log: a call     *)
(* starting to append is Begin, a committed INSERT is Record (ending the   *)
(* call, or not when its reply is lost), an attempt that gives up is       *)
(* Finish, and everything else, the status reads included, leaves the log  *)
(* and the running appends as they were.                                   *)
LEMMA StepRefinesEventLog ==
    EvInv /\ [Next]_vars => [EventLog!Next]_EventLog!logVars
<1> SUFFICES ASSUME EvInv, [Next]_vars
             PROVE  [EventLog!Next]_EventLog!logVars
  OBVIOUS
<1>0. /\ log \in Seq(Rows)
      /\ pc \in [Sessions -> PCs] /\ arg \in [Sessions -> Args]
      /\ NoCall \notin Args
  BY NoCallNotArg DEF EvInv, TypeOK, PCs
<1> DEFINE Stutter == AbsEvents' = AbsEvents /\ AbsPending' = AbsPending
<1>1. Stutter => [EventLog!Next]_EventLog!logVars
  BY DEF EventLog!logVars, AbsEvents, AbsPending
(* A step of session s that keeps the log and whether s appends.           *)
<1>2. ASSUME NEW s \in Sessions, log' = log,
             \A t \in Sessions \ {s} : pc'[t] = pc[t] /\ arg'[t] = arg[t],
             pc' \in [Sessions -> PCs], arg' \in [Sessions -> Args],
             ~Appending(s), ~Appending(s)'
      PROVE  Stutter
  BY <1>0, <1>2 DEF AbsEvents, AbsPending, Appending
<1>3. ASSUME NEW s \in Sessions, NEW a \in Args, StartUpdateFileEventLog(s, a)
      PROVE  EventLog!Begin(s, a)
  <2>1. AbsPending[s] = NoCall
    BY <1>0, <1>3 DEF StartUpdateFileEventLog, AbsPending, Appending
  <2>2. AbsPending' = [AbsPending EXCEPT ![s] = a]
    BY <1>0, <1>3 DEF StartUpdateFileEventLog, AbsPending, Appending
  <2>3. AbsEvents' = AbsEvents
    BY <1>3 DEF StartUpdateFileEventLog, AbsEvents
  <2> QED BY <2>1, <2>2, <2>3 DEF EventLog!Begin, AbsEvents, AbsPending
<1>4. ASSUME NEW s \in Sessions, NEW c \in CorrIDs, StartGetFileStatus(s, c)
      PROVE  Stutter
  <2>1. arg' \in [Sessions -> Args]
    BY <1>0, <1>4 DEF StartGetFileStatus, Args
  <2> QED BY <1>0, <1>2, <1>4, <2>1 DEF StartGetFileStatus, Appending, PCs
<1>5. ASSUME NEW s \in Sessions, AppendStart(s)
      PROVE  Stutter
  BY <1>0, <1>5 DEF AppendStart, AbsEvents, AbsPending, Appending
<1>6. ASSUME NEW s \in Sessions, StatusRead(s) \/ StatusFail(s)
      PROVE  Stutter
  <2>1. pc'[s] \in {"idle", "status"} /\ pc' \in [Sessions -> PCs]
        /\ \A t \in Sessions \ {s} : pc'[t] = pc[t]
    BY <1>0, <1>6 DEF StatusRead, StatusFail, Retry, ReturnOK, PCs
  <2> QED BY <1>0, <1>2, <1>6, <2>1 DEF StatusRead, StatusFail, Appending
<1>7. ASSUME NEW s \in Sessions, AppendInsert(s)
      PROVE  EventLog!Record(s)
  <2>1. pc[s] = "append_exec" /\ AbsPending[s] = arg[s] /\ arg[s] # NoCall
    BY <1>0, <1>7 DEF AppendInsert, AbsPending, Appending
  <2>2. AbsEvents' = Append(AbsEvents, arg[s])
    <3>1. log' = Append(log, [file |-> arg[s].file, event |-> arg[s].event,
                              corr |-> arg[s].corr, started |-> stamp[s]])
      BY <1>7 DEF AppendInsert, AppendRow
    <3> QED BY <1>0, <3>1, AbsEventsAppend, EntryOfRow
  <2>3. AbsPending' = [AbsPending EXCEPT ![s] = NoCall]
    BY <1>0, <1>7 DEF AppendInsert, ReturnOK, AbsPending, Appending
  <2> QED BY <2>1, <2>2, <2>3 DEF EventLog!Record, AbsEvents, AbsPending
<1>8. ASSUME NEW s \in Sessions, AppendInsertLost(s)
      PROVE  EventLog!Record(s)
  <2>1. pc[s] = "append_exec" /\ AbsPending[s] = arg[s] /\ arg[s] # NoCall
    BY <1>0, <1>8 DEF AppendInsertLost, AbsPending, Appending
  <2>2. AbsEvents' = Append(AbsEvents, arg[s])
    <3>1. log' = Append(log, [file |-> arg[s].file, event |-> arg[s].event,
                              corr |-> arg[s].corr, started |-> stamp[s]])
      BY <1>8 DEF AppendInsertLost, AppendRow
    <3> QED BY <1>0, <3>1, AbsEventsAppend, EntryOfRow
  <2>3. AbsPending' = AbsPending \/ AbsPending' = [AbsPending EXCEPT ![s] = NoCall]
    BY <1>0, <1>8 DEF AppendInsertLost, Retry, AbsPending, Appending
  <2> QED BY <2>1, <2>2, <2>3 DEF EventLog!Record, AbsEvents, AbsPending
<1>9. ASSUME NEW s \in Sessions, AppendFail(s)
      PROVE  Stutter \/ EventLog!Finish(s)
  <2>1. pc[s] = "append_exec" /\ AbsPending[s] = arg[s] /\ arg[s] # NoCall
    BY <1>0, <1>9 DEF AppendFail, AbsPending, Appending
  <2>2. AbsEvents' = AbsEvents
    BY <1>9 DEF AppendFail, AbsEvents
  <2>3. AbsPending' = AbsPending \/ AbsPending' = [AbsPending EXCEPT ![s] = NoCall]
    BY <1>0, <1>9 DEF AppendFail, Retry, AbsPending, Appending
  <2> QED BY <2>1, <2>2, <2>3 DEF EventLog!Finish, AbsEvents, AbsPending
<1>10. CASE UNCHANGED vars
  BY <1>10, <1>1 DEF vars, AbsEvents, AbsPending, Appending
<1> QED
  <2>1. ASSUME NEW s \in Sessions,
               EventLog!Record(s) \/ EventLog!Finish(s)
                 \/ \E a \in Args : EventLog!Begin(s, a)
        PROVE  [EventLog!Next]_EventLog!logVars
    BY <2>1 DEF EventLog!Next
  <2> QED BY <1>1, <1>3, <1>4, <1>5, <1>6, <1>7, <1>8, <1>9, <1>10, <2>1 DEF Next

(* The concurrent, retrying UpdateFileEventLog calls and the status reads  *)
(* implement the append-only event log of the spec, for any number of     *)
(* sessions, attempts and lost replies: no row is ever changed or removed, *)
(* and each new row is the argument of a call that is running.             *)
THEOREM EventLogRefined == Spec => FileEventLogSpec
<1>1. Init => EventLog!Init
  <2> SUFFICES ASSUME Init PROVE EventLog!Init
    OBVIOUS
  <2>1. AbsEvents = <<>>
    BY DEF Init, AbsEvents
  <2>2. AbsPending = [s \in Sessions |-> NoCall]
    BY DEF Init, AbsPending, Appending
  <2> QED BY <2>1, <2>2 DEF EventLog!Init, AbsEvents, AbsPending
<1> QED
  BY <1>1, InitEvInv, EvInvInductive, StepRefinesEventLog, PTL
  DEF Spec, FileEventLogSpec, EventLog!Spec
=============================================================================
