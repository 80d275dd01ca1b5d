---------------------------- MODULE FileEventLog ----------------------------
(***************************************************************************)
(* The file event log as spec.md describes it (sections 3 and 4.1): an     *)
(* append-only sequence of entries, written by UpdateFileEventLog calls.   *)
(* A caller starts a call with an entry, records that entry one or more    *)
(* times while the call runs (a retried write may land twice), and         *)
(* finishes.  No entry is ever updated or deleted, and nothing is recorded *)
(* that no running call carries.                                           *)
(***************************************************************************)
EXTENDS Sequences

CONSTANTS
    Callers,   \* the sessions that call UpdateFileEventLog
    Entries,   \* file, event and correlation id of an entry
    Idle       \* the caller runs no UpdateFileEventLog call

VARIABLES
    events,    \* the log, oldest first
    pending    \* the entry each caller's running call writes, or Idle

logVars == <<events, pending>>

Init ==
    /\ events = <<>>
    /\ pending = [c \in Callers |-> Idle]

Begin(c, e) ==
    /\ pending[c] = Idle
    /\ pending' = [pending EXCEPT ![c] = e]
    /\ UNCHANGED events

(* The call's entry is appended; the call may end with this step.          *)
Record(c) ==
    /\ pending[c] # Idle
    /\ events' = Append(events, pending[c])
    /\ \/ pending' = pending
       \/ pending' = [pending EXCEPT ![c] = Idle]

Finish(c) ==
    /\ pending[c] # Idle
    /\ pending' = [pending EXCEPT ![c] = Idle]
    /\ UNCHANGED events

Next ==
    \E c \in Callers :
        \/ \E e \in Entries : Begin(c, e)
        \/ Record(c)
        \/ Finish(c)

Spec == Init /\ [][Next]_logVars

=============================================================================
