----------------------------- MODULE SDAdbKeys -----------------------------
(***************************************************************************)
(* The encryption-key registry of the file store: AddKeyHash and           *)
(* SetKeyHash of package database (src/sda/cmd/finalize/finalize.md,      *)
(* lines 902-956).  The table encryption_keys and the column               *)
(* files.key_hash are the state; several sessions call the two operations  *)
(* concurrently.  Every round trip may fail before it takes effect, and,   *)
(* when LostReplies holds, a write may take effect while its reply is      *)
(* lost, so that the caller sees an error.                                 *)
(***************************************************************************)
EXTENDS Naturals

CONSTANTS
    Sessions,     \* concurrent callers
    KeyHashes,    \* key hashes the callers pass
    FileIDs,      \* file ids the callers pass
    Files,        \* the ids that have a files row
    RetryTimes,   \* attempts of AddKeyHash's loop (database.RetryTimes)
    LostReplies,  \* whether a committed write's reply can be lost
    NoKey         \* files.key_hash is NULL

ASSUME KeysAssumption ==
    /\ RetryTimes \in Nat \ {0}
    /\ LostReplies \in BOOLEAN
    /\ Files \subseteq FileIDs
    /\ NoKey \notin KeyHashes
    /\ KeyHashes # {} /\ FileIDs # {}

VARIABLES
    keys,       \* encryption_keys.key_hash
    fileKey,    \* files.key_hash
    pc,         \* the statement each session executes next
    count,      \* attempt number of AddKeyHash's loop
    hashArg,    \* key hash argument of the session's call
    fileArg,    \* file argument of SetKeyHash
    inserted,   \* history: the session's INSERT took effect in this call
    result      \* what the session's last call returned

vars == <<keys, fileKey, pc, count, hashArg, fileArg, inserted, result>>

PCs == {"idle", "add", "set_check", "set_update"}
Results == {"none", "ok", "err", "exists", "nokey"}

TypeOK ==
    /\ keys \subseteq KeyHashes
    /\ fileKey \in [FileIDs -> KeyHashes \cup {NoKey}]
    /\ pc \in [Sessions -> PCs]
    /\ count \in [Sessions -> 1..RetryTimes]
    /\ hashArg \in [Sessions -> KeyHashes]
    /\ fileArg \in [Sessions -> FileIDs]
    /\ inserted \in [Sessions -> BOOLEAN]
    /\ result \in [Sessions -> Results]

Init ==
    /\ keys = {}
    /\ fileKey = [f \in FileIDs |-> NoKey]
    /\ pc = [s \in Sessions |-> "idle"]
    /\ count = [s \in Sessions |-> 1]
    /\ hashArg = [s \in Sessions |-> CHOOSE k \in KeyHashes : TRUE]
    /\ fileArg = [s \in Sessions |-> CHOOSE f \in FileIDs : TRUE]
    /\ inserted = [s \in Sessions |-> FALSE]
    /\ result = [s \in Sessions |-> "none"]

(* The session's call returns r. *)
Return(s, r) ==
    /\ pc' = [pc EXCEPT ![s] = "idle"]
    /\ count' = [count EXCEPT ![s] = 1]
    /\ result' = [result EXCEPT ![s] = r]

(* Mutant: the loop bound tested with <= instead of <.                     *)
AddRetryOffByOne(s) ==
    IF count[s] <= RetryTimes
      THEN /\ count' = [count EXCEPT ![s] = @ + 1]
           /\ UNCHANGED <<pc, result>>
      ELSE Return(s, "err")

(* An attempt of AddKeyHash failed with an error other than "key hash      *)
(* already exists": sleep and retry, or return it after RetryTimes.        *)
AddRetry(s) ==
    IF count[s] < RetryTimes
      THEN /\ count' = [count EXCEPT ![s] = @ + 1]
           /\ UNCHANGED <<pc, result>>
      ELSE Return(s, "err")

StartAddKeyHash(s, k) ==
    /\ pc[s] = "idle"
    /\ pc' = [pc EXCEPT ![s] = "add"]
    /\ hashArg' = [hashArg EXCEPT ![s] = k]
    /\ inserted' = [inserted EXCEPT ![s] = FALSE]
    /\ result' = [result EXCEPT ![s] = "none"]
    /\ UNCHANGED <<keys, fileKey, count, fileArg>>

(* INSERT INTO sda.encryption_keys ... ON CONFLICT DO NOTHING inserts the  *)
(* row and returns nil.                                                    *)
AddKeyHashInsert(s) ==
    /\ pc[s] = "add"
    /\ hashArg[s] \notin keys
    /\ keys' = keys \cup {hashArg[s]}
    /\ inserted' = [inserted EXCEPT ![s] = TRUE]
    /\ Return(s, "ok")
    /\ UNCHANGED <<fileKey, hashArg, fileArg>>

(* The INSERT takes effect but its reply is lost: the loop retries.        *)
AddKeyHashInsertLost(s) ==
    /\ LostReplies
    /\ pc[s] = "add"
    /\ hashArg[s] \notin keys
    /\ keys' = keys \cup {hashArg[s]}
    /\ inserted' = [inserted EXCEPT ![s] = TRUE]
    /\ AddRetry(s)
    /\ UNCHANGED <<fileKey, hashArg, fileArg>>

(* The row exists: zero rows affected, "key hash already exists or no rows *)
(* were updated", which breaks the loop.                                   *)
AddKeyHashExists(s) ==
    /\ pc[s] = "add"
    /\ hashArg[s] \in keys
    /\ Return(s, "exists")
    /\ UNCHANGED <<keys, fileKey, hashArg, fileArg, inserted>>

AddKeyHashFail(s) ==
    /\ pc[s] = "add"
    /\ AddRetry(s)
    /\ UNCHANGED <<keys, fileKey, hashArg, fileArg, inserted>>

StartSetKeyHash(s, k, f) ==
    /\ pc[s] = "idle"
    /\ pc' = [pc EXCEPT ![s] = "set_check"]
    /\ hashArg' = [hashArg EXCEPT ![s] = k]
    /\ fileArg' = [fileArg EXCEPT ![s] = f]
    /\ inserted' = [inserted EXCEPT ![s] = FALSE]
    /\ result' = [result EXCEPT ![s] = "none"]
    /\ UNCHANGED <<keys, fileKey, count>>

(* Mutant: the UPDATE runs without the preceding lookup.                   *)
SetKeyHashCheckSkipped(s) ==
    /\ pc[s] = "set_check"
    /\ pc' = [pc EXCEPT ![s] = "set_update"]
    /\ UNCHANGED <<keys, fileKey, hashArg, fileArg, inserted, count, result>>

(* SELECT key_hash FROM sda.encryption_keys WHERE key_hash = $1: no row,   *)
(* or a failed query, is "keyhash not present in database".                *)
SetKeyHashCheck(s) ==
    /\ pc[s] = "set_check"
    /\ \/ /\ hashArg[s] \in keys
          /\ pc' = [pc EXCEPT ![s] = "set_update"]
          /\ UNCHANGED <<count, result>>
       \/ Return(s, "nokey")
    /\ UNCHANGED <<keys, fileKey, hashArg, fileArg, inserted>>

(* UPDATE sda.files SET key_hash = $1 WHERE id = $2; zero rows changed is  *)
(* an error.  The call has no retry loop.                                  *)
SetKeyHashUpdate(s) ==
    /\ pc[s] = "set_update"
    /\ \/ /\ fileArg[s] \in Files
          /\ fileKey' = [fileKey EXCEPT ![fileArg[s]] = hashArg[s]]
          /\ Return(s, "ok")
       \/ /\ fileArg[s] \in Files
          /\ LostReplies
          /\ fileKey' = [fileKey EXCEPT ![fileArg[s]] = hashArg[s]]
          /\ Return(s, "err")
       \/ /\ UNCHANGED fileKey
          /\ Return(s, "err")
    /\ UNCHANGED <<keys, hashArg, fileArg, inserted>>

Next ==
    \E s \in Sessions :
        \/ \E k \in KeyHashes : StartAddKeyHash(s, k)
        \/ \E k \in KeyHashes, f \in FileIDs : StartSetKeyHash(s, k, f)
        \/ AddKeyHashInsert(s)
        \/ AddKeyHashInsertLost(s)
        \/ AddKeyHashExists(s)
        \/ AddKeyHashFail(s)
        \/ SetKeyHashCheck(s)
        \/ SetKeyHashUpdate(s)

Spec == Init /\ [][Next]_vars

-----------------------------------------------------------------------------
(* Every files.key_hash names a registered key: SetKeyHash looks the key   *)
(* up before its UPDATE, in a separate round trip, and keys are never      *)
(* deleted, so a concurrent AddKeyHash cannot invalidate the lookup.       *)
KeyRefIntegrity ==
    \A f \in FileIDs : fileKey[f] # NoKey => fileKey[f] \in keys

(* AddKeyHash reports "key hash already exists" only when the key was      *)
(* registered by someone else: the error tells the caller its key was not  *)
(* added (the comment of the loop treats it as a definitive failure).      *)
AddKeyHashExistsSound ==
    \A s \in Sessions :
        pc[s] = "idle" /\ result[s] = "exists" => ~inserted[s]

(* The inductive form of KeyRefIntegrity: a session between the lookup and *)
(* the UPDATE of SetKeyHash holds a key that is registered, because        *)
(* nothing deletes from encryption_keys.                                   *)
KeyRefInv ==
    /\ TypeOK
    /\ KeyRefIntegrity
    /\ \A s \in Sessions : pc[s] = "set_update" => hashArg[s] \in keys

=============================================================================
