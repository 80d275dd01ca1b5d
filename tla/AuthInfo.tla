------------------------------ MODULE AuthInfo ------------------------------
(***************************************************************************)
(* The /info endpoint of sda-auth (src/sda-auth/info.go).  Iris runs the   *)
(* handler getInfo in a goroutine of its own for every request.  Each run  *)
(* opens the configured crypt4gh public-key file, parses it, closes it     *)
(* (deferred), hex-encodes the 32 key bytes and writes the Info record as  *)
(* JSON.  The handlers share no memory.  They do share the process's file  *)
(* descriptors, of which at most MaxOpen can be open at once, so one       *)
(* handler holding the key file open can make another one's os.Open fail. *)
(* When getInfo returns without writing, iris ends the request with its    *)
(* default status 200 and an empty body.                                   *)
(***************************************************************************)
EXTENDS Naturals, Sequences, FiniteSets

CONSTANTS
    Requests,    \* the requests served concurrently
    Keys,        \* key contents the file may hold: byte tuples
    Malformed,   \* the file exists but is not a crypt4gh public key
    Absent,      \* the file cannot be opened (missing, no permission)
    MaxOpen,     \* descriptors available to the handlers (RLIMIT_NOFILE)
    ClientID,    \* auth.OAuth2Config.ClientID
    JwtIssuer,   \* auth.Config.JwtIssuer
    S3Inbox      \* auth.Config.S3Inbox

ASSUME AuthInfoAssumption ==
    /\ MaxOpen \in Nat
    /\ Keys \subseteq Seq(0..255) \ {<<>>}  \* a key is 32 bytes, never none
    /\ Malformed \notin Keys /\ Absent \notin Keys /\ Malformed # Absent

VARIABLES
    keyFile,  \* what auth.Config.C4ghPubKey names on disk
    pc,       \* where each request's handler is
    holds,    \* the handler holds the key file open
    key,      \* the key bytes readPublicKeyFile returned to the handler
    resp      \* what the client of each request received

vars == <<keyFile, pc, holds, key, resp>>

(* hex.EncodeToString: every byte becomes two lower-case digits, high      *)
(* nibble first.                                                           *)
HexChars == <<"0","1","2","3","4","5","6","7","8","9","a","b","c","d","e","f">>

HexDigit(i, bytes) ==
    LET b == bytes[(i + 1) \div 2]
    IN  HexChars[(IF i % 2 = 1 THEN b \div 16 ELSE b % 16) + 1]

HexEncode(bytes) == [i \in 1..2 * Len(bytes) |-> HexDigit(i, bytes)]

(* The Info record getInfo builds and ctx.JSON serialises.                 *)
InfoOf(k) ==
    [client_id |-> ClientID, oidc_uri |-> JwtIssuer,
     public_key |-> HexEncode(k), inbox_uri |-> S3Inbox]

(* What a client has received: whether a response came, and its JSON      *)
(* body, empty or the one Info record.                                     *)
NoReply == [sent |-> FALSE, body |-> <<>>]
EmptyOK == [sent |-> TRUE, body |-> <<>>]
InfoReply(k) == [sent |-> TRUE, body |-> <<InfoOf(k)>>]

NoKey == <<>>
Replies == {NoReply, EmptyOK} \cup {InfoReply(k) : k \in Keys}

TypeOK ==
    /\ keyFile \in Keys \cup {Malformed, Absent}
    /\ pc \in [Requests -> {"idle", "open", "read", "write", "done"}]
    /\ holds \in [Requests -> BOOLEAN]
    /\ key \in [Requests -> Keys \cup {NoKey}]
    /\ resp \in [Requests -> Replies]

OpenCount == Cardinality({r \in Requests : holds[r]})

Init ==
    /\ keyFile \in Keys \cup {Malformed, Absent}
    /\ pc = [r \in Requests |-> "idle"]
    /\ holds = [r \in Requests |-> FALSE]
    /\ key = [r \in Requests |-> NoKey]
    /\ resp = [r \in Requests |-> NoReply]

(* getInfo returns without writing: iris answers 200 with no body.         *)
ReturnSilently(r) ==
    /\ pc' = [pc EXCEPT ![r] = "done"]
    /\ resp' = [resp EXCEPT ![r] = EmptyOK]

(* A request arrives; iris calls getInfo, which calls readPublicKeyFile.   *)
Arrive(r) ==
    /\ pc[r] = "idle"
    /\ pc' = [pc EXCEPT ![r] = "open"]
    /\ UNCHANGED <<keyFile, holds, key, resp>>

(* os.Open(filepath.Clean(filename)).  It fails when the file cannot be    *)
(* opened or no descriptor is free; readPublicKeyFile returns the error    *)
(* and getInfo logs it and returns.                                        *)
OpenKeyFile(r) ==
    /\ pc[r] = "open"
    /\ \/ /\ keyFile # Absent
          /\ OpenCount < MaxOpen
          /\ holds' = [holds EXCEPT ![r] = TRUE]
          /\ pc' = [pc EXCEPT ![r] = "read"]
          /\ UNCHANGED resp
       \/ /\ keyFile = Absent \/ OpenCount >= MaxOpen
          /\ ReturnSilently(r)
          /\ UNCHANGED holds
    /\ UNCHANGED <<keyFile, key>>

(* Mutant: file.Close called on the success path only, not deferred.       *)
ReadKeyLeaky(r) ==
    /\ pc[r] = "read"
    /\ \/ /\ keyFile \in Keys
          /\ holds' = [holds EXCEPT ![r] = FALSE]
          /\ key' = [key EXCEPT ![r] = keyFile]
          /\ pc' = [pc EXCEPT ![r] = "write"]
          /\ UNCHANGED resp
       \/ /\ keyFile = Malformed
          /\ ReturnSilently(r)
          /\ UNCHANGED <<holds, key>>
    /\ UNCHANGED keyFile

(* Mutant: the error of keys.ReadPublicKey ignored.                       *)
ReadKeyIgnoringError(r) ==
    /\ pc[r] = "read"
    /\ holds' = [holds EXCEPT ![r] = FALSE]
    /\ key' = [key EXCEPT ![r] = keyFile]
    /\ pc' = [pc EXCEPT ![r] = "write"]
    /\ UNCHANGED <<keyFile, resp>>

(* keys.ReadPublicKey(file), then the deferred file.Close() on either      *)
(* return: the key bytes go back to getInfo, or the wrapped parse error,   *)
(* which getInfo logs before returning.                                    *)
ReadKey(r) ==
    /\ pc[r] = "read"
    /\ holds' = [holds EXCEPT ![r] = FALSE]
    /\ \/ /\ keyFile \in Keys
          /\ key' = [key EXCEPT ![r] = keyFile]
          /\ pc' = [pc EXCEPT ![r] = "write"]
          /\ UNCHANGED resp
       \/ /\ keyFile = Malformed
          /\ ReturnSilently(r)
          /\ UNCHANGED key
    /\ UNCHANGED keyFile

(* hex.EncodeToString, the Info record and ctx.JSON(info).  The write      *)
(* fails when the client has gone; getInfo logs that and returns.          *)
WriteInfo(r) ==
    /\ pc[r] = "write"
    /\ pc' = [pc EXCEPT ![r] = "done"]
    /\ \/ resp' = [resp EXCEPT ![r] = InfoReply(key[r])]
       \/ UNCHANGED resp
    /\ UNCHANGED <<keyFile, holds, key>>

Next ==
    \E r \in Requests :
        \/ Arrive(r)
        \/ OpenKeyFile(r)
        \/ ReadKey(r)
        \/ WriteInfo(r)

Spec == Init /\ [][Next]_vars

-----------------------------------------------------------------------------
(* No descriptor outlives its handler: a handler that has returned holds   *)
(* the key file closed, on the parse-error path as on the success path     *)
(* (the deferred file.Close), so finished requests never use up MaxOpen.   *)
KeyFileReleased ==
    \A r \in Requests : holds[r] => pc[r] = "read"

(* Every request that gets a 200 gets the Info record: a handler that      *)
(* cannot read the key answers with an error status, as the error policy   *)
(* of the services asks (spec §7: internal errors become 4xx/5xx).         *)
FailureAnswered ==
    \A r \in Requests : resp[r].sent => resp[r].body # <<>>

=============================================================================
