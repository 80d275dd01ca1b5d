--------------------------- MODULE AuthInfo_proofs ---------------------------
(***************************************************************************)
(* Proofs about the /info handler of sda-auth: type correctness, and that  *)
(* no handler keeps the key file open after it returns.                    *)
(***************************************************************************)
EXTENDS AuthInfo, TLAPS

USE AuthInfoAssumption

(* The inductive invariant: beyond the two properties it records that a   *)
(* handler about to write holds a key, so the reply it writes is typed.   *)
AuthInv ==
    /\ TypeOK
    /\ KeyFileReleased
    /\ \A r \in Requests : pc[r] = "write" => key[r] \in Keys

(* The handlers start idle with nothing sent: AuthInv holds initially.    *)
LEMMA InitAuthInv == Init => AuthInv
BY DEF Init, AuthInv, TypeOK, KeyFileReleased, Replies, NoReply, NoKey

LEMMA NextAuthInv == AuthInv /\ [Next]_vars => AuthInv'
<1> SUFFICES ASSUME AuthInv, [Next]_vars PROVE AuthInv'
  OBVIOUS
<1> USE DEF AuthInv, TypeOK, KeyFileReleased
<1>1. ASSUME NEW r \in Requests, Arrive(r) PROVE AuthInv'
  BY <1>1 DEF Arrive
<1>2. ASSUME NEW r \in Requests, OpenKeyFile(r) PROVE AuthInv'
  <2>1. ~holds[r]
    BY <1>2 DEF OpenKeyFile
  <2>2. CASE holds' = [holds EXCEPT ![r] = TRUE] /\ pc' = [pc EXCEPT ![r] = "read"]
           /\ UNCHANGED <<resp, keyFile, key>>
    BY <1>2, <2>2 DEF OpenKeyFile
  <2>3. CASE ReturnSilently(r) /\ UNCHANGED <<holds, keyFile, key>>
    BY <2>1, <2>3 DEF ReturnSilently, Replies, EmptyOK
  <2> QED BY <1>2, <2>2, <2>3 DEF OpenKeyFile
<1>3. ASSUME NEW r \in Requests, ReadKey(r) PROVE AuthInv'
  BY <1>3 DEF ReadKey, ReturnSilently, Replies, EmptyOK, NoKey
<1>4. ASSUME NEW r \in Requests, WriteInfo(r) PROVE AuthInv'
  <2>1. key[r] \in Keys
    BY <1>4 DEF WriteInfo, NoKey
  <2>2. CASE resp' = [resp EXCEPT ![r] = InfoReply(key[r])]
    BY <1>4, <2>1, <2>2 DEF WriteInfo, Replies
  <2>3. CASE UNCHANGED resp
    BY <1>4, <2>3 DEF WriteInfo
  <2> QED BY <1>4, <2>2, <2>3 DEF WriteInfo
<1>5. CASE UNCHANGED vars
  BY <1>5 DEF vars
<1> QED BY <1>1, <1>2, <1>3, <1>4, <1>5 DEF Next

LEMMA AuthInvHolds == Spec => []AuthInv
BY InitAuthInv, NextAuthInv, PTL DEF Spec

(* Type correctness of the handler model.                                  *)
THEOREM AuthTypeCorrect == Spec => []TypeOK
BY AuthInvHolds, PTL DEF AuthInv

(* The deferred file.Close: no handler that has left readPublicKeyFile     *)
(* holds the key file open, however many requests run at once.            *)
THEOREM KeyFileReleasedHolds == Spec => []KeyFileReleased
BY AuthInvHolds, PTL DEF AuthInv

=============================================================================
