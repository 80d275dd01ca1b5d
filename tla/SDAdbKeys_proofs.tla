--------------------------- MODULE SDAdbKeys_proofs ---------------------------
(***************************************************************************)
(* Proofs about the key registry SDAdbKeys, for every value of its         *)
(* constants.                                                              *)
(***************************************************************************)
EXTENDS SDAdbKeys, TLAPS

USE KeysAssumption

(* Every step of the registry keeps KeyRefInv: keys only grow, the UPDATE  *)
(* of SetKeyHash writes a key its lookup found, and a session reaches the  *)
(* UPDATE only through that lookup.                                        *)
LEMMA KeyRefInvInductive == KeyRefInv /\ [Next]_vars => KeyRefInv'
<1> SUFFICES ASSUME KeyRefInv, [Next]_vars PROVE KeyRefInv'
  OBVIOUS
<1> USE DEF KeyRefInv, TypeOK, KeyRefIntegrity, PCs, Results
<1>1. ASSUME NEW s \in Sessions, NEW k \in KeyHashes, StartAddKeyHash(s, k)
      PROVE  KeyRefInv'
  BY <1>1 DEF StartAddKeyHash
<1>2. ASSUME NEW s \in Sessions, NEW k \in KeyHashes, NEW f \in FileIDs, StartSetKeyHash(s, k, f)
      PROVE  KeyRefInv'
  BY <1>2 DEF StartSetKeyHash
<1>3. ASSUME NEW s \in Sessions, AddKeyHashInsert(s)
      PROVE  KeyRefInv'
  BY <1>3 DEF AddKeyHashInsert, Return
<1>4. ASSUME NEW s \in Sessions, AddKeyHashInsertLost(s)
      PROVE  KeyRefInv'
  BY <1>4 DEF AddKeyHashInsertLost, AddRetry, Return
<1>5. ASSUME NEW s \in Sessions, AddKeyHashExists(s)
      PROVE  KeyRefInv'
  BY <1>5 DEF AddKeyHashExists, Return
<1>6. ASSUME NEW s \in Sessions, AddKeyHashFail(s)
      PROVE  KeyRefInv'
  BY <1>6 DEF AddKeyHashFail, AddRetry, Return
<1>7. ASSUME NEW s \in Sessions, SetKeyHashCheck(s)
      PROVE  KeyRefInv'
  BY <1>7 DEF SetKeyHashCheck, Return
<1>8. ASSUME NEW s \in Sessions, SetKeyHashUpdate(s)
      PROVE  KeyRefInv'
  BY <1>8 DEF SetKeyHashUpdate, Return
<1>9. CASE UNCHANGED vars
  BY <1>9 DEF vars
<1>10. QED
  BY <1>1, <1>2, <1>3, <1>4, <1>5, <1>6, <1>7, <1>8, <1>9 DEF Next

(* No file ever refers to an unregistered key: the lookup of SetKeyHash    *)
(* and its UPDATE are separate round trips, and the property holds for     *)
(* any number of sessions and keys because keys are never deleted.         *)
THEOREM KeyRefIntegrityHolds == Spec => []KeyRefIntegrity
<1>1. Init => KeyRefInv
  BY DEF Init, KeyRefInv, TypeOK, KeyRefIntegrity, PCs, Results
<1>2. KeyRefInv => KeyRefIntegrity
  BY DEF KeyRefInv
<1>3. QED
  BY <1>1, <1>2, KeyRefInvInductive, PTL DEF Spec

(* The registry's variables keep their types in every reachable state.     *)
THEOREM KeysTypeCorrect == Spec => []TypeOK
<1>1. Init => KeyRefInv
  BY DEF Init, KeyRefInv, TypeOK, KeyRefIntegrity, PCs, Results
<1>2. KeyRefInv => TypeOK
  BY DEF KeyRefInv
<1>3. QED
  BY <1>1, <1>2, KeyRefInvInductive, PTL DEF Spec

=============================================================================
