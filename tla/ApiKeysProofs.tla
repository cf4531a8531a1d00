---------------------------- MODULE ApiKeysProofs ----------------------------
(* What TLAPS proves of ApiKeys, for any set of requests. *)
EXTENDS ApiKeys, TLAPS

\* Type correctness: a key's row is never deleted and every validation is at
\* one of its awaits.
THEOREM TypeCorrectness == Spec => []TypeOK
<1>1. Init => TypeOK
  <2>1. Idle \in Validation
    BY DEF Idle, Validation
  <2> QED
    BY <2>1 DEF Init, TypeOK
<1>2. TypeOK /\ [Next]_vars => TypeOK'
  <2> SUFFICES ASSUME TypeOK, [Next]_vars PROVE TypeOK'
    OBVIOUS
  <2> USE DEF TypeOK
  <2>1. CASE CreateKey \/ Revoke \/ Expire
    BY <2>1 DEF CreateKey, Revoke, Expire
  <2>2. ASSUME NEW p \in Requests, Ask(p) \/ Validate(p) \/ Fail(p) PROVE TypeOK'
    <3> DEFINE At(pc) == [v[p] EXCEPT !.pc = pc]
    <3>1. v[p] \in Validation
      OBVIOUS
    <3>2. Idle \in Validation /\ [pc |-> "lookup", began |-> key] \in Validation
      BY DEF Idle, Validation
    <3>3. \A pc \in {"miss", "warm", "in"} : At(pc) \in Validation
      BY <3>1 DEF Validation
    <3>4. CASE Ask(p) \/ Fail(p)
      BY <3>2, <3>4 DEF Ask, Fail
    <3>5. CASE GetCachedKey(p)
      <4>1. v' = [v EXCEPT ![p] = At(IF cached THEN "in" ELSE "miss")]
        BY <3>5 DEF GetCachedKey
      <4> QED
        BY <3>3, <3>5, <4>1 DEF GetCachedKey
    <3>6. CASE FindByKeyHash(p)
      <4>1. v' = [v EXCEPT ![p] = IF key = "active" THEN At("warm") ELSE Idle]
        BY <3>6 DEF FindByKeyHash
      <4> QED
        BY <3>2, <3>3, <3>6, <4>1 DEF FindByKeyHash
    <3>7. CASE SetCachedKey(p)
      <4>1. v' = [v EXCEPT ![p] = At("in")]
        BY <3>7 DEF SetCachedKey
      <4> QED
        BY <3>3, <3>7, <4>1 DEF SetCachedKey
    <3>8. CASE Pass(p)
      BY <3>2, <3>8 DEF Pass
    <3> QED
      BY <2>2, <3>4, <3>5, <3>6, <3>7, <3>8 DEF Validate
  <2>3. CASE UNCHANGED vars
    BY <2>3 DEF vars
  <2> QED
    BY <2>1, <2>2, <2>3 DEF Next
<1> QED
  BY <1>1, <1>2, PTL DEF Spec

\* No step brings back a copy of a revoked key: a validation caches the key
\* only after it found an active row, and there is none any more.
LEMMA GoneStays == TypeOK /\ Gone /\ [Next]_vars => Gone'
<1> SUFFICES ASSUME TypeOK, Gone, [Next]_vars PROVE Gone'
  OBVIOUS
<1> USE DEF TypeOK, Gone, Idle
<1>1. CASE CreateKey \/ Revoke \/ Expire
  BY <1>1 DEF CreateKey, Revoke, Expire
<1>2. ASSUME NEW p \in Requests, Ask(p) \/ Fail(p) PROVE Gone'
  BY <1>2 DEF Ask, Fail
<1>3. ASSUME NEW p \in Requests, GetCachedKey(p) PROVE Gone'
  <2>1. v' = [v EXCEPT ![p].pc = "miss"]
    BY <1>3, Zenon DEF GetCachedKey
  <2> QED
    BY <1>3, <2>1 DEF GetCachedKey, Validation
<1>4. ASSUME NEW p \in Requests, FindByKeyHash(p) PROVE Gone'
  BY <1>4 DEF FindByKeyHash
<1>5. ASSUME NEW p \in Requests, SetCachedKey(p) \/ Pass(p) PROVE Gone'
  BY <1>5 DEF SetCachedKey, Pass
<1>6. CASE UNCHANGED vars
  BY <1>6 DEF vars
<1> QED
  BY <1>1, <1>2, <1>3, <1>4, <1>5, <1>6 DEF Next, Validate

\* Once the last copy of a revoked key is gone, it never comes back.
THEOREM RevocationHolds == Spec => RevocationIsFinal
<1>1. TypeOK /\ [Next]_vars => [Gone => Gone']_vars
  BY GoneStays
<1> QED
  BY <1>1, TypeCorrectness, PTL DEF Spec, RevocationIsFinal
=============================================================================
