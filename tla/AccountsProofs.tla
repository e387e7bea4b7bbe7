--------------------------- MODULE AccountsProofs ---------------------------
(***************************************************************************)
(* The quota lets through exactly what its limit allows, for every set of  *)
(* requests, buckets, limits and slots.  What a counter shows above the    *)
(* requests it granted is owed: at least one for every request that has    *)
(* still to take its increment back, more if some died first.  While       *)
(* anything is owed the limit is spent.                                    *)
(*                                                                         *)
(* The account's requests use the quota as RunQuota says: every step of    *)
(* Accounts is a step of QuotaNext or leaves the counters alone, so what   *)
(* is proved of the quota alone holds of the whole API.  Then the settings *)
(* and the sessions.                                                       *)
(***************************************************************************)
EXTENDS Accounts, FiniteSetTheorems, TLAPS

-----------------------------------------------------------------------------
(* The quota alone                                                         *)

\* Requests whose increment of k is still to be taken back.
Owes(a, k) ==
    /\ a.at \in {"decr", "expire"}
    /\ a.key = k
    /\ a.value > Limit[k[1]]
Owing(k) == {r \in Requests : Owes(asking[r], k)}

Owed(k) ==
    /\ granted[k] <= Limit[k[1]]
    /\ count[k] - granted[k] >= Cardinality(Owing(k))
    /\ count[k] > granted[k] => granted[k] = Limit[k[1]]

\* Who is to take an increment back was told that the limit is passed.
DecrAboveLimit ==
    \A r \in Requests :
        asking[r].at = "decr" => asking[r].value > Limit[asking[r].key[1]]

QuotaInv ==
    /\ QuotaTypeOK
    /\ DecrAboveLimit
    /\ \A k \in Keys \ gone : Owed(k)

AskingType ==
    {NotAsking}
    \union [at : {"incr", "expire", "decr", "yes", "refused"}, key : Keys, value : Int]

\* A request that asks has a key and a value.
LEMMA AskingHasKey ==
    ASSUME NEW a \in AskingType, a.at # "no"
    PROVE  a.key \in Keys /\ a.value \in Int /\ Limit[a.key[1]] \in Nat
<1>1. a \in [at : {"incr", "expire", "decr", "yes", "refused"}, key : Keys, value : Int]
  BY DEF AskingType, NotAsking
<1>2. a.key[1] \in Buckets
  BY <1>1 DEF Keys
<1> QED
  BY <1>1, <1>2, RunQuotaAssumption

LEMMA LimitOfKey ==
    ASSUME NEW k \in Keys
    PROVE  Limit[k[1]] \in Nat
  BY RunQuotaAssumption DEF Keys

\* The sets of debtors are finite.
LEMMA OwingFinite ==
    ASSUME NEW k
    PROVE  IsFiniteSet(Owing(k)) /\ Cardinality(Owing(k)) \in Nat
<1>1. Owing(k) \subseteq Requests
  BY DEF Owing
<1>2. IsFiniteSet(Owing(k))
  BY <1>1, RunQuotaAssumption, FS_Subset
<1> QED
  BY <1>2, FS_CardinalityType

\* What a step makes of one request changes the debtors by that request at most.
LEMMA OneChanges ==
    ASSUME NEW r \in Requests, NEW a, asking \in [Requests -> AskingType],
           asking' = [asking EXCEPT ![r] = a], NEW k
    PROVE  /\ Owes(a, k) => Owing(k)' = Owing(k) \union {r}
           /\ ~Owes(a, k) => Owing(k)' = Owing(k) \ {r}
  BY DEF Owing, Owes

THEOREM QuotaTypeCorrect ==
    ASSUME QuotaTypeOK, [QuotaNext]_quotaVars
    PROVE  QuotaTypeOK'
<1> USE DEF QuotaTypeOK
<1>0. asking \in [Requests -> AskingType]
  BY DEF AskingType
<1>1. CASE UNCHANGED quotaVars
  BY <1>1 DEF quotaVars
<1>2. ASSUME NEW r \in Requests, NEW b \in Buckets, Ask(r, b)
      PROVE  QuotaTypeOK'
  <2>1. <<b, slot>> \in Keys
    BY DEF Keys
  <2>2. Asking("incr", <<b, slot>>, 0) \in AskingType
    BY <2>1 DEF Asking, AskingType
  <2> QED
    BY <1>2, <2>2 DEF Ask, AskingType
<1>3. ASSUME NEW r \in Requests, Incr(r)
      PROVE  QuotaTypeOK'
  <2> DEFINE key == asking[r].key
             value == count[key] + 1
  <2>1. key \in Keys /\ value \in Int /\ Limit[key[1]] \in Nat
    BY <1>0, <1>3, AskingHasKey DEF Incr
  <2>2. Asking("expire", key, value) \in AskingType /\ Answered(key, value) \in AskingType
    BY <2>1 DEF Asking, Answered, AskingType
  <2>3. asking' \in [Requests -> AskingType]
    BY <1>0, <1>3, <2>2 DEF Incr
  <2>4. count' \in [Keys -> Int] /\ granted' \in [Keys -> Nat]
    BY <1>3, <2>1 DEF Incr
  <2> QED
    BY <1>3, <2>3, <2>4 DEF Incr, AskingType
<1>4. ASSUME NEW r \in Requests, SetTtl(r)
      PROVE  QuotaTypeOK'
  <2>1. asking[r].key \in Keys /\ asking[r].value \in Int
    BY <1>0, <1>4, AskingHasKey DEF SetTtl
  <2>2. Answered(asking[r].key, asking[r].value) \in AskingType
    BY <2>1 DEF Asking, Answered, AskingType
  <2> QED
    BY <1>4, <2>1, <2>2 DEF SetTtl, AskingType
<1>5. ASSUME NEW r \in Requests, Decr(r)
      PROVE  QuotaTypeOK'
  <2>1. asking[r].key \in Keys /\ asking[r].value \in Int
    BY <1>0, <1>5, AskingHasKey DEF Decr
  <2>2. Asking("refused", asking[r].key, asking[r].value) \in AskingType
    BY <2>1 DEF Asking, AskingType
  <2>3. count' \in [Keys -> Int]
    BY <1>5, <2>1 DEF Decr
  <2> QED
    BY <1>5, <2>2, <2>3 DEF Decr, AskingType
<1>6. ASSUME NEW r \in Requests, Return(r)
      PROVE  QuotaTypeOK'
  BY <1>6 DEF Return
<1>7. CASE NextSlot
  BY <1>7, RunQuotaAssumption DEF NextSlot, Slots
<1>8. ASSUME NEW k \in Keys, KeyExpires(k)
      PROVE  QuotaTypeOK'
  BY <1>8 DEF KeyExpires
<1>9. CASE ApiCrash
  BY <1>9 DEF ApiCrash
<1> QED
  BY <1>1, <1>2, <1>3, <1>4, <1>5, <1>6, <1>7, <1>8, <1>9 DEF QuotaNext

\* A step that leaves the counters alone and makes no new debtor keeps the debts.
LEMMA DebtsKept ==
    ASSUME NEW k \in Keys, Owed(k), QuotaTypeOK,
           count'[k] = count[k], granted'[k] = granted[k],
           Owing(k)' \subseteq Owing(k)
    PROVE  Owed(k)'
<1>1. Cardinality(Owing(k)') <= Cardinality(Owing(k)) /\ Cardinality(Owing(k)') \in Nat
  BY OwingFinite, FS_Subset, FS_CardinalityType
<1>2. count[k] \in Int /\ granted[k] \in Nat /\ Cardinality(Owing(k)) \in Nat
  BY OwingFinite DEF QuotaTypeOK
<1> QED
  BY <1>1, <1>2 DEF Owed

\* The INCR that grants, and the one that passes the limit.
LEMMA IncrKeeps ==
    ASSUME NEW r \in Requests, Incr(r), QuotaInv, NEW k \in Keys \ gone
    PROVE  Owed(k)'
<1> DEFINE key == asking[r].key
           value == count[key] + 1
           after == asking'[r]
<1>0. asking \in [Requests -> AskingType]
  BY DEF QuotaInv, QuotaTypeOK, AskingType
<1>1. key \in Keys /\ Limit[key[1]] \in Nat /\ count[key] \in Int /\ granted[key] \in Nat
  BY <1>0, AskingHasKey DEF Incr, QuotaInv, QuotaTypeOK
<1>2. Owed(k) /\ count[k] \in Int /\ granted[k] \in Nat /\ QuotaTypeOK
  BY DEF QuotaInv, QuotaTypeOK
<1>3. ~Owes(asking[r], k)
  BY DEF Incr, Owes
<1>4. after = IF value = 1 THEN Asking("expire", key, value) ELSE Answered(key, value)
  BY <1>0 DEF Incr
<1>5. asking' = [asking EXCEPT ![r] = after]
  BY <1>0 DEF Incr
<1>6. Owes(after, k) <=> (key = k /\ value > Limit[k[1]])
  BY <1>4, <1>1 DEF Asking, Answered, Owes
<1>7. r \notin Owing(k)
  BY <1>3 DEF Owing
<1>8. CASE key # k
  <2>1. Owing(k)' = Owing(k)
    BY <1>0, <1>5, <1>6, <1>7, <1>8, OneChanges
  <2>2. count'[k] = count[k] /\ granted'[k] = granted[k]
    BY <1>8, <1>1, <1>2 DEF Incr, QuotaTypeOK
  <2> QED
    BY <2>1, <2>2, <1>2, DebtsKept
<1>9. CASE key = k /\ value <= Limit[k[1]]
  <2>1. Owing(k)' = Owing(k)
    BY <1>0, <1>1, <1>2, <1>5, <1>6, <1>7, <1>9, OneChanges
  <2>2. count'[k] = count[k] + 1 /\ granted'[k] = granted[k] + 1
    BY <1>9, <1>1, <1>2 DEF Incr, QuotaTypeOK
  <2>3. Cardinality(Owing(k)) \in Nat
    BY OwingFinite
  <2>4. Limit[k[1]] \in Nat
    BY <1>1, <1>9
  <2>5. count[k] = granted[k]
    BY <1>2, <1>9, <2>3, <2>4 DEF Owed
  <2> QED
    BY <1>2, <1>9, <2>1, <2>2, <2>3, <2>4, <2>5 DEF Owed
<1>10. CASE key = k /\ value > Limit[k[1]]
  <2>1. Owing(k)' = Owing(k) \union {r}
    BY <1>0, <1>5, <1>6, <1>10, OneChanges
  <2>2. Cardinality(Owing(k)') = Cardinality(Owing(k)) + 1
    BY <2>1, <1>7, OwingFinite, FS_AddElement
  <2>3. count'[k] = count[k] + 1 /\ granted'[k] = granted[k]
    BY <1>10, <1>1, <1>2 DEF Incr, QuotaTypeOK
  <2>4. Cardinality(Owing(k)) \in Nat /\ Limit[k[1]] \in Nat
    BY OwingFinite, <1>1, <1>10
  <2>5. granted[k] = Limit[k[1]]
    BY <1>2, <1>10, <2>4 DEF Owed
  <2> QED
    BY <1>2, <2>2, <2>3, <2>4, <2>5 DEF Owed
<1> QED
  BY <1>1, <1>8, <1>9, <1>10

\* The DECR pays a debt.
LEMMA DecrKeeps ==
    ASSUME NEW r \in Requests, Decr(r), QuotaInv, NEW k \in Keys \ gone
    PROVE  Owed(k)'
<1> DEFINE key == asking[r].key
           after == Asking("refused", key, asking[r].value)
<1>0. asking \in [Requests -> AskingType]
  BY DEF QuotaInv, QuotaTypeOK, AskingType
<1>1. key \in Keys /\ asking[r].value \in Int
  BY <1>0, AskingHasKey DEF Decr
<1>2. Owed(k) /\ count[k] \in Int /\ granted[k] \in Nat /\ QuotaTypeOK
  BY DEF QuotaInv, QuotaTypeOK
<1>3. ~Owes(after, k)
  BY DEF Asking, Owes
<1>4. Owing(k)' = Owing(k) \ {r}
  BY <1>0, <1>3, OneChanges DEF Decr
<1>5. CASE key # k
  <2>1. count'[k] = count[k] /\ granted'[k] = granted[k]
    BY <1>5, <1>1, <1>2 DEF Decr, QuotaTypeOK
  <2> QED
    BY <2>1, <1>2, <1>4, DebtsKept
<1>6. CASE key = k
  <2>1. r \in Owing(k)
    BY <1>6 DEF Owing, Owes, Decr, QuotaInv, DecrAboveLimit
  <2>2. Cardinality(Owing(k)') = Cardinality(Owing(k)) - 1
    BY <2>1, <1>4, OwingFinite, FS_RemoveElement
  <2>3. count'[k] = count[k] - 1 /\ granted'[k] = granted[k]
    BY <1>6, <1>1, <1>2 DEF Decr, QuotaTypeOK
  <2>4. Cardinality(Owing(k)) \in Nat /\ Cardinality(Owing(k)') \in Nat
    BY OwingFinite, <1>4, FS_RemoveElement, FS_CardinalityType
  <2>5. count[k] > granted[k]
    BY <1>2, <2>2, <2>4 DEF Owed
  <2> QED
    BY <1>2, <2>2, <2>3, <2>4, <2>5 DEF Owed
<1> QED
  BY <1>5, <1>6

\* Nothing is owed at first.
LEMMA QuotaInitially == QuotaInit => QuotaInv
<1> SUFFICES ASSUME QuotaInit PROVE QuotaInv
  OBVIOUS
<1>1. QuotaTypeOK
  BY RunQuotaAssumption DEF QuotaInit, QuotaTypeOK, Slots
<1>2. DecrAboveLimit
  BY DEF QuotaInit, DecrAboveLimit, NotAsking
<1>3. ASSUME NEW k \in Keys
      PROVE  Owed(k)
  <2>1. Owing(k) = {}
    BY DEF QuotaInit, Owing, Owes, NotAsking
  <2>2. Cardinality(Owing(k)) = 0
    BY <2>1, FS_EmptySet
  <2> QED
    BY <2>2, LimitOfKey DEF QuotaInit, Owed
<1> QED
  BY <1>1, <1>2, <1>3 DEF QuotaInv

\* The invariant is inductive.
THEOREM QuotaInvariant == QuotaSpec => []QuotaInv
<1>1. QuotaInit => QuotaInv
  BY QuotaInitially
<1>2. QuotaInv /\ [QuotaNext]_quotaVars => QuotaInv'
  <2> SUFFICES ASSUME QuotaInv, [QuotaNext]_quotaVars PROVE QuotaInv'
    OBVIOUS
  <2>0. asking \in [Requests -> AskingType] /\ QuotaTypeOK /\ DecrAboveLimit
    BY DEF QuotaInv, QuotaTypeOK, AskingType
  <2>1. QuotaTypeOK'
    BY <2>0, QuotaTypeCorrect
  <2>2. DecrAboveLimit'
    <3>1. ASSUME NEW r \in Requests, NEW b \in Buckets, Ask(r, b)
          PROVE  DecrAboveLimit'
      BY <3>1, <2>0 DEF Ask, Asking, DecrAboveLimit
    <3>2. ASSUME NEW r \in Requests, Incr(r)
          PROVE  DecrAboveLimit'
      BY <3>2, <2>0 DEF Incr, Answered, Asking, DecrAboveLimit
    <3>3. ASSUME NEW r \in Requests, SetTtl(r)
          PROVE  DecrAboveLimit'
      BY <3>3, <2>0 DEF SetTtl, Answered, Asking, DecrAboveLimit
    <3>4. ASSUME NEW r \in Requests, Decr(r) \/ Return(r)
          PROVE  DecrAboveLimit'
      BY <3>4, <2>0 DEF Decr, Return, Asking, NotAsking, DecrAboveLimit
    <3>5. ASSUME NEW k \in Keys, KeyExpires(k)
          PROVE  DecrAboveLimit'
      BY <3>5, <2>0 DEF KeyExpires, DecrAboveLimit
    <3>6. CASE NextSlot \/ UNCHANGED quotaVars
      BY <3>6, <2>0 DEF NextSlot, quotaVars, DecrAboveLimit
    <3>7. CASE ApiCrash
      BY <3>7 DEF ApiCrash, NotAsking, DecrAboveLimit
    <3> QED
      BY <3>1, <3>2, <3>3, <3>4, <3>5, <3>6, <3>7 DEF QuotaNext
  <2>3. ASSUME NEW k \in Keys \ gone'
        PROVE  Owed(k)'
    <3>0. k \in Keys /\ (gone \subseteq gone' => k \in Keys \ gone)
      OBVIOUS
    <3>1. gone \subseteq gone'
      BY DEF QuotaNext, Ask, Incr, SetTtl, Decr, Return, NextSlot, KeyExpires, ApiCrash,
             quotaVars
    <3>2. k \in Keys \ gone /\ Owed(k)
      BY <3>0, <3>1 DEF QuotaInv
    <3>3. ASSUME NEW r \in Requests, NEW b \in Buckets, Ask(r, b)
          PROVE  Owed(k)'
      <4>1. ~Owes(Asking("incr", <<b, slot>>, 0), k)
        BY DEF Asking, Owes
      <4>2. Owing(k)' \subseteq Owing(k)
        BY <2>0, <3>3, <4>1, OneChanges DEF Ask
      <4> QED
        BY <3>2, <3>3, <4>2, <2>0, DebtsKept DEF Ask
    <3>4. ASSUME NEW r \in Requests, Incr(r)
          PROVE  Owed(k)'
      BY <3>2, <3>4, IncrKeeps
    <3>5. ASSUME NEW r \in Requests, SetTtl(r)
          PROVE  Owed(k)'
      <4> DEFINE after == Answered(asking[r].key, asking[r].value)
      <4>1. asking[r].key \in Keys /\ Limit[asking[r].key[1]] \in Nat
            /\ asking[r].value \in Int
        BY <2>0, <3>5, AskingHasKey DEF SetTtl
      <4>2. Owes(after, k) <=> Owes(asking[r], k)
        BY <3>5, <4>1 DEF SetTtl, Answered, Asking, Owes
      <4>3. Owing(k)' \subseteq Owing(k)
        BY <2>0, <3>5, <4>2 DEF SetTtl, Owing
      <4> QED
        BY <3>2, <3>5, <4>3, <2>0, DebtsKept DEF SetTtl
    <3>6. ASSUME NEW r \in Requests, Decr(r)
          PROVE  Owed(k)'
      BY <3>2, <3>6, DecrKeeps
    <3>7. ASSUME NEW r \in Requests, Return(r)
          PROVE  Owed(k)'
      <4>1. ~Owes(NotAsking, k)
        BY DEF NotAsking, Owes
      <4>2. Owing(k)' \subseteq Owing(k)
        BY <2>0, <3>7, <4>1, OneChanges DEF Return
      <4> QED
        BY <3>2, <3>7, <4>2, <2>0, DebtsKept DEF Return
    <3>8. CASE NextSlot \/ UNCHANGED quotaVars
      <4>1. Owing(k)' = Owing(k)
        BY <3>8 DEF NextSlot, quotaVars, Owing
      <4> QED
        BY <3>2, <3>8, <4>1, <2>0, DebtsKept DEF NextSlot, quotaVars
    <3>9. ASSUME NEW l \in Keys, KeyExpires(l)
          PROVE  Owed(k)'
      <4>1. k # l
        BY <3>9, <2>3 DEF KeyExpires
      <4>2. Owing(k)' = Owing(k)
        BY <3>9 DEF KeyExpires, Owing
      <4>3. count'[k] = count[k] /\ granted'[k] = granted[k]
        BY <3>9, <4>1, <2>0, <3>0 DEF KeyExpires, QuotaTypeOK
      <4> QED
        BY <3>2, <4>2, <4>3, <2>0, DebtsKept
    <3>10. CASE ApiCrash
      <4>1. Owing(k)' \subseteq Owing(k)
        BY <3>10 DEF ApiCrash, Owing, Owes, NotAsking
      <4> QED
        BY <3>2, <3>10, <4>1, <2>0, DebtsKept DEF ApiCrash
    <3> QED
      BY <3>3, <3>4, <3>5, <3>6, <3>7, <3>8, <3>9, <3>10 DEF QuotaNext
  <2> QED
    BY <2>1, <2>2, <2>3 DEF QuotaInv
<1> QED
  BY <1>1, <1>2, PTL DEF QuotaSpec

\* The types of the quota.
THEOREM QuotaTypes == QuotaSpec => []QuotaTypeOK
<1>1. QuotaInv => QuotaTypeOK
  BY DEF QuotaInv
<1> QED
  BY <1>1, QuotaInvariant, PTL

\* A counter lets no more through than its limit and refuses only when it is spent.
THEOREM QuotaExact == QuotaSpec => []QuotaIsExact
<1>1. QuotaInv => QuotaIsExact
  <2> SUFFICES ASSUME QuotaInv, NEW k \in Keys \ gone
               PROVE  /\ granted[k] <= Limit[k[1]]
                      /\ Refused(k) # {} => granted[k] = Limit[k[1]]
    BY DEF QuotaIsExact
  <2>1. Owed(k) /\ count[k] \in Int /\ granted[k] \in Nat
    BY DEF QuotaInv, QuotaTypeOK
  <2>2. ASSUME Refused(k) # {}
        PROVE  count[k] > granted[k]
    <3>1. Refused(k) \subseteq Owing(k)
      BY DEF Refused, Owing, Owes, QuotaInv, DecrAboveLimit
    <3>2. Cardinality(Owing(k)) \in Nat /\ Cardinality(Owing(k)) # 0
      BY <2>2, <3>1, OwingFinite, FS_EmptySet
    <3> QED
      BY <2>1, <3>2 DEF Owed
  <2> QED
    BY <2>1, <2>2 DEF Owed
<1> QED
  BY <1>1, QuotaInvariant, PTL

-----------------------------------------------------------------------------
(* The quota of the account's requests                                     *)

\* The handlers that do not ask the quota leave the counters.
LEMMA QuotaKept ==
    ASSUME NEW r \in Requests,
           \/ NewRequest(r) \/ Auth(r) \/ DropExpired(r) \/ Issue(r) \/ Reply(r)
           \/ Logout(r) \/ ClearCookie(r)
           \/ RegisterLook(r) \/ Insert(r) \/ Login(r) \/ SetToken(r) \/ Mail(r)
           \/ ResendLook(r) \/ ResendCooldown(r) \/ Verify(r)
           \/ GoogleBySub(r) \/ GoogleMark(r) \/ GoogleByEmail(r) \/ GoogleLink(r)
           \/ SaveCheck(r) \/ ReadSettings(r) \/ WriteSettings(r)
           \/ StartMode(r) \/ StartKey(r)
    PROVE  UNCHANGED quotaVars
<1>1. CASE NewRequest(r)
  BY <1>1 DEF NewRequest, Send
<1>2. CASE SaveCheck(r) \/ ReadSettings(r) \/ WriteSettings(r)
  BY <1>2 DEF SaveCheck, ReadSettings, WriteSettings, NoteOverlap
<1>3. CASE RegisterLook(r) \/ Login(r) \/ ResendLook(r) \/ ResendCooldown(r)
           \/ GoogleBySub(r) \/ GoogleByEmail(r) \/ StartMode(r) \/ StartKey(r)
  BY <1>3 DEF RegisterLook, Login, ResendLook, ResendCooldown, GoogleBySub, GoogleByEmail,
              StartMode, StartKey, NoWrite, Same
<1>4. CASE Insert(r) \/ Verify(r) \/ GoogleMark(r) \/ GoogleLink(r)
  BY <1>4 DEF Insert, Verify, GoogleMark, GoogleLink, OnlyUser, Same
<1>5. CASE Auth(r) \/ DropExpired(r) \/ Issue(r) \/ Reply(r) \/ Logout(r) \/ ClearCookie(r)
           \/ SetToken(r) \/ Mail(r)
  BY <1>5 DEF Auth, DropExpired, Issue, Reply, Logout, ClearCookie, SetToken, Mail, Same
<1> QED
  BY <1>1, <1>2, <1>3, <1>4, <1>5

LEMMA QuotaStep ==
    ASSUME QuotaTypeOK, [Next]_vars
    PROVE  [QuotaNext]_quotaVars
<1>1. CASE UNCHANGED vars
  BY <1>1 DEF vars
<1>2. CASE \E r \in Requests : StartCharge(r)
  <2>1. PICK r \in Requests, b \in {"free", "full"} : Ask(r, b)
    BY <1>2 DEF StartCharge
  <2>2. b \in Buckets
    BY AccountsAssumption
  <2> QED
    BY <2>1, <2>2 DEF QuotaNext
<1>3. CASE \E r \in Requests : StartEnd(r)
  BY <1>3 DEF StartEnd, QuotaNext
<1>4. CASE Redis
  BY <1>4 DEF Redis, QuotaNext
<1>5. CASE Restart
  <2>1. CASE \E r \in Requests : asking[r].at # "no"
    BY <1>5, <2>1 DEF Restart, QuotaNext, ApiCrash
  <2>2. CASE \A r \in Requests : asking[r].at = "no"
    <3>1. \A r \in Requests : asking[r] = NotAsking
      BY <2>2 DEF QuotaTypeOK
    <3>2. asking' = asking
      BY <1>5, <3>1 DEF Restart, QuotaTypeOK
    <3> QED
      BY <1>5, <3>2 DEF Restart, quotaVars
  <2> QED
    BY <2>1, <2>2
<1>6. CASE (\E i \in touches : Touch(i)) \/ (\E s \in sessions : Ages(s)) \/ Cleanup
           \/ CooldownEnds
  BY <1>6 DEF Touch, Ages, Cleanup, CooldownEnds, OnlyUser, Same
<1>7. CASE \E r \in Requests :
             \/ NewRequest(r) \/ Auth(r) \/ DropExpired(r) \/ Issue(r) \/ Reply(r)
             \/ Logout(r) \/ ClearCookie(r)
             \/ RegisterLook(r) \/ Insert(r) \/ Login(r) \/ SetToken(r) \/ Mail(r)
             \/ ResendLook(r) \/ ResendCooldown(r) \/ Verify(r)
             \/ GoogleBySub(r) \/ GoogleMark(r) \/ GoogleByEmail(r) \/ GoogleLink(r)
             \/ SaveCheck(r) \/ ReadSettings(r) \/ WriteSettings(r)
             \/ StartMode(r) \/ StartKey(r)
  BY <1>7, QuotaKept
<1> QED
  BY <1>1, <1>2, <1>3, <1>4, <1>5, <1>6, <1>7 DEF Next

\* The requests of an account, the restarts of the process included, are an
\* implementation of the quota.
THEOREM AccountsUseQuota == Spec => QuotaSpec
<1>1. Init => QuotaInit /\ QuotaTypeOK
  <2>1. Init => QuotaInit
    BY DEF Init
  <2>2. QuotaInit => QuotaInv
    BY QuotaInitially
  <2> QED
    BY <2>1, <2>2 DEF QuotaInv
<1>2. QuotaTypeOK /\ [Next]_vars => QuotaTypeOK'
  BY QuotaStep, QuotaTypeCorrect
<1>3. QuotaTypeOK /\ [Next]_vars => [QuotaNext]_quotaVars
  BY QuotaStep
<1> QED
  BY <1>1, <1>2, <1>3, PTL DEF Spec, QuotaSpec

\* Whoever starts runs, in whatever mode and with whatever faults, a counter lets
\* through exactly its limit.
THEOREM QuotaStaysExact == Spec => []QuotaIsExact
  BY AccountsUseQuota, QuotaExact, PTL

-----------------------------------------------------------------------------
(* Types                                                                   *)

Settings == [mode : Modes, key : LlmKeys \union {0}]
Steps == {"idle", "auth", "expired", "issueJwt", "issue", "reply", "logout", "clear", "register",
          "insert", "login", "token", "mail", "look", "cooldown", "verify", "bySub", "mark",
          "byEmail", "link", "check", "read", "write", "mode", "key", "charge", "quota"}
Ops == Private \union {"none", "register", "login", "logout", "google", "verify"}
RequestType(n, t) ==
    [op : Ops, at : Steps, sess : 0..n, bearer : BOOLEAN, sub : Subs \union {0},
     key : LlmKeys \union {0}, token : 0..t, mode : AskedModes, old : Settings, set : BOOLEAN]
UserType(t) ==
    [on : BOOLEAN, pw : BOOLEAN, sub : Subs \union {0}, verified : BOOLEAN, token : 0..t,
     recent : BOOLEAN]

\* The rows of the account.
RowsOK ==
    /\ issued \in Nat /\ tokens \in Nat
    /\ user \in UserType(tokens)
    /\ settings \in Settings
    /\ sessions \subseteq [id : 1..issued, age : {"fresh", "expired"}]
    /\ touches \subseteq 1..issued
    /\ cookie \in 0..issued
    /\ letters \subseteq 1..tokens

RequestsOK == req \in [Requests -> RequestType(issued, tokens)]

\* Where a request is says what it has.
AtQuota == \A r \in Requests : asking[r].at # "no" => At(r, "start", "quota")
AtMail == \A r \in Requests : req[r].at = "mail" => req[r].token # 0

CountersOK == requests \in 0..MaxRequests /\ overlapped \in BOOLEAN

TypeInv ==
    /\ QuotaTypeOK /\ RowsOK /\ RequestsOK /\ AtQuota /\ AtMail /\ CountersOK

LEMMA TypesAreOK == TypeInv => TypeOK
  BY DEF TypeInv, TypeOK, RowsOK, AtQuota, CountersOK, UserType, Settings

\* The fields of a request.
LEMMA RequestFields ==
    ASSUME NEW n \in Nat, NEW t \in Nat, NEW x \in RequestType(n, t)
    PROVE  /\ \A a \in Steps : /\ [x EXCEPT !.at = a] \in RequestType(n, t)
                               /\ [x EXCEPT !.at = a].at = a
                               /\ [x EXCEPT !.at = a].op = x.op
                               /\ [x EXCEPT !.at = a].token = x.token
           /\ x.sess \in 0..n /\ x.sub \in Subs \union {0} /\ x.key \in LlmKeys \union {0}
           /\ x.token \in 0..t /\ x.mode \in AskedModes /\ x.old \in Settings
           /\ x.op \in Ops
  BY DEF RequestType

LEMMA IdleType ==
    ASSUME NEW n \in Nat, NEW t \in Nat
    PROVE  Idle \in RequestType(n, t) /\ Idle.at = "idle"
  BY DEF Idle, RequestType, Ops, Steps, AskedModes, Settings, NoSettings, Modes

\* The ids and tokens that a request may hold are still there after the next one is made.
LEMMA TypeGrows ==
    ASSUME NEW n \in Nat, NEW t \in Nat, NEW m \in Nat, NEW u \in Nat, n <= m, t <= u
    PROVE  RequestType(n, t) \subseteq RequestType(m, u)
  BY DEF RequestType

\* One request goes on and the quota stands still.
LEMMA OneGoes ==
    ASSUME TypeInv, NEW r \in Requests, RowsOK', issued <= issued', tokens <= tokens',
           UNCHANGED asking, req[r].at # "quota",
           NEW x \in RequestType(issued', tokens'), req' = [req EXCEPT ![r] = x],
           x.at = "mail" => x.token # 0
    PROVE  RequestsOK' /\ AtQuota' /\ AtMail'
<1>1. RequestType(issued, tokens) \subseteq RequestType(issued', tokens')
  BY TypeGrows DEF TypeInv, RowsOK
<1>2. req \in [Requests -> RequestType(issued', tokens')]
  BY <1>1 DEF TypeInv, RequestsOK
<1>3. RequestsOK'
  BY <1>2 DEF RequestsOK
<1>4. /\ req'[r] = x
      /\ \A q \in Requests \ {r} : req'[q] = req[q]
  BY <1>2
<1>5. asking[r].at = "no"
  BY DEF TypeInv, AtQuota, At
<1>6. AtQuota'
  BY <1>4, <1>5 DEF TypeInv, AtQuota, At
<1>7. AtMail'
  BY <1>4 DEF TypeInv, AtMail
<1> QED
  BY <1>3, <1>6, <1>7

LEMMA TypeInit == Init => TypeInv
<1> SUFFICES ASSUME Init PROVE TypeInv
  OBVIOUS
<1>1. QuotaTypeOK
  BY QuotaInitially DEF Init, QuotaInv
<1>2. issued \in {0, 1} /\ tokens = 0 /\ cookie = issued /\ letters = {} /\ touches = {}
  BY DEF Init
<1>3. user \in UserType(tokens)
  <2>1. NoUser \in UserType(0)
    BY DEF NoUser, UserType
  <2>2. \A x \in UserType(0) : [x EXCEPT !.on = TRUE, !.pw = TRUE] \in UserType(0)
    BY DEF UserType
  <2> QED
    BY <1>2, <2>1, <2>2 DEF Init
<1>4. settings \in Settings
  BY DEF Init, Settings, NoSettings, Modes
<1>5. sessions \subseteq [id : 1..issued, age : {"fresh", "expired"}]
  BY DEF Init
<1>6. RowsOK
  BY <1>2, <1>3, <1>4, <1>5 DEF RowsOK
<1>7. \A r \in Requests : req[r] = Idle /\ asking[r] = NotAsking
  BY DEF Init, QuotaInit
<1>8. RequestsOK
  BY <1>6, IdleType DEF Init, RequestsOK, RowsOK
<1>9. AtQuota /\ AtMail
  <2>1. Idle.at = "idle" /\ NotAsking.at = "no"
    BY DEF Idle, NotAsking
  <2> QED
    BY <1>7, <2>1 DEF AtQuota, AtMail
<1>10. CountersOK
  <2>1. requests = 0 /\ overlapped \in BOOLEAN
    BY DEF Init
  <2>2. requests \in 0..MaxRequests
    BY <2>1, AccountsAssumption
  <2> QED
    BY <2>1, <2>2 DEF CountersOK
<1> QED
  BY <1>1, <1>6, <1>8, <1>9, <1>10 DEF TypeInv

LEMMA GoesOn ==
    ASSUME TypeInv, NEW r \in Requests, RowsOK', issued <= issued', tokens <= tokens',
           UNCHANGED quotaVars, CountersOK', req[r].at # "quota",
           NEW x \in RequestType(issued', tokens'), req' = [req EXCEPT ![r] = x],
           x.at = "mail" => x.token # 0
    PROVE  TypeInv'
<1>1. UNCHANGED asking /\ QuotaTypeOK'
  BY DEF TypeInv, quotaVars, QuotaTypeOK
<1>2. RequestsOK' /\ AtQuota' /\ AtMail'
  BY <1>1, OneGoes
<1> QED
  BY <1>1, <1>2 DEF TypeInv

\* One request goes to another step or is done.
LEMMA GoesTo ==
    ASSUME TypeInv, NEW r \in Requests, RowsOK', issued' = issued, tokens' = tokens,
           UNCHANGED quotaVars, CountersOK', req[r].at # "quota",
           Done(r) \/ \E a \in Steps \ {"mail"} : GoTo(r, a)
    PROVE  TypeInv'
<1>1. issued \in Nat /\ tokens \in Nat /\ req[r] \in RequestType(issued, tokens)
  BY DEF TypeInv, RowsOK, RequestsOK
<1>a. issued <= issued' /\ tokens <= tokens'
  BY <1>1
<1>2. CASE Done(r)
  <2>1. Idle \in RequestType(issued', tokens') /\ Idle.at # "mail"
    BY <1>1, IdleType
  <2> QED
    BY <1>a, <1>2, <2>1, GoesOn DEF Done, Go
<1>3. CASE \E a \in Steps \ {"mail"} : GoTo(r, a)
  <2>1. PICK a \in Steps \ {"mail"} : GoTo(r, a)
    BY <1>3
  <2>2. PICK x : x = [req[r] EXCEPT !.at = a]
    OBVIOUS
  <2>3. x \in RequestType(issued', tokens') /\ x.at # "mail"
    BY <1>1, <2>2, RequestFields
  <2>4. req' = [req EXCEPT ![r] = x]
    BY <2>1, <2>2 DEF GoTo, Go
  <2> QED
    BY <1>a, <2>3, <2>4, GoesOn
<1> QED
  BY <1>2, <1>3

LEMMA RowsKept ==
    ASSUME TypeInv, UNCHANGED accountVars
    PROVE  RowsOK' /\ issued' = issued /\ tokens' = tokens
  BY DEF TypeInv, RowsOK, accountVars

LEMMA CountersKept ==
    ASSUME TypeInv, Same
    PROVE  CountersOK' /\ UNCHANGED quotaVars
  BY DEF TypeInv, CountersOK, Same

\* The handlers that only read.
LEMMA TypeRead ==
    ASSUME TypeInv, NEW r \in Requests,
           \/ RegisterLook(r) \/ Login(r) \/ ResendLook(r) \/ ResendCooldown(r)
           \/ GoogleBySub(r) \/ GoogleByEmail(r) \/ StartMode(r) \/ StartKey(r)
    PROVE  TypeInv'
<1>1. NoWrite /\ req[r].at # "quota"
  BY DEF RegisterLook, Login, ResendLook, ResendCooldown, GoogleBySub, GoogleByEmail,
         StartMode, StartKey, At
<1>2. RowsOK' /\ issued' = issued /\ tokens' = tokens /\ CountersOK' /\ UNCHANGED quotaVars
  BY <1>1, RowsKept, CountersKept DEF NoWrite
<1>3. Done(r) \/ \E a \in Steps \ {"mail"} : GoTo(r, a)
  <2>1. {"insert", "issue", "reply", "cooldown", "token", "mark", "byEmail", "link", "charge",
         "key"} \subseteq Steps \ {"mail"}
    BY DEF Steps
  <2>2. CASE RegisterLook(r) \/ Login(r)
    BY <2>1, <2>2 DEF RegisterLook, Login
  <2>3. CASE ResendLook(r) \/ ResendCooldown(r)
    BY <2>1, <2>3 DEF ResendLook, ResendCooldown
  <2>4. CASE GoogleBySub(r) \/ GoogleByEmail(r)
    BY <2>1, <2>4 DEF GoogleBySub, GoogleByEmail
  <2>5. CASE StartMode(r) \/ StartKey(r)
    BY <2>1, <2>5 DEF StartMode, StartKey
  <2> QED
    BY <2>2, <2>3, <2>4, <2>5
<1> QED
  BY <1>1, <1>2, <1>3, GoesTo

\* The steps that FirstStep, Auth and the others lead to.
LEMMA FirstStepType == \A op : FirstStep(op) \in Steps \ {"mail"}
  BY DEF FirstStep, Steps

\* The handlers that write one row and go to another step.
LEMMA TypeSession ==
    ASSUME TypeInv, NEW r \in Requests,
           Auth(r) \/ DropExpired(r) \/ Reply(r) \/ Logout(r) \/ ClearCookie(r)
    PROVE  TypeInv'
<1>1. /\ Same /\ req[r].at # "quota"
      /\ UNCHANGED <<user, settings, issued, tokens, letters>>
  BY DEF Auth, DropExpired, Reply, Logout, ClearCookie, At
<1>2. CountersOK' /\ UNCHANGED quotaVars
  BY <1>1, CountersKept
<1>3. req[r].sess \in 0..issued /\ issued \in Nat /\ tokens \in Nat
  BY RequestFields DEF TypeInv, RequestsOK, RowsOK
<1>4. sessions' \subseteq sessions
  BY DEF Auth, DropExpired, Reply, Logout, ClearCookie
<1>5. touches' \subseteq 1..issued
  <2>1. CASE Auth(r) /\ touches' = touches \union {req[r].sess}
                     /\ \E s \in sessions : s.id = req[r].sess
    <3>1. req[r].sess \in 1..issued
      BY <2>1 DEF TypeInv, RowsOK
    <3> QED
      BY <2>1, <3>1 DEF TypeInv, RowsOK
  <2>2. CASE touches' = touches
    BY <2>2 DEF TypeInv, RowsOK
  <2> QED
    BY <2>1, <2>2 DEF Auth, DropExpired, Reply, Logout, ClearCookie
<1>6. cookie' \in 0..issued
  BY <1>3 DEF TypeInv, RowsOK, Auth, DropExpired, Reply, Logout, ClearCookie
<1>7. RowsOK'
  BY <1>1, <1>4, <1>5, <1>6 DEF TypeInv, RowsOK
<1>8. Done(r) \/ \E a \in Steps \ {"mail"} : GoTo(r, a)
  <2>1. {"expired", "issueJwt", "clear"} \subseteq Steps \ {"mail"}
    BY DEF Steps
  <2>2. CASE Auth(r)
    BY <2>1, <2>2, FirstStepType DEF Auth
  <2>3. CASE DropExpired(r)
    BY <2>3, FirstStepType DEF DropExpired
  <2>4. CASE Reply(r) \/ ClearCookie(r)
    BY <2>4 DEF Reply, ClearCookie
  <2>5. CASE Logout(r)
    BY <2>1, <2>5 DEF Logout
  <2> QED
    BY <2>2, <2>3, <2>4, <2>5
<1> QED
  BY <1>1, <1>2, <1>7, <1>8, GoesTo

LEMMA TypeIssue ==
    ASSUME TypeInv, NEW r \in Requests, Issue(r)
    PROVE  TypeInv'
<1>1. /\ Same /\ req[r].at # "quota" /\ issued' = issued + 1
      /\ UNCHANGED <<user, settings, touches, cookie, tokens, letters>>
      /\ sessions' = sessions \union {[id |-> issued + 1, age |-> "fresh"]}
  BY DEF Issue
<1>2. CountersOK' /\ UNCHANGED quotaVars
  BY <1>1, CountersKept
<1>3. /\ issued \in Nat /\ tokens \in Nat /\ req[r] \in RequestType(issued, tokens)
      /\ issued <= issued' /\ tokens <= tokens'
  BY <1>1 DEF TypeInv, RowsOK, RequestsOK
<1>4. RowsOK'
  <2>1. [id |-> issued + 1, age |-> "fresh"] \in [id : 1..issued', age : {"fresh", "expired"}]
    BY <1>1, <1>3
  <2>2. [id : 1..issued, age : {"fresh", "expired"}]
          \subseteq [id : 1..issued', age : {"fresh", "expired"}]
    BY <1>1, <1>3
  <2>3. sessions' \subseteq [id : 1..issued', age : {"fresh", "expired"}]
    BY <1>1, <2>1, <2>2 DEF TypeInv, RowsOK
  <2>4. touches' \subseteq 1..issued' /\ cookie' \in 0..issued' /\ issued' \in Nat
    BY <1>1, <1>3 DEF TypeInv, RowsOK
  <2> QED
    BY <1>1, <2>3, <2>4 DEF TypeInv, RowsOK
<1>5. PICK a \in Steps \ {"mail"} :
        req' = [req EXCEPT ![r] = [req[r] EXCEPT !.sess = issued + 1, !.set = TRUE, !.at = a]]
  <2>1. CASE req[r].at = "issue"
    BY <2>1 DEF Issue, Go, Steps
  <2>2. CASE req[r].at = "issueJwt"
    <3>1. FirstStep(req[r].op) \in Steps \ {"mail"}
      BY FirstStepType
    <3> QED
      BY <2>2, <3>1 DEF Issue, Go
  <2> QED
    BY <2>1, <2>2 DEF Issue
<1>6. PICK x : x = [req[r] EXCEPT !.sess = issued + 1, !.set = TRUE, !.at = a]
  OBVIOUS
<1>7. x \in RequestType(issued', tokens') /\ x.at = a
  <2>1. req[r] \in RequestType(issued', tokens')
    BY <1>1, <1>3, TypeGrows
  <2>2. issued + 1 \in 0..issued'
    BY <1>1, <1>3
  <2> QED
    BY <1>6, <2>1, <2>2 DEF RequestType
<1> QED
  BY <1>1, <1>2, <1>3, <1>4, <1>5, <1>6, <1>7, GoesOn

LEMMA UserFields ==
    ASSUME NEW t \in Nat, NEW x \in UserType(t)
    PROVE  /\ \A b \in BOOLEAN : /\ [x EXCEPT !.verified = b] \in UserType(t)
                                 /\ [x EXCEPT !.recent = b] \in UserType(t)
           /\ \A s \in Subs \union {0} : [x EXCEPT !.sub = s] \in UserType(t)
           /\ \A n \in 0..t : [x EXCEPT !.token = n] \in UserType(t)
  BY DEF UserType

\* Only the row of users changes.
LEMMA TypeAccount ==
    ASSUME TypeInv, NEW r \in Requests,
           Insert(r) \/ Verify(r) \/ GoogleMark(r) \/ GoogleLink(r)
    PROVE  TypeInv'
<1>1. OnlyUser /\ req[r].at # "quota"
  BY DEF Insert, Verify, GoogleMark, GoogleLink, At
<1>2. /\ UNCHANGED <<settings, sessions, issued, touches, cookie, tokens, letters>>
      /\ CountersOK' /\ UNCHANGED quotaVars
  BY <1>1, CountersKept DEF OnlyUser
<1>3. /\ issued \in Nat /\ tokens \in Nat /\ user \in UserType(tokens)
      /\ req[r].sub \in Subs \union {0}
  BY RequestFields DEF TypeInv, RequestsOK, RowsOK
<1>4. user' \in UserType(tokens)
  <2>1. \A s \in Subs \union {0}, x \in UserType(tokens) :
          /\ [[x EXCEPT !.verified = TRUE] EXCEPT !.token = 0] \in UserType(tokens)
          /\ [[x EXCEPT !.sub = s] EXCEPT !.verified = TRUE] \in UserType(tokens)
    <3>1. 0 \in 0..tokens
      BY <1>3
    <3> QED
      BY <1>3, <3>1, UserFields
  <2>2. CASE Insert(r)
    <3>1. NoUser \in UserType(tokens)
      BY <1>3 DEF NoUser, UserType
    <3>2. \A b, c \in BOOLEAN, s \in Subs \union {0} :
            [NoUser EXCEPT !.on = TRUE, !.pw = b, !.sub = s, !.verified = c]
              \in UserType(tokens)
      BY <3>1 DEF UserType
    <3> QED
      BY <1>3, <2>2, <3>2 DEF Insert
  <2>3. CASE Verify(r)
    BY <1>3, <2>1, <2>3 DEF Verify
  <2>4. CASE GoogleMark(r)
    BY <1>3, <2>1, <2>4 DEF GoogleMark
  <2>5. CASE GoogleLink(r)
    BY <1>3, <2>1, <2>5 DEF GoogleLink
  <2> QED
    BY <2>2, <2>3, <2>4, <2>5
<1>5. RowsOK'
  BY <1>2, <1>4 DEF TypeInv, RowsOK
<1>6. Done(r) \/ \E a \in Steps \ {"mail"} : GoTo(r, a)
  <2>1. {"token", "issue"} \subseteq Steps \ {"mail"}
    BY DEF Steps
  <2> QED
    BY <2>1 DEF Insert, Verify, GoogleMark, GoogleLink
<1> QED
  BY <1>1, <1>2, <1>5, <1>6, GoesTo

LEMMA TypeSetToken ==
    ASSUME TypeInv, NEW r \in Requests, SetToken(r)
    PROVE  TypeInv'
<1>1. /\ Same /\ req[r].at # "quota" /\ tokens' = tokens + 1
      /\ UNCHANGED <<settings, sessions, issued, touches, cookie, letters>>
      /\ user' = [user EXCEPT !.token = tokens + 1, !.recent = TRUE]
      /\ req' = [req EXCEPT ![r] = [req[r] EXCEPT !.token = tokens + 1, !.at = "mail"]]
  BY DEF SetToken, Go
<1>2. CountersOK' /\ UNCHANGED quotaVars
  BY <1>1, CountersKept
<1>3. /\ issued \in Nat /\ tokens \in Nat /\ req[r] \in RequestType(issued, tokens)
      /\ issued <= issued' /\ tokens <= tokens' /\ user \in UserType(tokens)
  BY <1>1 DEF TypeInv, RowsOK, RequestsOK
<1>4. user' \in UserType(tokens')
  <2>1. user \in UserType(tokens') /\ tokens' \in Nat /\ tokens + 1 \in 0..tokens'
    BY <1>1, <1>3 DEF UserType
  <2>2. [user EXCEPT !.token = tokens + 1] \in UserType(tokens')
    BY <2>1, UserFields
  <2>3. user' = [[user EXCEPT !.token = tokens + 1] EXCEPT !.recent = TRUE]
    BY <1>1
  <2> QED
    BY <2>1, <2>2, <2>3, UserFields
<1>5. RowsOK'
  BY <1>1, <1>3, <1>4 DEF TypeInv, RowsOK
<1>6. PICK x : x = [req[r] EXCEPT !.token = tokens + 1, !.at = "mail"]
  OBVIOUS
<1>7. x \in RequestType(issued', tokens') /\ x.token # 0
  <2>1. req[r] \in RequestType(issued', tokens')
    BY <1>1, <1>3, TypeGrows
  <2>2. tokens + 1 \in 0..tokens' /\ tokens + 1 # 0 /\ "mail" \in Steps
    BY <1>1, <1>3 DEF Steps
  <2> QED
    BY <1>6, <2>1, <2>2 DEF RequestType
<1> QED
  BY <1>1, <1>2, <1>3, <1>5, <1>6, <1>7, GoesOn

LEMMA TypeMail ==
    ASSUME TypeInv, NEW r \in Requests, Mail(r)
    PROVE  TypeInv'
<1>1. /\ Same /\ req[r].at = "mail"
      /\ UNCHANGED <<user, settings, sessions, issued, touches, cookie, tokens>>
  BY DEF Mail
<1>2. CountersOK' /\ UNCHANGED quotaVars
  BY <1>1, CountersKept
<1>3. req[r].token \in 1..tokens /\ tokens \in Nat
  BY <1>1, RequestFields DEF TypeInv, RequestsOK, RowsOK, AtMail
<1>4. letters' \subseteq 1..tokens
  BY <1>3 DEF TypeInv, RowsOK, Mail
<1>5. RowsOK'
  BY <1>1, <1>4 DEF TypeInv, RowsOK
<1>6. \E a \in Steps \ {"mail"} : GoTo(r, a)
  BY DEF Mail, Steps
<1> QED
  BY <1>1, <1>2, <1>5, <1>6, GoesTo

LEMMA TypeSettings ==
    ASSUME TypeInv, NEW r \in Requests,
           SaveCheck(r) \/ ReadSettings(r) \/ WriteSettings(r)
    PROVE  TypeInv'
<1>1. /\ req[r].at # "quota" /\ UNCHANGED quotaVars /\ requests' = requests
      /\ UNCHANGED <<user, sessions, issued, touches, cookie, tokens, letters>>
      /\ overlapped' = overlapped \/ NoteOverlap(r)
  BY DEF SaveCheck, ReadSettings, WriteSettings, NoteOverlap, accountVars, At
<1>2. CountersOK'
  <2>1. overlapped' \in BOOLEAN
    BY <1>1 DEF TypeInv, CountersOK, NoteOverlap
  <2> QED
    BY <1>1, <2>1 DEF TypeInv, CountersOK
<1>3. /\ issued \in Nat /\ tokens \in Nat /\ req[r] \in RequestType(issued, tokens)
      /\ settings \in Settings
  BY DEF TypeInv, RowsOK, RequestsOK
<1>4. /\ req[r].old \in Settings /\ req[r].mode \in AskedModes
      /\ req[r].key \in LlmKeys \union {0}
  BY <1>3, RequestFields
<1>5. settings' \in Settings
  <2>1. CASE WriteSettings(r)
    <3>1. req[r].old.mode \in Modes /\ req[r].old.key \in LlmKeys \union {0}
      BY <1>4 DEF Settings
    <3>2. req[r].mode # "same" => req[r].mode \in Modes
      BY <1>4 DEF AskedModes
    <3>3. "none" \in Modes
      BY DEF Modes
    <3>4. PICK m \in Modes, k \in LlmKeys \union {0} : settings' = [mode |-> m, key |-> k]
      <4>1. CASE req[r].op = "remove"
        <5>1. settings' = [mode |-> IF req[r].old.mode = "byok" THEN "none"
                                    ELSE req[r].old.mode, key |-> 0]
          BY <2>1, <4>1 DEF WriteSettings
        <5> QED
          BY <3>1, <3>3, <5>1
      <4>2. CASE req[r].op # "remove"
        <5>1. settings' = [mode |-> IF req[r].mode = "same" THEN req[r].old.mode
                                    ELSE req[r].mode,
                           key |-> IF req[r].key = 0 THEN req[r].old.key ELSE req[r].key]
          BY <2>1, <4>2 DEF WriteSettings
        <5> QED
          BY <1>4, <3>1, <3>2, <5>1
      <4> QED
        BY <4>1, <4>2
    <3> QED
      BY <3>4 DEF Settings
  <2>2. CASE settings' = settings
    BY <1>3, <2>2
  <2> QED
    BY <2>1, <2>2 DEF SaveCheck, ReadSettings, accountVars
<1>6. RowsOK'
  BY <1>1, <1>5 DEF TypeInv, RowsOK
<1>7. CASE SaveCheck(r) \/ WriteSettings(r)
  <2>1. Done(r) \/ \E a \in Steps \ {"mail"} : GoTo(r, a)
    BY <1>7 DEF SaveCheck, WriteSettings, Steps
  <2> QED
    BY <1>1, <1>2, <1>6, <2>1, GoesTo
<1>8. CASE ReadSettings(r)
  <2>1. PICK x : x = [req[r] EXCEPT !.at = "write", !.old = settings]
    OBVIOUS
  <2>2. x \in RequestType(issued, tokens) /\ x.at = "write"
    <3>1. "write" \in Steps
      BY DEF Steps
    <3> QED
      BY <1>3, <2>1, <3>1 DEF RequestType
  <2>3. x \in RequestType(issued', tokens') /\ issued <= issued' /\ tokens <= tokens'
    BY <1>1, <1>3, <2>2
  <2>4. req' = [req EXCEPT ![r] = x]
    BY <1>8, <2>1 DEF ReadSettings, Go
  <2> QED
    BY <1>1, <1>2, <1>6, <2>2, <2>3, <2>4, GoesOn
<1> QED
  BY <1>7, <1>8

\* A new request, put together field by field.
MessageType(n, t) ==
    [op : Ops, at : Steps \ {"mail"}, sess : 0..n, bearer : BOOLEAN, sub : Subs \union {0},
     key : LlmKeys \union {0}, token : 0..t, mode : AskedModes, old : Settings, set : BOOLEAN]

LEMMA MessageFields ==
    ASSUME NEW n \in Nat, NEW t \in Nat, NEW x \in MessageType(n, t)
    PROVE  /\ x \in RequestType(n, t) /\ x.at # "mail"
           /\ \A op \in Ops : [x EXCEPT !.op = op] \in MessageType(n, t)
           /\ \A a \in Steps \ {"mail"} : [x EXCEPT !.at = a] \in MessageType(n, t)
           /\ \A c \in 0..n : [x EXCEPT !.sess = c] \in MessageType(n, t)
           /\ \A b \in BOOLEAN : [x EXCEPT !.bearer = b] \in MessageType(n, t)
           /\ \A u \in Subs \union {0} : [x EXCEPT !.sub = u] \in MessageType(n, t)
           /\ \A k \in LlmKeys \union {0} : [x EXCEPT !.key = k] \in MessageType(n, t)
           /\ \A u \in 0..t : [x EXCEPT !.token = u] \in MessageType(n, t)
           /\ \A m \in AskedModes : [x EXCEPT !.mode = m] \in MessageType(n, t)
  BY DEF MessageType, RequestType

LEMMA TypeNewRequest ==
    ASSUME TypeInv, NEW r \in Requests, NewRequest(r)
    PROVE  TypeInv'
<1>1. /\ issued \in Nat /\ tokens \in Nat /\ cookie \in 0..issued /\ letters \subseteq 0..tokens
      /\ req \in [Requests -> RequestType(issued, tokens)]
  BY DEF TypeInv, RowsOK, RequestsOK
<1>2. Idle \in MessageType(issued, tokens)
  <2>1. NoSettings \in Settings
    BY DEF NoSettings, Settings, Modes
  <2>2. "none" \in Ops /\ "idle" \in Steps \ {"mail"} /\ "same" \in AskedModes
    BY DEF Ops, Steps, AskedModes
  <2> QED
    BY <1>1, <2>1, <2>2 DEF Idle, MessageType
<1>3. /\ Private \union {"register", "login", "logout", "google", "verify"} \subseteq Ops
      /\ {"auth", "register", "login", "logout", "bySub", "verify"} \subseteq Steps \ {"mail"}
  BY DEF Ops, Steps
<1>4. PICK x \in MessageType(issued, tokens) : Send(r, x)
  <2>1. CASE \E op \in Private, b \in BOOLEAN, m \in AskedModes, k \in LlmKeys \union {0} :
               Send(r, [Idle EXCEPT !.op = op, !.at = "auth", !.sess = cookie, !.bearer = b,
                                    !.mode = m, !.key = k])
    <3>1. PICK op \in Private, b \in BOOLEAN, m \in AskedModes, k \in LlmKeys \union {0} :
            Send(r, [Idle EXCEPT !.op = op, !.at = "auth", !.sess = cookie, !.bearer = b,
                                 !.mode = m, !.key = k])
      BY <2>1
    <3>2. PICK x1 \in MessageType(issued, tokens) : x1 = [Idle EXCEPT !.op = op]
      BY <1>1, <1>2, <1>3, MessageFields
    <3>3. PICK x2 \in MessageType(issued, tokens) : x2 = [x1 EXCEPT !.at = "auth"]
      BY <1>1, <1>3, MessageFields
    <3>4. PICK x3 \in MessageType(issued, tokens) : x3 = [x2 EXCEPT !.sess = cookie]
      BY <1>1, MessageFields
    <3>5. PICK x4 \in MessageType(issued, tokens) : x4 = [x3 EXCEPT !.bearer = b]
      BY <1>1, MessageFields
    <3>6. PICK x5 \in MessageType(issued, tokens) : x5 = [x4 EXCEPT !.mode = m]
      BY <1>1, MessageFields
    <3>7. PICK x6 \in MessageType(issued, tokens) : x6 = [x5 EXCEPT !.key = k]
      BY <1>1, MessageFields
    <3>8. x6 = [Idle EXCEPT !.op = op, !.at = "auth", !.sess = cookie, !.bearer = b,
                            !.mode = m, !.key = k]
      BY <3>2, <3>3, <3>4, <3>5, <3>6, <3>7
    <3> QED
      BY <3>1, <3>8
  <2>2. CASE \E op \in {"register", "login", "logout"} :
               Send(r, [Idle EXCEPT !.op = op, !.at = op, !.sess = cookie])
    <3>1. PICK op \in {"register", "login", "logout"} :
            Send(r, [Idle EXCEPT !.op = op, !.at = op, !.sess = cookie])
      BY <2>2
    <3>2. PICK x1 \in MessageType(issued, tokens) : x1 = [Idle EXCEPT !.op = op]
      BY <1>1, <1>2, <1>3, MessageFields
    <3>3. PICK x2 \in MessageType(issued, tokens) : x2 = [x1 EXCEPT !.at = op]
      BY <1>1, <1>3, MessageFields
    <3>4. PICK x3 \in MessageType(issued, tokens) : x3 = [x2 EXCEPT !.sess = cookie]
      BY <1>1, MessageFields
    <3> QED
      BY <3>1, <3>2, <3>3, <3>4
  <2>3. CASE \E u \in Subs : Send(r, [Idle EXCEPT !.op = "google", !.at = "bySub", !.sub = u])
    <3>1. PICK u \in Subs : Send(r, [Idle EXCEPT !.op = "google", !.at = "bySub", !.sub = u])
      BY <2>3
    <3>2. PICK x1 \in MessageType(issued, tokens) : x1 = [Idle EXCEPT !.op = "google"]
      BY <1>1, <1>2, <1>3, MessageFields
    <3>3. PICK x2 \in MessageType(issued, tokens) : x2 = [x1 EXCEPT !.at = "bySub"]
      BY <1>1, <1>3, MessageFields
    <3>4. PICK x3 \in MessageType(issued, tokens) : x3 = [x2 EXCEPT !.sub = u]
      BY <1>1, MessageFields
    <3> QED
      BY <3>1, <3>2, <3>3, <3>4
  <2>4. CASE \E t \in letters :
               Send(r, [Idle EXCEPT !.op = "verify", !.at = "verify", !.token = t])
    <3>1. PICK t \in letters :
            Send(r, [Idle EXCEPT !.op = "verify", !.at = "verify", !.token = t])
      BY <2>4
    <3>2. PICK x1 \in MessageType(issued, tokens) : x1 = [Idle EXCEPT !.op = "verify"]
      BY <1>1, <1>2, <1>3, MessageFields
    <3>3. PICK x2 \in MessageType(issued, tokens) : x2 = [x1 EXCEPT !.at = "verify"]
      BY <1>1, <1>3, MessageFields
    <3>4. PICK x3 \in MessageType(issued, tokens) : x3 = [x2 EXCEPT !.token = t]
      BY <1>1, MessageFields
    <3> QED
      BY <3>1, <3>2, <3>3, <3>4
  <2> QED
    BY <2>1, <2>2, <2>3, <2>4 DEF NewRequest
<1>5. /\ UNCHANGED accountVars /\ overlapped' = overlapped /\ UNCHANGED quotaVars
      /\ requests' = requests + 1 /\ requests < MaxRequests
      /\ req[r] = Idle /\ req' = [req EXCEPT ![r] = x]
  BY <1>4 DEF Send, Go
<1>6. RowsOK' /\ issued' = issued /\ tokens' = tokens
  BY <1>5, RowsKept
<1>7. CountersOK'
  <2>1. requests' \in 0..MaxRequests
    BY <1>5, AccountsAssumption DEF TypeInv, CountersOK
  <2> QED
    BY <1>5, <2>1 DEF TypeInv, CountersOK
<1>8. req[r].at # "quota"
  BY <1>5 DEF Idle
<1>9. x \in RequestType(issued', tokens') /\ issued <= issued' /\ tokens <= tokens'
      /\ x.at # "mail"
  BY <1>1, <1>4, <1>6, MessageFields
<1> QED
  BY <1>5, <1>6, <1>7, <1>8, <1>9, GoesOn

LEMMA TypeStart ==
    ASSUME TypeInv, NEW r \in Requests, StartCharge(r) \/ StartEnd(r)
    PROVE  TypeInv'
<1>1. QuotaTypeOK'
  <2>1. QuotaNext
    <3>1. CASE StartCharge(r)
      <4>1. PICK b \in {"free", "full"} : Ask(r, b)
        BY <3>1 DEF StartCharge
      <4>2. b \in Buckets
        BY AccountsAssumption
      <4> QED
        BY <4>1, <4>2 DEF QuotaNext
    <3>2. CASE StartEnd(r)
      BY <3>2 DEF StartEnd, QuotaNext
    <3> QED
      BY <3>1, <3>2
  <2> QED
    BY <2>1, QuotaTypeCorrect DEF TypeInv
<1>2. RowsOK' /\ issued' = issued /\ tokens' = tokens /\ CountersOK'
  BY RowsKept DEF StartCharge, StartEnd, TypeInv, CountersOK
<1>3. PICK a \in {"quota", "reply"} : GoTo(r, a) /\ (a = "reply" => StartEnd(r))
                                     /\ (a = "quota" => StartCharge(r))
  BY DEF StartCharge, StartEnd
<1>4. issued \in Nat /\ tokens \in Nat /\ req \in [Requests -> RequestType(issued, tokens)]
  BY DEF TypeInv, RowsOK, RequestsOK
<1>5. PICK x : x = [req[r] EXCEPT !.at = a]
  OBVIOUS
<1>6. x \in RequestType(issued, tokens) /\ x.at = a /\ x.op = req[r].op
  <2>1. a \in Steps
    BY DEF Steps
  <2> QED
    BY <1>4, <1>5, <2>1, RequestFields
<1>7. /\ req' = [req EXCEPT ![r] = x]
      /\ req'[r] = x
      /\ \A q \in Requests \ {r} : req'[q] = req[q]
  BY <1>3, <1>4, <1>5 DEF GoTo, Go
<1>8. RequestsOK'
  BY <1>2, <1>4, <1>6, <1>7 DEF RequestsOK
<1>9. AtMail'
  BY <1>6, <1>7 DEF TypeInv, AtMail
<1>10. /\ \A q \in Requests \ {r} : asking'[q] = asking[q]
       /\ a = "reply" => asking'[r].at = "no"
  <2>1. asking \in [Requests -> AskingType]
    BY DEF TypeInv, QuotaTypeOK, AskingType
  <2>2. CASE StartCharge(r)
    BY <1>3, <2>1, <2>2 DEF StartCharge, StartEnd, Ask, Return, NotAsking
  <2>3. CASE StartEnd(r)
    BY <2>1, <2>3 DEF StartEnd, Return, NotAsking
  <2> QED
    BY <2>2, <2>3
<1>11. AtQuota'
  <2>1. a = "quota" => req[r].op = "start"
    BY <1>3 DEF StartCharge, At
  <2> QED
    BY <1>3, <1>6, <1>7, <1>10, <2>1 DEF TypeInv, AtQuota, At
<1> QED
  BY <1>1, <1>2, <1>8, <1>9, <1>11 DEF TypeInv

\* The clock, the cleanup and the touches change no request.
LEMMA TypeBackground ==
    ASSUME TypeInv,
           \/ \E i \in touches : Touch(i)
           \/ \E s \in sessions : Ages(s)
           \/ Cleanup \/ CooldownEnds
    PROVE  TypeInv'
<1>1. /\ Same
      /\ UNCHANGED <<settings, issued, cookie, tokens, letters, req>>
  BY DEF Touch, Ages, Cleanup, CooldownEnds, OnlyUser
<1>2. CountersOK' /\ UNCHANGED quotaVars
  BY <1>1, CountersKept
<1>3. tokens \in Nat /\ user \in UserType(tokens)
      /\ sessions \subseteq [id : 1..issued, age : {"fresh", "expired"}]
  BY DEF TypeInv, RowsOK
<1>4. user' \in UserType(tokens)
  BY <1>3, UserFields DEF Touch, Ages, Cleanup, CooldownEnds
<1>5. sessions' \subseteq [id : 1..issued, age : {"fresh", "expired"}]
  <2>1. \A s \in [id : 1..issued, age : {"fresh", "expired"}] :
          /\ [s EXCEPT !.age = "fresh"] \in [id : 1..issued, age : {"fresh", "expired"}]
          /\ [s EXCEPT !.age = "expired"] \in [id : 1..issued, age : {"fresh", "expired"}]
    OBVIOUS
  <2>2. CASE \E i \in touches : Touch(i)
    BY <1>3, <2>1, <2>2 DEF Touch
  <2>3. CASE \E s \in sessions : Ages(s)
    BY <1>3, <2>1, <2>3 DEF Ages
  <2>4. CASE Cleanup \/ CooldownEnds
    BY <1>3, <2>4 DEF Cleanup, CooldownEnds, OnlyUser
  <2> QED
    BY <2>2, <2>3, <2>4
<1>6. touches' \subseteq touches
  BY DEF Touch, Ages, Cleanup, CooldownEnds, OnlyUser
<1>7. RowsOK'
  BY <1>1, <1>4, <1>5, <1>6 DEF TypeInv, RowsOK
<1>8. RequestsOK' /\ AtQuota' /\ AtMail' /\ QuotaTypeOK'
  BY <1>1, <1>2 DEF TypeInv, RequestsOK, AtQuota, AtMail, At, quotaVars, QuotaTypeOK
<1> QED
  BY <1>2, <1>7, <1>8 DEF TypeInv

LEMMA TypeRedis ==
    ASSUME TypeInv, Redis
    PROVE  TypeInv'
<1>1. QuotaNext
  BY DEF Redis, QuotaNext
<1>2. QuotaTypeOK'
  BY <1>1, QuotaTypeCorrect DEF TypeInv
<1>3. RowsOK' /\ RequestsOK' /\ AtMail' /\ CountersOK' /\ req' = req
  <2>1. RowsOK' /\ issued' = issued /\ tokens' = tokens
    BY RowsKept DEF Redis
  <2>2. req' = req /\ requests' = requests /\ overlapped' = overlapped
    BY DEF Redis
  <2> QED
    BY <2>1, <2>2 DEF TypeInv, RequestsOK, AtMail, CountersOK
<1>4. \A q \in Requests : asking'[q].at # "no" => asking[q].at # "no"
  <2>1. CASE \E r \in Requests : Incr(r) \/ SetTtl(r) \/ Decr(r)
    <3>1. PICK r \in Requests : /\ asking[r].at # "no"
                                /\ \E a : asking' = [asking EXCEPT ![r] = a]
      BY <2>1 DEF Incr, SetTtl, Decr
    <3> QED
      BY <3>1 DEF TypeInv, QuotaTypeOK
  <2>2. CASE NextSlot \/ \E k \in Keys : KeyExpires(k)
    BY <2>2 DEF NextSlot, KeyExpires
  <2> QED
    BY <2>1, <2>2 DEF Redis
<1>5. AtQuota'
  BY <1>3, <1>4 DEF TypeInv, AtQuota, At
<1> QED
  BY <1>2, <1>3, <1>5 DEF TypeInv

LEMMA TypeRestart ==
    ASSUME TypeInv, Restart
    PROVE  TypeInv'
<1>1. \A r \in Requests : req'[r] = Idle /\ asking'[r] = NotAsking
  BY DEF Restart
<1>2. QuotaTypeOK'
  BY DEF Restart, TypeInv, QuotaTypeOK
<1>3. RowsOK' /\ CountersOK'
  BY DEF Restart, TypeInv, RowsOK, CountersOK
<1>4. RequestsOK'
  BY <1>3, IdleType DEF Restart, RequestsOK, RowsOK
<1>5. Idle.at = "idle" /\ NotAsking.at = "no"
  BY DEF Idle, NotAsking
<1>6. AtQuota' /\ AtMail'
  BY <1>1, <1>5 DEF AtQuota, AtMail
<1> QED
  BY <1>2, <1>3, <1>4, <1>6 DEF TypeInv

LEMMA TypeStep ==
    ASSUME TypeInv, [Next]_vars
    PROVE  TypeInv'
<1>1. CASE UNCHANGED vars
  BY <1>1, RowsKept DEF vars, accountVars, quotaVars, TypeInv, QuotaTypeOK, RequestsOK,
                        AtQuota, AtMail, At, CountersOK
<1>2. CASE \E r \in Requests :
             \/ NewRequest(r) \/ Auth(r) \/ DropExpired(r) \/ Issue(r) \/ Reply(r)
             \/ Logout(r) \/ ClearCookie(r)
  BY <1>2, TypeNewRequest, TypeSession, TypeIssue
<1>3. CASE \E r \in Requests :
             \/ RegisterLook(r) \/ Insert(r) \/ Login(r) \/ SetToken(r) \/ Mail(r)
             \/ ResendLook(r) \/ ResendCooldown(r) \/ Verify(r)
             \/ GoogleBySub(r) \/ GoogleMark(r) \/ GoogleByEmail(r) \/ GoogleLink(r)
  BY <1>3, TypeRead, TypeAccount, TypeSetToken, TypeMail
<1>4. CASE \E r \in Requests :
             \/ SaveCheck(r) \/ ReadSettings(r) \/ WriteSettings(r)
             \/ StartMode(r) \/ StartKey(r) \/ StartCharge(r) \/ StartEnd(r)
  BY <1>4, TypeRead, TypeSettings, TypeStart
<1>5. CASE \/ \E i \in touches : Touch(i)
           \/ \E s \in sessions : Ages(s)
           \/ Cleanup \/ CooldownEnds
  BY <1>5, TypeBackground
<1>6. CASE Redis \/ Restart
  BY <1>6, TypeRedis, TypeRestart
<1> QED
  BY <1>1, <1>2, <1>3, <1>4, <1>5, <1>6 DEF Next

LEMMA TypeInvariant == Spec => []TypeInv
  BY TypeInit, TypeStep, PTL DEF Spec

\* What the rows, the browser and the requests hold, for any number of requests.
THEOREM AccountTypes == Spec => []TypeOK
  BY TypeInvariant, TypesAreOK, PTL

-----------------------------------------------------------------------------
(* Sessions                                                                *)

\* A session that ended stays so, whatever requests, touches, cleanups and restarts come
\* after it: its row does not return, and an expired row is not touched into life unless
\* the touch was started while it was alive.
THEOREM EndedSessionsStayEnded == Spec => EndedStaysEnded
<1>1. ASSUME TypeInv, [Next]_vars
      PROVE  [\A i \in 1..issued : Ended(i) => Ended(i)']_vars
  <2>1. issued \in Nat /\ sessions \subseteq [id : 1..issued, age : {"fresh", "expired"}]
    BY <1>1 DEF TypeInv, RowsOK
  <2>2. CASE UNCHANGED <<sessions, touches>>
    BY <2>2 DEF Ended
  <2>3. CASE \E r \in Requests : Issue(r)
    <3>1. sessions' = sessions \union {[id |-> issued + 1, age |-> "fresh"]}
          /\ touches' = touches
      BY <2>3 DEF Issue
    <3>2. ASSUME NEW i \in 1..issued, NEW s \in sessions', s.id = i
          PROVE  s \in sessions
      BY <2>1, <3>1, <3>2
    <3> QED
      BY <3>1, <3>2 DEF Ended
  <2>4. CASE sessions' \subseteq sessions /\ touches' \subseteq touches
    BY <2>4 DEF Ended
  <2>5. CASE \E i : Touch(i)
    <3>1. PICK i : Touch(i)
      BY <2>5
    <3>2. i \in touches /\ touches' = touches \ {i}
      BY <3>1 DEF Touch
    <3>3. ASSUME NEW j \in 1..issued, Ended(j), NEW x \in sessions', x.id = j
          PROVE  x.age = "expired" /\ j \notin touches'
      <4>1. PICK s \in sessions : x = IF s.id = i THEN [s EXCEPT !.age = "fresh"] ELSE s
        BY <3>1, <3>3 DEF Touch
      <4>2. s.id = j
        BY <2>1, <3>3, <4>1
      <4>3. s.age = "expired" /\ j \notin touches
        BY <3>3, <4>2 DEF Ended
      <4> QED
        BY <3>2, <4>1, <4>2, <4>3
    <3> QED
      BY <3>3 DEF Ended
  <2>6. CASE \E s \in sessions : Ages(s)
    <3>1. PICK s \in sessions : s.age # "expired" /\ touches' = touches
                 /\ sessions' = (sessions \ {s}) \union {[s EXCEPT !.age = "expired"]}
      BY <2>6 DEF Ages
    <3>2. [s EXCEPT !.age = "expired"].id = s.id
      BY <2>1, <3>1
    <3> QED
      BY <3>1, <3>2 DEF Ended
  <2>7. CASE \E r \in Requests : DropExpired(r) \/ Logout(r)
    BY <2>4, <2>7 DEF DropExpired, Logout
  <2>8. CASE Cleanup \/ Restart
    BY <2>4, <2>8 DEF Cleanup, Restart
  <2>9. CASE \/ CooldownEnds \/ Redis
             \/ \E r \in Requests : StartCharge(r) \/ StartEnd(r) \/ NewRequest(r)
    BY <2>2, <2>9 DEF CooldownEnds, OnlyUser, Redis, StartCharge, StartEnd,
                      NewRequest, Send, accountVars
  <2>10. CASE \E r \in Requests :
                \/ Reply(r) \/ ClearCookie(r) \/ SetToken(r) \/ Mail(r)
                \/ Insert(r) \/ Verify(r) \/ GoogleMark(r) \/ GoogleLink(r)
    BY <2>2, <2>10 DEF Reply, ClearCookie, SetToken, Mail, Insert, Verify, GoogleMark,
                       GoogleLink, OnlyUser
  <2>11. CASE \E r \in Requests :
                \/ RegisterLook(r) \/ Login(r) \/ ResendLook(r) \/ ResendCooldown(r)
                \/ GoogleBySub(r) \/ GoogleByEmail(r)
                \/ SaveCheck(r) \/ ReadSettings(r) \/ WriteSettings(r)
                \/ StartMode(r) \/ StartKey(r)
    BY <2>2, <2>11 DEF RegisterLook, Login, ResendLook, ResendCooldown, GoogleBySub,
                       GoogleByEmail, SaveCheck, ReadSettings, WriteSettings, StartMode,
                       StartKey, NoWrite, accountVars
  <2>12. CASE UNCHANGED vars
    BY <2>2, <2>12 DEF vars, accountVars
  <2>13. CASE \E r \in Requests : Auth(r)
    <3>1. PICK r \in Requests : Auth(r)
      BY <2>13
    <3>2. \/ touches' = touches
          \/ /\ touches' = touches \union {req[r].sess}
             /\ \E s \in sessions : s.id = req[r].sess /\ s.age # "expired"
      BY <3>1 DEF Auth
    <3>3. sessions' = sessions
      BY <3>1 DEF Auth
    <3> QED
      BY <3>2, <3>3 DEF Ended
  <2> QED
    BY <1>1, <2>3, <2>5, <2>6, <2>7, <2>8, <2>9, <2>10, <2>11, <2>12, <2>13 DEF Next
<1> QED
  BY <1>1, TypeInvariant, PTL DEF Spec, EndedStaysEnded

-----------------------------------------------------------------------------
(* The settings                                                            *)

\* Only a save or a removal is between the reading and the writing of the settings.
ChangeOps == \A r \in Requests : req[r].at \in {"read", "write"} => req[r].op \in {"save", "remove"}

\* While changes come one at a time, what was read is what is there.
ByokInv ==
    /\ ChangeOps
    /\ \/ overlapped
       \/ /\ settings.mode = "byok" => settings.key # 0
          /\ \A r \in Requests : req[r].at = "write" => req[r].old = settings
          /\ \A r \in Requests :
               req[r].op = "save" /\ req[r].at \in {"read", "write"} /\ req[r].mode = "byok" =>
                 req[r].key # 0 \/ settings.key # 0

\* A step that changes no settings, and brings at most a removal to its first read.
Elsewhere ==
    /\ settings' = settings /\ overlapped' = overlapped
    /\ \A r \in Requests :
         \/ req'[r].at \notin {"read", "write"}
         \/ req'[r] = req[r]
         \/ req'[r].op = "remove" /\ req'[r].at = "read"

LEMMA ByokElsewhere ==
    ASSUME ByokInv, Elsewhere
    PROVE  ByokInv'
<1>1. ChangeOps'
  BY DEF ByokInv, ChangeOps, Elsewhere
<1> QED
  BY <1>1 DEF ByokInv, Elsewhere

LEMMA MovesElsewhere ==
    ASSUME TypeInv, NEW r \in Requests, NEW x, req' = [req EXCEPT ![r] = x],
           settings' = settings, overlapped' = overlapped,
           x.at \notin {"read", "write"} \/ (x.op = "remove" /\ x.at = "read")
    PROVE  Elsewhere
<1>1. req'[r] = x /\ \A q \in Requests \ {r} : req'[q] = req[q]
  BY DEF TypeInv, RequestsOK
<1> QED
  BY <1>1 DEF Elsewhere

LEMMA GoesElsewhere ==
    ASSUME TypeInv, NEW r \in Requests, settings' = settings, overlapped' = overlapped,
           \/ Done(r)
           \/ \E a \in Steps \ {"read", "write"} : GoTo(r, a)
           \/ GoTo(r, FirstStep(req[r].op))
    PROVE  Elsewhere
<1>1. issued \in Nat /\ tokens \in Nat /\ req[r] \in RequestType(issued, tokens)
  BY DEF TypeInv, RowsOK, RequestsOK
<1>2. CASE Done(r)
  <2>1. Idle.at = "idle"
    BY DEF Idle
  <2> QED
    BY <1>2, <2>1, MovesElsewhere DEF Done, Go
<1>3. CASE \E a \in Steps \ {"read", "write"} : GoTo(r, a)
  <2>1. PICK a \in Steps \ {"read", "write"} : GoTo(r, a)
    BY <1>3
  <2>2. PICK x : x = [req[r] EXCEPT !.at = a]
    OBVIOUS
  <2>3. x.at = a
    BY <1>1, <2>2, RequestFields
  <2> QED
    BY <2>1, <2>2, <2>3, MovesElsewhere DEF GoTo, Go
<1>4. CASE GoTo(r, FirstStep(req[r].op))
  <2>1. PICK a \in Steps : a = FirstStep(req[r].op)
    BY FirstStepType
  <2>2. a \in {"read", "write"} => a = "read" /\ req[r].op = "remove"
    BY <2>1 DEF FirstStep
  <2>3. PICK x : x = [req[r] EXCEPT !.at = a]
    OBVIOUS
  <2>4. x.at = a /\ x.op = req[r].op
    BY <1>1, <2>3, RequestFields
  <2> QED
    BY <1>4, <2>1, <2>2, <2>3, <2>4, MovesElsewhere DEF GoTo, Go
<1> QED
  BY <1>2, <1>3, <1>4

LEMMA ElsewhereStep ==
    ASSUME TypeInv, NEW r \in Requests,
           \/ Auth(r) \/ DropExpired(r) \/ Reply(r) \/ Logout(r) \/ ClearCookie(r)
           \/ RegisterLook(r) \/ Insert(r) \/ Login(r) \/ Mail(r)
           \/ ResendLook(r) \/ ResendCooldown(r) \/ Verify(r)
           \/ GoogleBySub(r) \/ GoogleMark(r) \/ GoogleByEmail(r) \/ GoogleLink(r)
           \/ StartMode(r) \/ StartKey(r) \/ StartCharge(r) \/ StartEnd(r)
    PROVE  Elsewhere
<1>1. {"expired", "issueJwt", "issue", "reply", "clear", "insert", "token", "cooldown", "mark",
       "byEmail", "link", "key", "charge", "quota"} \subseteq Steps \ {"read", "write"}
  BY DEF Steps
<1>2. CASE Auth(r) \/ DropExpired(r)
  BY <1>1, <1>2, GoesElsewhere DEF Auth, DropExpired, Same
<1>3. CASE Reply(r) \/ Logout(r) \/ ClearCookie(r)
  BY <1>1, <1>3, GoesElsewhere DEF Reply, Logout, ClearCookie, Same
<1>4. CASE RegisterLook(r) \/ Login(r) \/ ResendLook(r) \/ ResendCooldown(r)
  BY <1>1, <1>4, GoesElsewhere DEF RegisterLook, Login, ResendLook, ResendCooldown, NoWrite,
                                   Same, accountVars
<1>5. CASE GoogleBySub(r) \/ GoogleByEmail(r) \/ StartMode(r) \/ StartKey(r)
  BY <1>1, <1>5, GoesElsewhere DEF GoogleBySub, GoogleByEmail, StartMode, StartKey, NoWrite,
                                   Same, accountVars
<1>6. CASE Insert(r) \/ Verify(r) \/ GoogleMark(r) \/ GoogleLink(r)
  BY <1>1, <1>6, GoesElsewhere DEF Insert, Verify, GoogleMark, GoogleLink, OnlyUser, Same
<1>7. CASE Mail(r)
  BY <1>1, <1>7, GoesElsewhere DEF Mail, Same
<1>8. CASE StartCharge(r) \/ StartEnd(r)
  BY <1>1, <1>8, GoesElsewhere DEF StartCharge, StartEnd, accountVars
<1> QED
  BY <1>2, <1>3, <1>4, <1>5, <1>6, <1>7, <1>8

LEMMA ElsewhereMakes ==
    ASSUME TypeInv, NEW r \in Requests, Issue(r) \/ SetToken(r) \/ NewRequest(r)
    PROVE  Elsewhere
<1>1. issued \in Nat /\ tokens \in Nat /\ req[r] \in RequestType(issued, tokens)
  BY DEF TypeInv, RowsOK, RequestsOK
<1>2. CASE Issue(r)
  <2>1. PICK a \in Steps : /\ a = IF req[r].at = "issue" THEN "reply" ELSE FirstStep(req[r].op)
                          /\ req' = [req EXCEPT ![r] = [req[r] EXCEPT !.sess = issued + 1,
                                                                    !.set = TRUE, !.at = a]]
    <3>1. PICK a \in Steps : a = IF req[r].at = "issue" THEN "reply" ELSE FirstStep(req[r].op)
      BY FirstStepType DEF Steps
    <3> QED
      BY <1>2, <3>1 DEF Issue, Go
  <2>2. a \in {"read", "write"} => a = "read" /\ req[r].op = "remove"
    BY <2>1 DEF FirstStep
  <2>3. PICK x : x = [req[r] EXCEPT !.sess = issued + 1, !.set = TRUE, !.at = a]
    OBVIOUS
  <2>4. x.at = a /\ x.op = req[r].op
    BY <1>1, <2>3 DEF RequestType
  <2> QED
    BY <1>2, <2>1, <2>2, <2>3, <2>4, MovesElsewhere DEF Issue, Same
<1>3. CASE SetToken(r)
  <2>1. PICK x : x = [req[r] EXCEPT !.token = tokens + 1, !.at = "mail"]
    OBVIOUS
  <2>2. x.at = "mail"
    BY <1>1, <2>1 DEF RequestType
  <2> QED
    BY <1>3, <2>1, <2>2, MovesElsewhere DEF SetToken, Go, Same
<1>4. CASE NewRequest(r)
  <2>1. /\ settings' = settings /\ overlapped' = overlapped
        /\ req[r] = Idle
    BY <1>4 DEF NewRequest, Send, accountVars
  <2>2. PICK x, a : /\ req' = [req EXCEPT ![r] = x] /\ x.at = a
                    /\ a \in {"auth", "register", "login", "logout", "bySub", "verify"}
    <3>1. DOMAIN Idle = {"op", "at", "sess", "bearer", "sub", "key", "token", "mode", "old", "set"}
      BY DEF Idle
    <3>2. \A op, c, b, m, k : [Idle EXCEPT !.op = op, !.at = "auth", !.sess = c, !.bearer = b,
                                           !.mode = m, !.key = k].at = "auth"
      BY <3>1
    <3>3. \A op, c : [Idle EXCEPT !.op = op, !.at = op, !.sess = c].at = op
      BY <3>1
    <3>4. \A u : [Idle EXCEPT !.op = "google", !.at = "bySub", !.sub = u].at = "bySub"
      BY <3>1
    <3>5. \A t : [Idle EXCEPT !.op = "verify", !.at = "verify", !.token = t].at = "verify"
      BY <3>1
    <3>6. CASE \E op \in Private, b \in BOOLEAN, m \in AskedModes, k \in LlmKeys \union {0} :
                 Send(r, [Idle EXCEPT !.op = op, !.at = "auth", !.sess = cookie, !.bearer = b,
                                      !.mode = m, !.key = k])
      <4>1. PICK op, b, m, k :
              Send(r, [Idle EXCEPT !.op = op, !.at = "auth", !.sess = cookie, !.bearer = b,
                                   !.mode = m, !.key = k])
        BY <3>6
      <4>2. PICK x : x = [Idle EXCEPT !.op = op, !.at = "auth", !.sess = cookie, !.bearer = b,
                                      !.mode = m, !.key = k]
        OBVIOUS
      <4> QED
        <5>1. x.at = "auth"
          BY <3>2, <4>2
        <5>2. req' = [req EXCEPT ![r] = x]
          BY <4>1, <4>2 DEF Send, Go
        <5> QED
          BY <5>1, <5>2
    <3>7. CASE \E op \in {"register", "login", "logout"} :
                 Send(r, [Idle EXCEPT !.op = op, !.at = op, !.sess = cookie])
      <4>1. PICK op \in {"register", "login", "logout"} :
              Send(r, [Idle EXCEPT !.op = op, !.at = op, !.sess = cookie])
        BY <3>7
      <4>2. PICK x : x = [Idle EXCEPT !.op = op, !.at = op, !.sess = cookie]
        OBVIOUS
      <4> QED
        BY <3>3, <4>1, <4>2 DEF Send, Go
    <3>8. CASE \E u \in Subs : Send(r, [Idle EXCEPT !.op = "google", !.at = "bySub", !.sub = u])
      <4>1. PICK u : Send(r, [Idle EXCEPT !.op = "google", !.at = "bySub", !.sub = u])
        BY <3>8
      <4>2. PICK x : x = [Idle EXCEPT !.op = "google", !.at = "bySub", !.sub = u]
        OBVIOUS
      <4> QED
        BY <3>4, <4>1, <4>2 DEF Send, Go
    <3>9. CASE \E t \in letters :
                 Send(r, [Idle EXCEPT !.op = "verify", !.at = "verify", !.token = t])
      <4>1. PICK t : Send(r, [Idle EXCEPT !.op = "verify", !.at = "verify", !.token = t])
        BY <3>9
      <4>2. PICK x : x = [Idle EXCEPT !.op = "verify", !.at = "verify", !.token = t]
        OBVIOUS
      <4> QED
        BY <3>5, <4>1, <4>2 DEF Send, Go
    <3> QED
      BY <1>4, <3>6, <3>7, <3>8, <3>9 DEF NewRequest
  <2> QED
    BY <2>1, <2>2, MovesElsewhere
<1> QED
  BY <1>2, <1>3, <1>4

LEMMA ElsewhereBackground ==
    ASSUME TypeInv,
           \/ \E i \in touches : Touch(i)
           \/ \E s \in sessions : Ages(s)
           \/ Cleanup \/ CooldownEnds \/ Redis \/ Restart
    PROVE  Elsewhere
<1>1. settings' = settings /\ overlapped' = overlapped
  BY DEF Touch, Ages, Cleanup, CooldownEnds, Redis, Restart, OnlyUser, Same, accountVars
<1>2. CASE req' = req
  BY <1>1, <1>2 DEF Elsewhere
<1>3. CASE Restart
  <2>1. Idle.at = "idle" /\ \A r \in Requests : req'[r] = Idle
    BY <1>3 DEF Idle, Restart
  <2> QED
    BY <1>1, <2>1 DEF Elsewhere
<1> QED
  BY <1>2, <1>3 DEF Touch, Ages, Cleanup, CooldownEnds, Redis

\* A step of a save or a removal, when no other one is under way.
LEMMA ByokSettings ==
    ASSUME TypeInv, ByokInv, NEW r \in Requests,
           SaveCheck(r) \/ ReadSettings(r) \/ WriteSettings(r)
    PROVE  ByokInv'
<1>1. req[r] \in RequestType(issued, tokens) /\ issued \in Nat /\ tokens \in Nat
      /\ req \in [Requests -> RequestType(issued, tokens)]
  BY DEF TypeInv, RowsOK, RequestsOK
<1>2. CASE SaveCheck(r) /\ Done(r) /\ overlapped' = overlapped
  BY <1>2, GoesElsewhere, ByokElsewhere DEF SaveCheck, accountVars
<1>3. CASE SaveCheck(r) /\ GoTo(r, "read") /\ NoteOverlap(r)
           /\ ~(req[r].mode = "byok" /\ req[r].key = 0 /\ settings.key = 0)
  <2>1. PICK x : x = [req[r] EXCEPT !.at = "read"]
    OBVIOUS
  <2>2. x.at = "read" /\ x.op = "save" /\ x.mode = req[r].mode /\ x.key = req[r].key
    BY <1>1, <1>3, <2>1 DEF RequestType, SaveCheck, At
  <2>3. req'[r] = x /\ \A q \in Requests \ {r} : req'[q] = req[q]
    BY <1>1, <1>3, <2>1 DEF GoTo, Go
  <2>4. settings' = settings /\ (overlapped => overlapped')
    BY <1>3 DEF SaveCheck, accountVars, NoteOverlap
  <2>5. ChangeOps'
    BY <2>2, <2>3 DEF ByokInv, ChangeOps
  <2> QED
    BY <1>3, <2>2, <2>3, <2>4, <2>5 DEF ByokInv
<1>4. CASE ReadSettings(r)
  <2>1. PICK x : x = [req[r] EXCEPT !.at = "write", !.old = settings]
    OBVIOUS
  <2>2. /\ x.at = "write" /\ x.op = req[r].op /\ x.mode = req[r].mode /\ x.key = req[r].key
        /\ x.old = settings /\ req[r].at = "read"
    BY <1>1, <1>4, <2>1 DEF RequestType, ReadSettings
  <2>3. req'[r] = x /\ \A q \in Requests \ {r} : req'[q] = req[q]
    BY <1>1, <1>4, <2>1 DEF ReadSettings, Go
  <2>4. settings' = settings /\ (overlapped => overlapped')
    BY <1>4 DEF ReadSettings, accountVars, NoteOverlap
  <2>5. ChangeOps'
    BY <2>2, <2>3 DEF ByokInv, ChangeOps
  <2> QED
    BY <2>2, <2>3, <2>4, <2>5 DEF ByokInv
<1>5. CASE WriteSettings(r)
  <2>1. PICK x : x = [req[r] EXCEPT !.at = "reply"]
    OBVIOUS
  <2>2. x.at = "reply"
    BY <1>1, <2>1, RequestFields DEF Steps
  <2>3. req'[r] = x /\ \A q \in Requests \ {r} : req'[q] = req[q]
    BY <1>1, <1>5, <2>1 DEF WriteSettings, GoTo, Go
  <2>4. ChangeOps'
    BY <2>2, <2>3 DEF ByokInv, ChangeOps
  <2>5. CASE overlapped'
    BY <2>4, <2>5 DEF ByokInv
  <2>6. CASE ~overlapped'
    <3>1. ~overlapped /\ \A q \in Requests \ {r} : req[q].at \notin {"read", "write"}
      BY <1>5, <2>6 DEF WriteSettings, NoteOverlap, Changing, ByokInv, ChangeOps
    <3>2. \A q \in Requests : req'[q].at \notin {"read", "write"}
      BY <2>2, <2>3, <3>1
    <3>3. /\ req[r].at = "write" /\ req[r].op \in {"save", "remove"}
          /\ req[r].old = settings
          /\ settings.mode = "byok" => settings.key # 0
      BY <1>5, <3>1 DEF WriteSettings, ByokInv, ChangeOps
    <3>4. settings'.mode = "byok" => settings'.key # 0
      <4>1. CASE req[r].op = "remove"
        <5>1. settings' = [mode |-> IF settings.mode = "byok" THEN "none" ELSE settings.mode,
                           key |-> 0]
          BY <1>5, <3>3, <4>1 DEF WriteSettings
        <5> QED
          BY <5>1
      <4>2. CASE req[r].op = "save"
        <5>1. settings' = [mode |-> IF req[r].mode = "same" THEN settings.mode ELSE req[r].mode,
                           key |-> IF req[r].key = 0 THEN settings.key ELSE req[r].key]
          BY <1>5, <3>3, <4>2 DEF WriteSettings
        <5>2. req[r].mode = "byok" => req[r].key # 0 \/ settings.key # 0
          BY <3>1, <3>3, <4>2 DEF ByokInv
        <5> QED
          BY <3>3, <5>1, <5>2
      <4> QED
        BY <3>3, <4>1, <4>2
    <3> QED
      BY <2>4, <3>2, <3>4 DEF ByokInv
  <2> QED
    BY <2>5, <2>6
<1> QED
  BY <1>2, <1>3, <1>4, <1>5 DEF SaveCheck

LEMMA ByokStep ==
    ASSUME TypeInv, ByokInv, [Next]_vars
    PROVE  ByokInv'
<1>1. CASE UNCHANGED vars
  BY <1>1, ByokElsewhere DEF vars, accountVars, Elsewhere
<1>2. CASE \E r \in Requests : SaveCheck(r) \/ ReadSettings(r) \/ WriteSettings(r)
  BY <1>2, ByokSettings
<1>3. CASE \E r \in Requests : Issue(r) \/ SetToken(r) \/ NewRequest(r)
  BY <1>3, ElsewhereMakes, ByokElsewhere
<1>4. CASE \E r \in Requests :
             \/ Auth(r) \/ DropExpired(r) \/ Reply(r) \/ Logout(r) \/ ClearCookie(r)
             \/ RegisterLook(r) \/ Insert(r) \/ Login(r) \/ Mail(r)
             \/ ResendLook(r) \/ ResendCooldown(r) \/ Verify(r)
             \/ GoogleBySub(r) \/ GoogleMark(r) \/ GoogleByEmail(r) \/ GoogleLink(r)
             \/ StartMode(r) \/ StartKey(r) \/ StartCharge(r) \/ StartEnd(r)
  BY <1>4, ElsewhereStep, ByokElsewhere
<1>5. CASE \/ \E i \in touches : Touch(i)
           \/ \E s \in sessions : Ages(s)
           \/ Cleanup \/ CooldownEnds \/ Redis \/ Restart
  BY <1>5, ElsewhereBackground, ByokElsewhere
<1> QED
  BY <1>1, <1>2, <1>3, <1>4, <1>5 DEF Next

\* Unless two changes of the settings ran at once, the mode of one's own key comes
\* with a key, for any number of requests and keys.
THEOREM ByokAlwaysHasKey == Spec => []ByokHasKey
<1>1. Init => ByokInv
  <2> SUFFICES ASSUME Init PROVE ByokInv
    OBVIOUS
  <2>1. Idle.at = "idle" /\ \A r \in Requests : req[r] = Idle
    BY DEF Idle, Init
  <2>2. settings.mode = "byok" => settings.key # 0
    BY AccountsAssumption DEF Init, NoSettings
  <2> QED
    BY <2>1, <2>2 DEF ByokInv, ChangeOps
<1>2. ByokInv => ByokHasKey
  BY DEF ByokInv, ByokHasKey
<1> QED
  BY <1>1, <1>2, ByokStep, TypeInvariant, PTL DEF Spec

=============================================================================
