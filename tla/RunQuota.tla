------------------------------ MODULE RunQuota ------------------------------
(***************************************************************************)
(* The counters in Redis that limit what a user may start: the runs of an  *)
(* hour (services/quotas.ts), the free runs of a day (freeQuotas.ts) and   *)
(* a guest's geocoder calls (guestGeocodeQuotas.ts) are the same code      *)
(* with other limits.  A counter belongs to a bucket and to a slot of      *)
(* time; its key expires a window after the first INCR.  INCR, EXPIRE and  *)
(* DECR are three calls, and the process may die between any two.          *)
(*                                                                         *)
(* A key that does not exist is a count of 0, as INCR and DECR see it.     *)
(***************************************************************************)
EXTENDS Integers, FiniteSets

CONSTANTS
    Requests,      \* requests under way in the API process
    Buckets,       \* "free", "full", "partial", ...
    Limit,         \* limit of each bucket
    LastSlot       \* bound on the slots of time

ASSUME RunQuotaAssumption ==
    /\ IsFiniteSet(Requests)
    /\ Limit \in [Buckets -> Nat]
    /\ LastSlot \in Nat

Slots == 0..LastSlot
Keys == Buckets \X Slots

VARIABLES
    slot,       \* the slot of now
    count,      \* value of each key
    ttl,        \* keys that will expire
    gone,       \* keys that did expire (history)
    granted,    \* requests a key let through (history)
    asking      \* where each request is in checkAndConsumeRunQuota

quotaVars == <<slot, count, ttl, gone, granted, asking>>

NotAsking == [at |-> "no"]
Asking(at, key, value) == [at |-> at, key |-> key, value |-> value]

QuotaInit ==
    /\ slot = 0
    /\ count = [k \in Keys |-> 0]
    /\ ttl = {}
    /\ gone = {}
    /\ granted = [k \in Keys |-> 0]
    /\ asking = [r \in Requests |-> NotAsking]

\* bucketKey: the slot is read before the connection is awaited.
Ask(r, b) ==
    /\ asking[r].at = "no"
    /\ asking' = [asking EXCEPT ![r] = Asking("incr", <<b, slot>>, 0)]
    /\ UNCHANGED <<slot, count, ttl, gone, granted>>

Answered(key, value) ==
    IF value > Limit[key[1]] THEN Asking("decr", key, value)
    ELSE Asking("yes", key, value)

\* (mutant) the old value decides
IncrLate(r) ==
    LET key == asking[r].key
        value == count[key]
    IN  /\ asking[r].at = "incr"
        /\ count' = [count EXCEPT ![key] = value + 1]
        /\ granted' = IF value > Limit[key[1]] THEN granted
                      ELSE [granted EXCEPT ![key] = @ + 1]
        /\ asking' = [asking EXCEPT ![r] = IF value = 1 THEN Asking("expire", key, value)
                                           ELSE Answered(key, value)]
        /\ UNCHANGED <<slot, ttl, gone>>

Incr(r) ==
    LET key == asking[r].key
        value == count[key] + 1
    IN  /\ asking[r].at = "incr"
        /\ count' = [count EXCEPT ![key] = value]
        /\ granted' = IF value > Limit[key[1]] THEN granted
                      ELSE [granted EXCEPT ![key] = @ + 1]
        /\ asking' = [asking EXCEPT ![r] = IF value = 1 THEN Asking("expire", key, value)
                                           ELSE Answered(key, value)]
        /\ UNCHANGED <<slot, ttl, gone>>

SetTtl(r) ==
    /\ asking[r].at = "expire"
    /\ ttl' = ttl \union {asking[r].key}
    /\ asking' = [asking EXCEPT ![r] = Answered(asking[r].key, asking[r].value)]
    /\ UNCHANGED <<slot, count, gone, granted>>

\* RunQuotaError
Decr(r) ==
    /\ asking[r].at = "decr"
    /\ count' = [count EXCEPT ![asking[r].key] = @ - 1]
    /\ asking' = [asking EXCEPT ![r] = Asking("refused", asking[r].key, asking[r].value)]
    /\ UNCHANGED <<slot, ttl, gone, granted>>

\* The caller goes on with the answer.
Return(r) ==
    /\ asking[r].at \in {"yes", "refused"}
    /\ asking' = [asking EXCEPT ![r] = NotAsking]
    /\ UNCHANGED <<slot, count, ttl, gone, granted>>

NextSlot ==
    /\ slot < LastSlot
    /\ slot' = slot + 1
    /\ UNCHANGED <<count, ttl, gone, granted, asking>>

\* The TTL is a whole window, so a key outlives its slot.
KeyExpires(k) ==
    /\ k \in ttl
    /\ k[2] < slot
    /\ count' = [count EXCEPT ![k] = 0]
    /\ ttl' = ttl \ {k}
    /\ gone' = gone \union {k}
    /\ UNCHANGED <<slot, granted, asking>>

\* The API process dies with its requests.
ApiCrash ==
    /\ \E r \in Requests : asking[r].at # "no"
    /\ asking' = [r \in Requests |-> NotAsking]
    /\ UNCHANGED <<slot, count, ttl, gone, granted>>

QuotaNext ==
    \/ \E r \in Requests, b \in Buckets : Ask(r, b)
    \/ \E r \in Requests : Incr(r) \/ SetTtl(r) \/ Decr(r) \/ Return(r)
    \/ NextSlot
    \/ \E k \in Keys : KeyExpires(k)
    \/ ApiCrash

QuotaSpec == QuotaInit /\ [][QuotaNext]_quotaVars

-----------------------------------------------------------------------------
(* Properties *)

Refused(k) == {r \in Requests : asking[r].at = "decr" /\ asking[r].key = k}

QuotaTypeOK ==
    /\ slot \in Slots
    /\ count \in [Keys -> Int]
    /\ ttl \subseteq Keys
    /\ gone \subseteq Keys
    /\ granted \in [Keys -> Nat]
    /\ asking \in [Requests ->
           {NotAsking}
           \union [at : {"incr", "expire", "decr", "yes", "refused"}, key : Keys,
                   value : Int]]

\* No counter lets more requests through than its limit, and it refuses one only when
\* all of the limit is spent: neither a refused request that has not yet taken its
\* increment back nor one that died before it could takes the place of another.  (A key
\* that expired says nothing of requests that were held up since its slot.)
QuotaIsExact ==
    /\ \A k \in Keys \ gone : granted[k] <= Limit[k[1]]
    /\ \A k \in Keys \ gone : Refused(k) # {} => granted[k] = Limit[k[1]]

=============================================================================
