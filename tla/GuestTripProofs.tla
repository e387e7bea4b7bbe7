-------------------------- MODULE GuestTripProofs --------------------------
(***************************************************************************)
(* What GuestTrip promises for any number of guests, trips, builds and     *)
(* overlapping requests: the cleanup removes no guest that is in use, what *)
(* an account has claimed stays with it, and the limits are exceeded by    *)
(* less than the number of requests in flight.                             *)
(***************************************************************************)
EXTENDS GuestTrip, FiniteSetTheorems, TLAPS

Steps == {"idle", "insertSession", "insertTrip", "setTrip", "reply", "start", "insertRun",
          "count", "claimTrips", "claimRuns", "claimSession", "claimUser", "claimReply"}
ReqType == [pc : Steps, g : Guests \union {None}, trip : Trips \union {None}, scope : Scopes,
            own : Guests \union {Account, None}, new : BOOLEAN]

\* A request under way knows its guest, and what its step needs.
Ready(x) ==
    /\ x \in ReqType
    /\ x.pc # "idle" => x.g \in Guests
    /\ x.pc \in {"setTrip", "start", "insertRun"} => x.trip \in Trips
    /\ x.pc = "insertRun" => x.own \in Guests \union {Account}

SessType == [st : {"none", "live", "expired"}, trip : Trips \union {None}, full : Nat, partial : Nat]
RunType == [st : {"unborn", "active", "done", "deleted"}, trip : Trips \union {None},
            user : Guests \union {Account, None}, scope : Scopes, by : Guests \union {None},
            late : BOOLEAN]
Marks == {"swept", "claimed"}

Typed ==
    /\ user \in [Guests -> {"none"} \union Marks \union Present]
    /\ sess \in [Guests -> SessType]
    /\ owner \in [Trips -> Guests \union {Account, None, "deleted"}]
    /\ run \in [Runs -> RunType]
    /\ \A r \in Runs : run[r].st # "unborn" =>
         run[r].trip \in Trips /\ run[r].user \in Guests \union {Account}
    /\ req \in [Reqs -> ReqType]
    /\ \A p \in Reqs : Ready(req[p])
    /\ cookie \in Guests \union {None}
    /\ sweep \subseteq Guests
    /\ cut \subseteq Guests

Inserts(p, g) == req[p].pc = "insertSession" /\ req[p].g = g

\* A guest between its two rows is fresh, unless it was removed, and only one request is
\* at work on it; an id that was never used has no session.
InsertInv ==
    /\ \A p \in Reqs : req[p].pc = "insertSession" =>
         sess[req[p].g].st = "none" /\ user[req[p].g] \notin {"none", "stale"}
    /\ \A p, q \in Reqs : req[p].pc = "insertSession" /\ req[q].pc = "insertSession"
                          /\ req[p].g = req[q].g => p = q
    /\ \A g \in Guests : user[g] = "none" => sess[g].st = "none"

\* Whom the cleanup has selected does not come back to life.
SweepInv ==
    \A g \in sweep : /\ sess[g].st # "live"
                     /\ user[g] # "none"
                     /\ \A p \in Reqs : ~Inserts(p, g)

Kept(r) == run[r].st \in {"active", "done"}

\* A build has a user.
RunInv == \A r \in Runs : Kept(r) => run[r].user = Account \/ user[run[r].user] \in Present

\* A trip never goes to another guest: whoever's build it is, or will be, had the trip.
OwnerInv ==
    /\ \A r \in Runs : Kept(r) /\ run[r].user # Account =>
         owner[run[r].trip] \in {run[r].user, Account}
    /\ \A p \in Reqs : req[p].pc = "insertRun" =>
         owner[req[p].trip] \in {req[p].own, Account, "deleted"}

\* A build of a claimed trip that still belongs to its guest and is not late.
Exposed(r) ==
    Kept(r) /\ run[r].user # Account /\ owner[run[r].trip] = Account /\ ~run[r].late

\* A claim of the guest is between the trips and the builds, or ended there.
Half(g) == g \in cut \/ \E p \in Reqs : req[p].pc = "claimRuns" /\ req[p].g = g

\* Only a half-made claim leaves a build of a claimed trip behind.
LateInv == \A r \in Runs : Exposed(r) => Half(run[r].user)

IInv == Typed /\ InsertInv /\ SweepInv /\ RunInv /\ OwnerInv /\ LateInv

-----------------------------------------------------------------------------
(* The rows of a request *)

LEMMA ReqFields ==
    ASSUME NEW x \in ReqType
    PROVE  /\ \A s \in Steps : /\ [x EXCEPT !.pc = s] \in ReqType
                               /\ [x EXCEPT !.pc = s].pc = s
                               /\ [x EXCEPT !.pc = s].g = x.g
                               /\ [x EXCEPT !.pc = s].trip = x.trip
                               /\ [x EXCEPT !.pc = s].own = x.own
  BY DEF ReqType

LEMMA ReqTrip ==
    ASSUME NEW x \in ReqType, NEW t \in Trips
    PROVE  /\ [x EXCEPT !.trip = t] \in ReqType
           /\ [x EXCEPT !.trip = t].pc = x.pc
           /\ [x EXCEPT !.trip = t].g = x.g
           /\ [x EXCEPT !.trip = t].trip = t
  BY DEF ReqType

LEMMA ReqOwn ==
    ASSUME NEW x \in ReqType, NEW u \in Guests \union {Account}
    PROVE  /\ [x EXCEPT !.own = u] \in ReqType
           /\ [x EXCEPT !.own = u].pc = x.pc
           /\ [x EXCEPT !.own = u].g = x.g
           /\ [x EXCEPT !.own = u].trip = x.trip
           /\ [x EXCEPT !.own = u].own = u
  BY DEF ReqType

LEMMA IdleType == Idle \in ReqType /\ Ready(Idle) /\ Idle.pc = "idle"
  BY DEF Idle, ReqType, Ready, Scopes, Steps

LEMMA IdleStep ==
    ASSUME NEW g \in Guests, NEW s \in {"insertTrip", "claimTrips"}
    PROVE  /\ Ready([Idle EXCEPT !.pc = s, !.g = g])
           /\ [Idle EXCEPT !.pc = s, !.g = g].pc = s
  BY DEF Idle, ReqType, Ready, Scopes, Steps

LEMMA IdleInsert ==
    ASSUME NEW g \in Guests
    PROVE  /\ Ready([Idle EXCEPT !.pc = "insertSession", !.g = g, !.new = TRUE])
           /\ [Idle EXCEPT !.pc = "insertSession", !.g = g, !.new = TRUE].pc = "insertSession"
           /\ [Idle EXCEPT !.pc = "insertSession", !.g = g, !.new = TRUE].g = g
  BY DEF Idle, ReqType, Ready, Scopes, Steps

LEMMA IdleStart ==
    ASSUME NEW g \in Guests, NEW t \in Trips, NEW c \in Scopes
    PROVE  /\ Ready([Idle EXCEPT !.pc = "start", !.g = g, !.trip = t, !.scope = c])
           /\ [Idle EXCEPT !.pc = "start", !.g = g, !.trip = t, !.scope = c].pc = "start"
  BY DEF Idle, ReqType, Ready, Scopes, Steps

\* A request p takes the state x.
Takes(p, x) == Ready(x) /\ req' = [req EXCEPT ![p] = x]

LEMMA TakesReq ==
    ASSUME Typed, NEW p \in Reqs, NEW x, Takes(p, x)
    PROVE  /\ req' \in [Reqs -> ReqType]
           /\ \A q \in Reqs : Ready(req'[q])
           /\ req'[p] = x
           /\ \A q \in Reqs : q # p => req'[q] = req[q]
  BY DEF Typed, Takes, Ready

LEMMA FinishTakes ==
    ASSUME NEW p \in Reqs, Finish(p)
    PROVE  Takes(p, Idle) /\ Idle.pc = "idle"
  BY IdleType DEF Finish, Takes

\* To a step that needs no more than the request has.
LEMMA ToTakes ==
    ASSUME Typed, NEW p \in Reqs, NEW s \in Steps \ {"idle", "insertSession", "insertRun"},
           To(p, s), req[p].pc # "idle", s \in {"setTrip", "start"} => req[p].trip \in Trips
    PROVE  \E x : Takes(p, x) /\ x.pc = s /\ x.g = req[p].g
<1>1. req[p] \in ReqType /\ req[p].g \in Guests
  BY DEF Typed, Ready
<1>2. PICK x : x = [req[p] EXCEPT !.pc = s]
  OBVIOUS
<1>3. x \in ReqType /\ x.pc = s /\ x.g = req[p].g /\ x.trip = req[p].trip
  BY <1>1, <1>2, ReqFields
<1>4. Ready(x)
  BY <1>1, <1>3 DEF Ready
<1>5. req' = [req EXCEPT ![p] = x]
  BY <1>2 DEF To
<1> QED
  BY <1>3, <1>4, <1>5 DEF Takes

LEMMA AnswerTakes ==
    ASSUME Typed, NEW p \in Reqs, Answer(p), req[p].pc # "idle"
    PROVE  \E x : Takes(p, x) /\ x.pc \in {"idle", "reply"}
<1>1. CASE To(p, "reply")
  BY <1>1, ToTakes DEF Steps
<1>2. CASE Finish(p)
  BY <1>2, FinishTakes
<1> QED
  BY <1>1, <1>2 DEF Answer

-----------------------------------------------------------------------------
(* The rows *)

LEMMA SessRead ==
    ASSUME NEW x \in SessType
    PROVE  /\ x.full \in Nat /\ x.partial \in Nat /\ x.trip \in Trips \union {None}
           /\ x.st \in {"none", "live", "expired"}
  BY DEF SessType

LEMMA SessState ==
    ASSUME NEW x \in SessType, NEW s \in {"none", "live", "expired"}
    PROVE  [x EXCEPT !.st = s] \in SessType /\ [x EXCEPT !.st = s].st = s
  BY DEF SessType

LEMMA SessTrip ==
    ASSUME NEW x \in SessType, NEW t \in Trips \union {None}
    PROVE  [x EXCEPT !.trip = t] \in SessType /\ [x EXCEPT !.trip = t].st = x.st
  BY DEF SessType

LEMMA SessFull ==
    ASSUME NEW x \in SessType, NEW n \in Nat
    PROVE  /\ [x EXCEPT !.full = n] \in SessType
           /\ [x EXCEPT !.full = n].st = x.st
           /\ [x EXCEPT !.full = n].partial = x.partial
  BY DEF SessType

LEMMA SessPartial ==
    ASSUME NEW x \in SessType, NEW n \in Nat
    PROVE  [x EXCEPT !.partial = n] \in SessType /\ [x EXCEPT !.partial = n].st = x.st
  BY DEF SessType

LEMMA NewSession ==
    /\ NoSession \in SessType /\ NoSession.st = "none"
    /\ [NoSession EXCEPT !.st = "live"] \in SessType
    /\ [NoSession EXCEPT !.st = "live"].st = "live"
  BY DEF NoSession, SessType

LEMMA RunFields ==
    ASSUME NEW x \in RunType
    PROVE  /\ \A s \in {"done", "deleted"} :
                /\ [x EXCEPT !.st = s] \in RunType /\ [x EXCEPT !.st = s].st = s
                /\ [x EXCEPT !.st = s].trip = x.trip /\ [x EXCEPT !.st = s].user = x.user
                /\ [x EXCEPT !.st = s].late = x.late
           /\ /\ [x EXCEPT !.user = Account] \in RunType
              /\ [x EXCEPT !.user = Account].st = x.st
              /\ [x EXCEPT !.user = Account].trip = x.trip
              /\ [x EXCEPT !.user = Account].user = Account
              /\ [x EXCEPT !.user = Account].late = x.late
           /\ x.st \in {"unborn", "active", "done", "deleted"}
  BY DEF RunType

LEMMA TypeInit == Init => Typed
<1> SUFFICES ASSUME Init PROVE Typed
  OBVIOUS
<1>1. user \in [Guests -> {"none"} \union Marks \union Present]
  BY DEF Init
<1>2. sess \in [Guests -> SessType]
  BY NewSession DEF Init
<1>3. owner \in [Trips -> Guests \union {Account, None, "deleted"}]
  BY DEF Init
<1>4. run \in [Runs -> RunType]
  BY DEF Init, NoRun, RunType, Scopes
<1>5. \A r \in Runs : run[r].st = "unborn"
  BY DEF Init, NoRun
<1>6. req \in [Reqs -> ReqType] /\ \A p \in Reqs : Ready(req[p])
  BY IdleType DEF Init
<1>7. cookie \in Guests \union {None} /\ sweep \subseteq Guests /\ cut \subseteq Guests
  BY DEF Init
<1> QED
  BY <1>1, <1>2, <1>3, <1>4, <1>5, <1>6, <1>7 DEF Typed

LEMMA InvInit == Init => IInv
<1> SUFFICES ASSUME Init PROVE IInv
  OBVIOUS
<1>1. \A p \in Reqs : req[p].pc = "idle"
  BY IdleType DEF Init
<1>2. sweep = {} /\ \A r \in Runs : ~Kept(r)
  BY DEF Init, NoRun, Kept
<1>3. \A g \in Guests : sess[g].st = "none"
  BY NewSession DEF Init
<1> QED
  BY <1>1, <1>2, <1>3, TypeInit
     DEF IInv, InsertInv, SweepInv, RunInv, OwnerInv, LateInv, Exposed

\* What the foreign keys do to the rows.
LEMMA Deletes ==
    ASSUME Typed, NEW G \in SUBSET Guests, NEW mark \in Marks, DeleteUsers(G, mark)
    PROVE  /\ user' \in [Guests -> {"none"} \union Marks \union Present]
           /\ \A g \in Guests : IF g \in G /\ user[g] \in Present THEN user'[g] = mark
                                ELSE user'[g] = user[g]
           /\ sess' \in [Guests -> SessType]
           /\ \A g \in Guests : sess'[g].st \in {sess[g].st, "none"}
           /\ owner' \in [Trips -> Guests \union {Account, None, "deleted"}]
           /\ \A t \in Trips : owner'[t] \in {owner[t], "deleted"}
           /\ \A t \in Trips : owner'[t] = Account <=> owner[t] = Account
           /\ run' \in [Runs -> RunType]
           /\ \A r \in Runs : run'[r].st # "unborn" =>
                run'[r].trip \in Trips /\ run'[r].user \in Guests \union {Account}
           /\ \A r \in Runs : Kept(r)' => /\ run'[r] = run[r] /\ Kept(r)
                                          /\ owner'[run[r].trip] = owner[run[r].trip]
                                          /\ ~(run[r].user \in G /\ user[run[r].user] \in Present)
           /\ \A r \in Runs : Kept(r) /\ owner[run[r].trip] = Account /\ ~Kept(r)' =>
                run[r].user \in G /\ user[run[r].user] \in Present
<1> DEFINE gone == {g \in G : user[g] \in Present}
           trips == {t \in Trips : owner[t] \in gone}
<1>1. /\ user' = [g \in Guests |-> IF g \in gone THEN mark ELSE user[g]]
      /\ sess' = [g \in Guests |-> IF g \in gone THEN NoSession ELSE sess[g]]
      /\ owner' = [t \in Trips |-> IF t \in trips THEN "deleted" ELSE owner[t]]
      /\ run' = [r \in Runs |->
           IF run[r].st # "unborn" /\ (run[r].user \in gone \/ run[r].trip \in trips)
           THEN [run[r] EXCEPT !.st = "deleted"] ELSE run[r]]
  BY DEF DeleteUsers
<1>2. Account \notin gone /\ Account # "deleted" /\ \A t \in trips : owner[t] # Account
  BY GuestTripAssumption
<1> HIDE DEF trips
<1>3. \A g \in Guests : g \in gone <=> g \in G /\ user[g] \in Present
  OBVIOUS
<1> HIDE DEF gone
<1>4. user' \in [Guests -> {"none"} \union Marks \union Present]
  BY <1>1 DEF Typed
<1>5. \A g \in Guests : IF g \in G /\ user[g] \in Present THEN user'[g] = mark
                        ELSE user'[g] = user[g]
  BY <1>1, <1>3
<1>6. sess' \in [Guests -> SessType] /\ \A g \in Guests : sess'[g].st \in {sess[g].st, "none"}
  BY <1>1, NewSession DEF Typed
<1>7. owner' \in [Trips -> Guests \union {Account, None, "deleted"}]
  BY <1>1 DEF Typed
<1>8. \A t \in Trips : /\ owner'[t] = Account <=> owner[t] = Account
                       /\ owner'[t] \in {owner[t], "deleted"}
  BY <1>1, <1>2
<1>9. ASSUME NEW r \in Runs
      PROVE  /\ run'[r] \in RunType
             /\ run'[r].st # "unborn" =>
                  run'[r].trip \in Trips /\ run'[r].user \in Guests \union {Account}
             /\ Kept(r)' => /\ run'[r] = run[r] /\ Kept(r)
                            /\ owner'[run[r].trip] = owner[run[r].trip]
                            /\ ~(run[r].user \in G /\ user[run[r].user] \in Present)
             /\ Kept(r) /\ owner[run[r].trip] = Account /\ ~Kept(r)' =>
                  run[r].user \in G /\ user[run[r].user] \in Present
  <2>1. run[r] \in RunType
    BY DEF Typed
  <2>2. CASE run[r].st # "unborn" /\ (run[r].user \in gone \/ run[r].trip \in trips)
    <3>1. PICK x : x = [run[r] EXCEPT !.st = "deleted"]
      OBVIOUS
    <3>6. x \in RunType /\ x.st = "deleted" /\ x.trip = run[r].trip /\ x.user = run[r].user
      <4>1. \A y \in RunType : /\ [y EXCEPT !.st = "deleted"] \in RunType
                               /\ [y EXCEPT !.st = "deleted"].st = "deleted"
                               /\ [y EXCEPT !.st = "deleted"].trip = y.trip
                               /\ [y EXCEPT !.st = "deleted"].user = y.user
        BY RunFields
      <4> QED
        BY <2>1, <3>1, <4>1
    <3>7. run'[r] = x
      BY <1>1, <2>2, <3>1
    <3>2. /\ run'[r] \in RunType /\ run'[r].st = "deleted"
          /\ run'[r].trip = run[r].trip /\ run'[r].user = run[r].user
      BY <3>6, <3>7
    <3>3. owner[run[r].trip] = Account => run[r].user \in gone
      BY <1>2, <2>2
    <3>4. run[r].trip \in Trips /\ run[r].user \in Guests \union {Account}
      BY <2>2 DEF Typed
    <3>5. run[r].user \in gone => run[r].user \in G /\ user[run[r].user] \in Present
      BY DEF gone
    <3> QED
      BY <3>2, <3>3, <3>4, <3>5 DEF Kept
  <2>3. CASE ~(run[r].st # "unborn" /\ (run[r].user \in gone \/ run[r].trip \in trips))
    <3>1. run'[r] = run[r]
      BY <1>1, <2>3
    <3>2. run[r].st # "unborn" => ~(run[r].user \in G /\ user[run[r].user] \in Present)
      BY <1>3, <2>3
    <3>3. Kept(r)' <=> Kept(r)
      BY <3>1 DEF Kept
    <3>4. Kept(r) => run[r].st # "unborn"
      BY DEF Kept
    <3>5. run[r].st # "unborn" => run[r].trip \in Trips /\ run[r].user \in Guests \union {Account}
      BY DEF Typed
    <3>6. run[r].st # "unborn" => owner'[run[r].trip] = owner[run[r].trip]
      BY <1>1, <2>3, <3>5
    <3> QED
      BY <2>1, <3>1, <3>2, <3>3, <3>4, <3>5, <3>6
  <2> QED
    BY <2>2, <2>3
<1>10. run' \in [Runs -> RunType]
  BY <1>1, <1>9
<1> QED
  BY <1>4, <1>5, <1>6, <1>7, <1>8, <1>9, <1>10

-----------------------------------------------------------------------------
(* Requests outside the claim *)

ClaimSteps == {"claimTrips", "claimRuns", "claimSession", "claimUser"}

\* Request p neither inserts a guest nor is in the middle of a claim; it may begin one.
Ordinary(p, x) ==
    /\ Takes(p, x)
    /\ x.pc \notin {"insertSession", "claimSession", "claimUser"}
    /\ req[p].pc \notin {"insertSession"} \union ClaimSteps

\* Steps that expose no build, and leave a half-made claim half-made.
LEMMA LateKeeps ==
    ASSUME IInv, cut \subseteq cut',
           \A r \in Runs : Exposed(r)' => Exposed(r) /\ run'[r].user = run[r].user,
           \A q \in Reqs : req[q].pc = "claimRuns" =>
              \/ req'[q].pc = "claimRuns" /\ req'[q].g = req[q].g
              \/ req[q].g \in cut'
    PROVE  LateInv'
<1> SUFFICES ASSUME NEW r \in Runs, Exposed(r)' PROVE Half(run[r].user)'
  BY DEF LateInv
<1>1. Half(run[r].user) /\ run'[r].user = run[r].user
  BY DEF IInv, LateInv
<1> QED
  BY <1>1 DEF Half

\* What such a step leaves of the invariant, if it keeps what the rows say.
LEMMA OrdinaryKeeps ==
    ASSUME IInv, NEW p \in Reqs, NEW x, Ordinary(p, x),
           UNCHANGED <<user, sweep, cut>>,
           \A g \in Guests : sess'[g].st = sess[g].st,
           \A r \in Runs : Exposed(r)' => Exposed(r) /\ run'[r].user = run[r].user
    PROVE  InsertInv' /\ SweepInv' /\ LateInv'
<1>1. /\ req'[p] = x
      /\ \A q \in Reqs : q # p => req'[q] = req[q]
  BY TakesReq DEF IInv, Ordinary
<1>2. \A q \in Reqs : req'[q].pc = "insertSession" => q # p /\ req[q].pc = "insertSession"
  BY <1>1 DEF Ordinary
<1>3. \A q \in Reqs : req[q].pc # "idle" => req[q].g \in Guests
  BY DEF IInv, Typed, Ready
<1>4. InsertInv'
  BY <1>1, <1>2, <1>3 DEF IInv, InsertInv
<1>5. SweepInv'
  <2>1. \A g \in sweep : g \in Guests
    BY DEF IInv, Typed
  <2>2. \A g, q : q \in Reqs /\ req'[q].pc = "insertSession" /\ req'[q].g = g => Inserts(q, g)
    BY <1>1, <1>2 DEF Inserts
  <2> QED
    BY <2>1, <2>2 DEF IInv, SweepInv, Inserts
<1>6. LateInv'
  <2>1. \A q \in Reqs : req[q].pc = "claimRuns" => req'[q] = req[q]
    BY <1>1 DEF Ordinary, ClaimSteps
  <2> QED
    BY <2>1, LateKeeps
<1> QED
  BY <1>4, <1>5, <1>6

\* Steps that leave the rows of users, builds and owners alone, and the states of sessions.
LEMMA QuietStep ==
    ASSUME IInv, NEW p \in Reqs, NEW x, Ordinary(p, x),
           UNCHANGED <<user, owner, run, sweep, cut>>,
           sess' \in [Guests -> SessType],
           \A g \in Guests : sess'[g].st = sess[g].st,
           cookie' \in Guests \union {None},
           x.pc = "insertRun" => owner[x.trip] = x.own
    PROVE  IInv'
<1>1. \A r \in Runs : Exposed(r)' => Exposed(r) /\ run'[r].user = run[r].user
  BY DEF Exposed, Kept
<1>2. InsertInv' /\ SweepInv' /\ LateInv'
  BY <1>1, OrdinaryKeeps
<1>3. req' \in [Reqs -> ReqType] /\ \A q \in Reqs : Ready(req'[q])
  BY TakesReq DEF IInv, Ordinary
<1>4. Typed'
  BY <1>3 DEF IInv, Typed
<1>5. RunInv'
  BY DEF IInv, RunInv, Kept
<1>6. req'[p] = x /\ \A q \in Reqs : q # p => req'[q] = req[q]
  BY TakesReq DEF IInv, Ordinary
<1>7. OwnerInv'
  BY <1>6 DEF IInv, OwnerInv, Kept
<1> QED
  BY <1>2, <1>4, <1>5, <1>7 DEF IInv

LEMMA InvNewRequest ==
    ASSUME IInv, NEW p \in Reqs,
           CreateWithSession(p) \/ ClaimLoad(p) \/ \E scope \in Scopes : LoadForRun(p, scope)
    PROVE  IInv'
<1>0. Typed /\ sess \in [Guests -> SessType] /\ req[p].pc = "idle"
  BY DEF IInv, Typed, CreateWithSession, ClaimLoad, LoadForRun
<1>1. cookie \in Guests
  BY <1>0 DEF Typed, CreateWithSession, ClaimLoad, LoadForRun, Live
<1>2. UNCHANGED <<user, sess, owner, run, cookie, sweep, cut>>
  BY DEF CreateWithSession, ClaimLoad, LoadForRun
<1>3. \E x : Takes(p, x) /\ x.pc \in {"insertTrip", "claimTrips", "start"}
  <2>1. CASE CreateWithSession(p)
    <3>1. PICK x : x = [Idle EXCEPT !.pc = "insertTrip", !.g = cookie]
      OBVIOUS
    <3>2. Ready(x) /\ x.pc = "insertTrip"
      BY <1>1, <3>1, IdleStep
    <3> QED
      BY <2>1, <3>1, <3>2 DEF CreateWithSession, Takes
  <2>2. CASE ClaimLoad(p)
    <3>1. PICK x : x = [Idle EXCEPT !.pc = "claimTrips", !.g = cookie]
      OBVIOUS
    <3>2. Ready(x) /\ x.pc = "claimTrips"
      BY <1>1, <3>1, IdleStep
    <3> QED
      BY <2>2, <3>1, <3>2 DEF ClaimLoad, Takes
  <2>3. CASE \E scope \in Scopes : LoadForRun(p, scope)
    <3>0. PICK scope \in Scopes : LoadForRun(p, scope)
      BY <2>3
    <3>1. PICK x : x = [Idle EXCEPT !.pc = "start", !.g = cookie,
                                    !.trip = sess[cookie].trip, !.scope = scope]
      OBVIOUS
    <3>2. sess[cookie].trip \in Trips
      BY <1>0, <1>1, <3>0, SessRead DEF LoadForRun
    <3>3. PICK g \in Guests, t \in Trips : g = cookie /\ t = sess[cookie].trip
      BY <1>1, <3>2
    <3>4. x = [Idle EXCEPT !.pc = "start", !.g = g, !.trip = t, !.scope = scope]
      BY <3>1, <3>3
    <3>5. Ready(x) /\ x.pc = "start"
      BY <3>4, IdleStart
    <3> QED
      BY <3>0, <3>1, <3>5 DEF LoadForRun, Takes
  <2> QED
    BY <2>1, <2>2, <2>3
<1>4. PICK x : Ordinary(p, x) /\ x.pc # "insertRun"
  BY <1>0, <1>3 DEF Ordinary, ClaimSteps
<1> QED
  BY <1>0, <1>1, <1>2, <1>4, QuietStep

LEMMA InvReplies ==
    ASSUME IInv, NEW p \in Reqs, Reply(p) \/ ClaimReply(p) \/ CheckRun(p)
    PROVE  IInv'
<1>0. Typed /\ sess \in [Guests -> SessType] /\ req[p].pc # "idle"
  BY DEF IInv, Typed, Reply, ClaimReply, CheckRun
<1>1. UNCHANGED <<user, sess, owner, run, sweep, cut>>
  BY DEF Reply, ClaimReply, CheckRun
<1>2. cookie' \in Guests \union {None}
  BY <1>0 DEF Typed, Ready, Reply, ClaimReply, CheckRun
<1>3. \E x : /\ Takes(p, x) /\ x.pc \in {"idle", "reply", "insertRun"}
             /\ x.pc = "insertRun" => owner[x.trip] = x.own
  <2>1. CASE Reply(p) \/ ClaimReply(p)
    BY <2>1, FinishTakes DEF Reply, ClaimReply
  <2>2. CASE CheckRun(p) /\ Answer(p)
    BY <1>0, <2>2, AnswerTakes
  <2>3. CASE CheckRun(p) /\ ~Answer(p)
    <3>1. /\ TripExists(req[p].trip)
          /\ req' = [req EXCEPT ![p].pc = "insertRun", ![p].own = owner[req[p].trip]]
          /\ req[p].pc = "start"
      BY <2>3 DEF CheckRun
    <3>2. req[p] \in ReqType /\ req[p].trip \in Trips /\ req[p].g \in Guests
      BY <1>0, <3>1 DEF Typed, Ready
    <3>3. PICK u : u = owner[req[p].trip]
      OBVIOUS
    <3>4. u \in Guests \union {Account}
      BY <1>0, <3>1, <3>2, <3>3 DEF Typed, TripExists
    <3>5. PICK y : y = [req[p] EXCEPT !.pc = "insertRun"]
      OBVIOUS
    <3>6. y \in ReqType /\ y.pc = "insertRun" /\ y.g = req[p].g /\ y.trip = req[p].trip
      BY <3>2, <3>5, ReqFields DEF Steps
    <3>7. PICK x : x = [y EXCEPT !.own = u]
      OBVIOUS
    <3>8. Ready(x) /\ x.pc = "insertRun" /\ x.trip = req[p].trip /\ x.own = u
      BY <3>2, <3>4, <3>6, <3>7, ReqOwn DEF Ready
    <3>9. req' = [req EXCEPT ![p] = x]
      BY <3>1, <3>3, <3>5, <3>7
    <3> QED
      BY <3>3, <3>8, <3>9 DEF Takes
  <2> QED
    BY <2>1, <2>2, <2>3
<1>4. PICK x : /\ Takes(p, x) /\ x.pc \in {"idle", "reply", "insertRun"}
               /\ x.pc = "insertRun" => owner[x.trip] = x.own
  BY <1>3
<1>5. req[p].pc \in {"reply", "claimReply", "start"}
  BY DEF Reply, ClaimReply, CheckRun
<1>6. Ordinary(p, x)
  BY <1>4, <1>5 DEF Ordinary, ClaimSteps
<1> QED
  BY <1>0, <1>1, <1>2, <1>4, <1>6, QuietStep

\* A session row written again with the same state.
LEMMA SessAgain ==
    ASSUME Typed, NEW g \in Guests, NEW y \in SessType, y.st = sess[g].st,
           sess' = [sess EXCEPT ![g] = y]
    PROVE  sess' \in [Guests -> SessType] /\ \A h \in Guests : sess'[h].st = sess[h].st
  BY DEF Typed

LEMMA InvSetSessionTrip ==
    ASSUME IInv, NEW p \in Reqs, SetSessionTrip(p)
    PROVE  IInv'
<1>0. /\ Typed /\ req[p].pc = "setTrip" /\ req[p].g \in Guests
      /\ req[p].trip \in Trips
  BY DEF IInv, Typed, Ready, SetSessionTrip
<1>1. UNCHANGED <<user, owner, run, cookie, sweep, cut>>
  BY DEF SetSessionTrip
<1>2. PICK x : Takes(p, x) /\ x.pc \in {"idle", "reply", "start"}
  <2>1. CASE Finish(p)
    BY <2>1, FinishTakes
  <2>2. CASE To(p, "start")
    BY <1>0, <2>2, ToTakes DEF Steps
  <2>3. CASE Answer(p)
    BY <1>0, <2>3, AnswerTakes
  <2> QED
    BY <2>1, <2>2, <2>3 DEF SetSessionTrip
<1>3. Ordinary(p, x) /\ x.pc # "insertRun"
  BY <1>0, <1>2 DEF Ordinary, ClaimSteps
<1>4. sess' \in [Guests -> SessType] /\ \A h \in Guests : sess'[h].st = sess[h].st
  <2>1. CASE UNCHANGED sess
    BY <1>0, <2>1 DEF Typed
  <2>2. CASE sess' # sess
    <3>1. PICK g \in Guests : g = req[p].g
      BY <1>0
    <3>2. sess' = [sess EXCEPT ![g].trip = IF sess[g].st = "none" THEN @ ELSE req[p].trip]
      BY <2>2, <3>1 DEF SetSessionTrip
    <3>3. PICK y : y = [sess[g] EXCEPT !.trip = IF sess[g].st = "none" THEN @ ELSE req[p].trip]
      OBVIOUS
    <3>4. PICK t : t = IF sess[g].st = "none" THEN sess[g].trip ELSE req[p].trip
      OBVIOUS
    <3>5. sess[g] \in SessType /\ sess[g].trip \in Trips \union {None}
      BY <1>0, SessRead DEF Typed
    <3>6. y = [sess[g] EXCEPT !.trip = t] /\ t \in Trips \union {None}
      BY <1>0, <3>3, <3>4, <3>5
    <3>7. y \in SessType /\ y.st = sess[g].st
      BY <3>5, <3>6, SessTrip
    <3>8. sess' = [sess EXCEPT ![g] = y]
      BY <3>2, <3>3
    <3> QED
      BY <1>0, <3>7, <3>8, SessAgain
  <2> QED
    BY <2>1, <2>2
<1> QED
  BY <1>0, <1>1, <1>3, <1>4, QuietStep DEF Typed

LEMMA InvCountRun ==
    ASSUME IInv, NEW p \in Reqs, CountRun(p)
    PROVE  IInv'
<1>0. Typed /\ req[p].pc = "count" /\ req[p].g \in Guests
  BY DEF IInv, Typed, Ready, CountRun
<1>1. UNCHANGED <<user, owner, run, cookie, sweep, cut>>
  BY DEF CountRun
<1>2. PICK x : Takes(p, x) /\ x.pc \in {"idle", "reply"}
  BY <1>0, AnswerTakes DEF CountRun
<1>3. Ordinary(p, x) /\ x.pc # "insertRun"
  BY <1>0, <1>2 DEF Ordinary, ClaimSteps
<1>4. sess' \in [Guests -> SessType] /\ \A h \in Guests : sess'[h].st = sess[h].st
  <2>1. PICK g \in Guests : g = req[p].g
    BY <1>0
  <2>2. sess[g] \in SessType /\ sess[g].full \in Nat /\ sess[g].partial \in Nat
    BY <1>0, SessRead DEF Typed
  <2>3. PICK n, m :
          /\ n = IF sess[g].st # "none" /\ req[p].scope = "full"
                 THEN sess[g].full + 1 ELSE sess[g].full
          /\ m = IF sess[g].st # "none" /\ req[p].scope # "full"
                 THEN sess[g].partial + 1 ELSE sess[g].partial
    OBVIOUS
  <2>4. n \in Nat /\ m \in Nat
    BY <2>2, <2>3
  <2>5. PICK z : z = [sess[g] EXCEPT !.full = n]
    OBVIOUS
  <2>6. z \in SessType /\ z.st = sess[g].st /\ z.partial = sess[g].partial
    BY <2>2, <2>4, <2>5, SessFull
  <2>7. PICK y : y = [z EXCEPT !.partial = m]
    OBVIOUS
  <2>8. y \in SessType /\ y.st = sess[g].st
    BY <2>4, <2>6, <2>7, SessPartial
  <2>9. sess' = [sess EXCEPT ![g] = y]
    <3>1. sess' = [sess EXCEPT
         ![g].full = IF sess[g].st # "none" /\ req[p].scope = "full" THEN @ + 1 ELSE @,
         ![g].partial = IF sess[g].st # "none" /\ req[p].scope # "full" THEN @ + 1 ELSE @]
      BY <2>1 DEF CountRun
    <3> QED
      BY <1>0, <2>2, <2>3, <2>5, <2>6, <2>7, <3>1 DEF Typed
  <2> QED
    BY <1>0, <2>8, <2>9, SessAgain
<1> QED
  BY <1>0, <1>1, <1>3, <1>4, QuietStep DEF Typed

LEMMA InvInsertTrip ==
    ASSUME IInv, NEW p \in Reqs, InsertTrip(p)
    PROVE  IInv'
<1>0. Typed /\ req[p].pc = "insertTrip" /\ req[p].g \in Guests /\ req[p] \in ReqType
  BY DEF IInv, Typed, Ready, InsertTrip
<1>1. UNCHANGED <<user, sess, run, cookie, sweep, cut>>
  BY DEF InsertTrip
<1>2. CASE Finish(p) /\ UNCHANGED owner
  <2>1. Ordinary(p, Idle) /\ Idle.pc # "insertRun"
    BY <1>0, <1>2, FinishTakes DEF Ordinary, ClaimSteps
  <2> QED
    BY <1>0, <1>1, <1>2, <2>1, QuietStep DEF Typed
<1>3. CASE UserExists(req[p].g)
  <2>1. PICK t \in Trips :
          /\ owner[t] = None
          /\ owner' = [owner EXCEPT ![t] = req[p].g]
          /\ req' = [req EXCEPT ![p].pc = "setTrip", ![p].trip = t]
    BY <1>3 DEF InsertTrip, NextId
  <2>2. PICK y : y = [req[p] EXCEPT !.pc = "setTrip"]
    OBVIOUS
  <2>3. y \in ReqType /\ y.pc = "setTrip" /\ y.g = req[p].g
    BY <1>0, <2>2, ReqFields DEF Steps
  <2>4. PICK x : x = [y EXCEPT !.trip = t]
    OBVIOUS
  <2>5. Ready(x) /\ x.pc = "setTrip"
    BY <1>0, <2>3, <2>4, ReqTrip DEF Ready
  <2>6. req' = [req EXCEPT ![p] = x]
    BY <2>1, <2>2, <2>4
  <2>7. Takes(p, x) /\ Ordinary(p, x)
    BY <1>0, <2>5, <2>6 DEF Ordinary, Takes, ClaimSteps
  <2>8. /\ \A u \in Trips : u # t => owner'[u] = owner[u]
        /\ owner'[t] = req[p].g /\ owner[t] = None
        /\ owner' \in [Trips -> Guests \union {Account, None, "deleted"}]
    BY <1>0, <2>1 DEF Typed
  <2>9. \A r \in Runs : Kept(r) => run[r].trip \in Trips
    BY <1>0 DEF Typed, Kept
  <2>10. \A u \in Trips : owner'[u] = Account <=> owner[u] = Account
    BY <1>0, <2>8, GuestTripAssumption
  <2>11. \A r \in Runs : Exposed(r)' => Exposed(r) /\ run'[r].user = run[r].user
    BY <1>1, <2>9, <2>10 DEF Exposed, Kept
  <2>12. InsertInv' /\ SweepInv' /\ LateInv'
    BY <1>1, <2>7, <2>11, OrdinaryKeeps
  <2>13. /\ req' \in [Reqs -> ReqType] /\ \A q \in Reqs : Ready(req'[q])
         /\ req'[p] = x /\ \A q \in Reqs : q # p => req'[q] = req[q]
    BY <1>0, <2>7, TakesReq
  <2>14. Typed'
    BY <1>0, <1>1, <2>8, <2>13 DEF Typed
  <2>15. RunInv'
    BY <1>1 DEF IInv, RunInv, Kept
  <2>16. OwnerInv'
    <3>1. ASSUME NEW r \in Runs, Kept(r)', run'[r].user # Account
          PROVE  owner'[run'[r].trip] \in {run'[r].user, Account}
      <4>1. Kept(r) /\ run'[r] = run[r]
        BY <1>1, <3>1 DEF Kept
      <4>2. run[r].user \in Guests /\ run[r].trip \in Trips
        BY <1>0, <3>1, <4>1 DEF Typed, Kept
      <4>3. owner[run[r].trip] \in {run[r].user, Account}
        BY <3>1, <4>1 DEF IInv, OwnerInv
      <4>4. run[r].trip # t
        BY <2>8, <4>2, <4>3, GuestTripAssumption
      <4> QED
        BY <2>8, <4>1, <4>2, <4>3, <4>4
    <3>2. ASSUME NEW q \in Reqs, req'[q].pc = "insertRun"
          PROVE  owner'[req'[q].trip] \in {req'[q].own, Account, "deleted"}
      <4>1. q # p /\ req'[q] = req[q]
        BY <2>5, <2>13, <3>2
      <4>2. req[q].trip \in Trips /\ req[q].own \in Guests \union {Account}
        BY <1>0, <3>2, <4>1 DEF Typed, Ready
      <4>3. owner[req[q].trip] \in {req[q].own, Account, "deleted"}
        BY <3>2, <4>1 DEF IInv, OwnerInv
      <4>4. CASE owner[req[q].trip] = None
        BY <2>8, <4>2, <4>3, <4>4, GuestTripAssumption
      <4>5. CASE owner[req[q].trip] # None
        BY <2>8, <4>1, <4>2, <4>3, <4>5
      <4> QED
        BY <4>4, <4>5
    <3> QED
      BY <3>1, <3>2 DEF OwnerInv
  <2> QED
    BY <2>12, <2>14, <2>15, <2>16 DEF IInv
<1> QED
  BY <1>2, <1>3 DEF InsertTrip

\* A new build, running or failed at once, for the owner that the request had read.
LEMMA NewBuild ==
    ASSUME IInv, NEW p \in Reqs, req[p].pc = "insertRun",
           UserExists(req[p].own), TripExists(req[p].trip),
           NEW r \in Runs, run[r].st = "unborn", NEW s \in {"active", "done"},
           run' = [run EXCEPT ![r] = [st |-> s, trip |-> req[p].trip,
                     user |-> req[p].own, scope |-> req[p].scope, by |-> req[p].g,
                     late |-> req[p].own # owner[req[p].trip]]],
           NEW x, Takes(p, x), x.pc \in {"count", "idle"},
           UNCHANGED <<user, sess, owner, cookie, sweep, cut>>
    PROVE  IInv'
<1>0. /\ Typed /\ req[p] \in ReqType /\ req[p].g \in Guests
      /\ req[p].trip \in Trips /\ req[p].own \in Guests \union {Account}
  BY DEF IInv, Typed, Ready
<1>1. Ordinary(p, x)
  BY DEF Ordinary, ClaimSteps
<1>4. PICK b \in BOOLEAN : b = (req[p].own # owner[req[p].trip])
  OBVIOUS
<1>5. PICK n : n = [st |-> s, trip |-> req[p].trip, user |-> req[p].own,
                    scope |-> req[p].scope, by |-> req[p].g, late |-> b]
  OBVIOUS
<1>6. /\ n \in RunType /\ n.st = s /\ n.trip = req[p].trip
      /\ n.user = req[p].own /\ n.late = b
  BY <1>0, <1>5 DEF RunType, ReqType
<1>7. run' = [run EXCEPT ![r] = n]
  BY <1>4, <1>5
<1>8. /\ run' \in [Runs -> RunType] /\ run'[r] = n
      /\ \A q \in Runs : q # r => run'[q] = run[q]
  BY <1>0, <1>6, <1>7 DEF Typed
<1>9. \A q \in Runs : Exposed(q)' => Exposed(q) /\ run'[q].user = run[q].user
  <2>1. ~Exposed(r)'
    BY <1>4, <1>6, <1>8 DEF Exposed
  <2>2. \A q \in Runs : q # r => (Exposed(q)' => Exposed(q))
    BY <1>8 DEF Exposed, Kept
  <2> QED
    BY <1>8, <2>1, <2>2
<1>10. InsertInv' /\ SweepInv' /\ LateInv'
  BY <1>1, <1>9, OrdinaryKeeps
<1>11. /\ req' \in [Reqs -> ReqType] /\ \A q \in Reqs : Ready(req'[q])
       /\ req'[p] = x /\ \A q \in Reqs : q # p => req'[q] = req[q]
  BY <1>0, TakesReq
<1>12. \A q \in Runs : run'[q].st # "unborn" =>
         run'[q].trip \in Trips /\ run'[q].user \in Guests \union {Account}
  BY <1>0, <1>6, <1>8 DEF Typed
<1>13. Typed'
  BY <1>0, <1>8, <1>11, <1>12 DEF Typed
<1>14. req[p].own = Account \/ user[req[p].own] \in Present
  BY DEF UserExists
<1>15. RunInv'
  BY <1>6, <1>8, <1>14 DEF IInv, RunInv, Kept
<1>16. owner[req[p].trip] \in {req[p].own, Account}
  BY <1>0 DEF IInv, OwnerInv, TripExists
<1>17. OwnerInv'
  BY <1>6, <1>8, <1>11, <1>16 DEF IInv, OwnerInv, Kept
<1> QED
  BY <1>10, <1>13, <1>15, <1>17 DEF IInv

LEMMA InvInsertRun ==
    ASSUME IInv, NEW p \in Reqs, InsertRun(p)
    PROVE  IInv'
<1>0. Typed /\ req[p].pc = "insertRun" /\ UNCHANGED <<user, sess, owner, cookie, sweep, cut>>
  BY DEF IInv, InsertRun
<1>1. CASE Finish(p) /\ UNCHANGED run
  <2>1. Ordinary(p, Idle) /\ Idle.pc # "insertRun"
    BY <1>0, <1>1, FinishTakes DEF Ordinary, ClaimSteps
  <2> QED
    BY <1>0, <1>1, <2>1, QuietStep DEF Typed
<1>2. CASE UserExists(req[p].own) /\ TripExists(req[p].trip)
  <2>1. PICK r \in Runs :
          /\ run[r].st = "unborn"
          /\ run' = [run EXCEPT ![r] = [st |-> "active", trip |-> req[p].trip,
                       user |-> req[p].own, scope |-> req[p].scope, by |-> req[p].g,
                       late |-> req[p].own # owner[req[p].trip]]]
          /\ To(p, "count")
    BY <1>2 DEF InsertRun, NextId
  <2>2. PICK x : Takes(p, x) /\ x.pc = "count"
    BY <1>0, <2>1, ToTakes DEF Steps
  <2> QED
    BY <1>0, <1>2, <2>1, <2>2, NewBuild
<1> QED
  BY <1>1, <1>2 DEF InsertRun

LEMMA InvInsertRunUnqueued ==
    ASSUME IInv, NEW p \in Reqs, InsertRunUnqueued(p)
    PROVE  IInv'
<1>0. /\ Typed /\ req[p].pc = "insertRun" /\ UNCHANGED <<user, sess, owner, cookie, sweep, cut>>
      /\ UserExists(req[p].own) /\ TripExists(req[p].trip) /\ Finish(p)
  BY DEF IInv, InsertRunUnqueued
<1>1. PICK r \in Runs :
        /\ run[r].st = "unborn"
        /\ run' = [run EXCEPT ![r] = [st |-> "done", trip |-> req[p].trip,
                     user |-> req[p].own, scope |-> req[p].scope, by |-> req[p].g,
                     late |-> req[p].own # owner[req[p].trip]]]
  BY DEF InsertRunUnqueued, NextId
<1>2. Takes(p, Idle) /\ Idle.pc = "idle"
  BY <1>0, FinishTakes
<1> QED
  BY <1>0, <1>1, <1>2, NewBuild

\* A statement throws: the request ends, and the rows stay.
LEMMA InvStatementFails ==
    ASSUME IInv, NEW p \in Reqs, StatementFails(p)
    PROVE  IInv'
<1>0. /\ Typed /\ UNCHANGED <<user, sess, owner, run, cookie, sweep>> /\ Finish(p)
      /\ cut' = cut \union HalfClaimed({p})
  BY DEF IInv, StatementFails
<1>1. Takes(p, Idle) /\ Idle.pc = "idle"
  BY <1>0, FinishTakes
<1>2. /\ req' \in [Reqs -> ReqType] /\ \A q \in Reqs : Ready(req'[q])
      /\ req'[p].pc = "idle" /\ \A q \in Reqs : q # p => req'[q] = req[q]
  BY <1>0, <1>1, TakesReq
<1>3. cut' \subseteq Guests
  BY <1>0 DEF Typed, Ready, HalfClaimed
<1>4. Typed'
  BY <1>0, <1>2, <1>3 DEF Typed
<1>5. \A q \in Reqs : req'[q].pc # "idle" => req'[q] = req[q]
  BY <1>2
<1>6. InsertInv' /\ SweepInv' /\ RunInv' /\ OwnerInv'
  BY <1>0, <1>5 DEF IInv, InsertInv, SweepInv, Inserts, RunInv, OwnerInv, Kept, Typed
<1>7. \A r \in Runs : Exposed(r)' => Exposed(r) /\ run'[r].user = run[r].user
  BY <1>0 DEF Exposed, Kept
<1>8. \A q \in Reqs : req[q].pc = "claimRuns" => req'[q] = req[q] \/ req[q].g \in cut'
  BY <1>0, <1>2 DEF HalfClaimed
<1>9. cut \subseteq cut'
  BY <1>0
<1>10. LateInv'
  BY <1>7, <1>8, <1>9, LateKeeps
<1> QED
  BY <1>4, <1>6, <1>10 DEF IInv

-----------------------------------------------------------------------------
(* A new guest *)

LEMMA InvEnsureNewUser ==
    ASSUME IInv, NEW p \in Reqs, EnsureNewUser(p)
    PROVE  IInv'
<1>0. Typed /\ req[p].pc = "idle" /\ UNCHANGED <<sess, owner, run, cookie, sweep, cut>>
  BY DEF IInv, EnsureNewUser
<1>1. PICK g \in Guests :
        /\ user[g] = "none"
        /\ user' = [user EXCEPT ![g] = "fresh"]
        /\ req' = [req EXCEPT ![p] =
             [Idle EXCEPT !.pc = "insertSession", !.g = g, !.new = TRUE]]
  BY DEF EnsureNewUser
<1>2. PICK x : x = [Idle EXCEPT !.pc = "insertSession", !.g = g, !.new = TRUE]
  OBVIOUS
<1>3. Ready(x) /\ x.pc = "insertSession" /\ x.g = g
  BY <1>2, IdleInsert
<1>4. Takes(p, x)
  BY <1>1, <1>2, <1>3 DEF Takes
<1>5. /\ req' \in [Reqs -> ReqType] /\ \A q \in Reqs : Ready(req'[q])
      /\ req'[p] = x /\ \A q \in Reqs : q # p => req'[q] = req[q]
  BY <1>0, <1>4, TakesReq
<1>6. /\ user' \in [Guests -> {"none"} \union Marks \union Present]
      /\ user'[g] = "fresh" /\ \A h \in Guests : h # g => user'[h] = user[h]
  BY <1>0, <1>1 DEF Typed, Present
<1>7. Typed'
  BY <1>0, <1>5, <1>6 DEF Typed
<1>8. sess[g].st = "none" /\ g \notin sweep
  BY <1>1 DEF IInv, InsertInv, SweepInv
<1>9. \A q \in Reqs : req[q].pc = "insertSession" => req[q].g # g /\ req[q].g \in Guests
  BY <1>0, <1>1 DEF IInv, InsertInv, Typed, Ready
<1>10. InsertInv'
  BY <1>0, <1>3, <1>5, <1>6, <1>8, <1>9 DEF IInv, InsertInv
<1>11. SweepInv'
  <2> SUFFICES ASSUME NEW h \in sweep
               PROVE  /\ sess[h].st # "live" /\ user'[h] # "none"
                      /\ \A q \in Reqs : ~(req'[q].pc = "insertSession" /\ req'[q].g = h)
    BY <1>0 DEF SweepInv, Inserts
  <2>1. h # g /\ h \in Guests
    BY <1>0, <1>8 DEF Typed
  <2> QED
    BY <1>3, <1>5, <1>6, <2>1 DEF IInv, SweepInv, Inserts
<1>12. RunInv'
  <2>1. \A h \in Guests : user[h] \in Present => user'[h] = user[h]
    BY <1>1, <1>6 DEF Present
  <2>2. \A r \in Runs : Kept(r) => run[r].user = Account \/ run[r].user \in Guests
    BY <1>0 DEF Typed, Kept
  <2> QED
    BY <1>0, <2>1, <2>2 DEF IInv, RunInv, Kept
<1>13. OwnerInv'
  BY <1>0, <1>3, <1>5 DEF IInv, OwnerInv, Kept
<1>14. LateInv'
  <2>1. \A r \in Runs : Exposed(r)' => Exposed(r) /\ run'[r].user = run[r].user
    BY <1>0 DEF Exposed, Kept
  <2>2. \A q \in Reqs : req[q].pc = "claimRuns" => req'[q] = req[q]
    BY <1>0, <1>5
  <2> QED
    BY <1>0, <2>1, <2>2, LateKeeps
<1> QED
  BY <1>7, <1>10, <1>11, <1>12, <1>13, <1>14 DEF IInv

LEMMA InvEnsureNewSession ==
    ASSUME IInv, NEW p \in Reqs, EnsureNewSession(p)
    PROVE  IInv'
<1>0. /\ Typed /\ req[p].pc = "insertSession" /\ UNCHANGED <<user, owner, run, cookie, sweep, cut>>
      /\ req[p].g \in Guests
  BY DEF IInv, EnsureNewSession, Typed, Ready
<1>1. PICK g \in Guests : g = req[p].g
  BY <1>0
<1>2. PICK x : Takes(p, x) /\ x.pc \in {"idle", "reply", "insertTrip"}
  <2>1. CASE Finish(p)
    BY <2>1, FinishTakes
  <2>2. CASE To(p, "insertTrip")
    BY <1>0, <2>2, ToTakes DEF Steps
  <2>3. CASE Answer(p)
    BY <1>0, <2>3, AnswerTakes
  <2> QED
    BY <2>1, <2>2, <2>3 DEF EnsureNewSession
<1>3. /\ sess' \in [Guests -> SessType]
      /\ \A h \in Guests : h # g => sess'[h] = sess[h]
      /\ sess'[g] = sess[g] \/ user[g] \in Present
  BY <1>0, <1>1, NewSession DEF EnsureNewSession, Typed
<1>5. /\ req' \in [Reqs -> ReqType] /\ \A q \in Reqs : Ready(req'[q])
      /\ req'[p] = x /\ \A q \in Reqs : q # p => req'[q] = req[q]
  BY <1>0, <1>2, TakesReq
<1>6. Typed'
  BY <1>0, <1>3, <1>5 DEF Typed
<1>7. \A q \in Reqs : req'[q].pc = "insertSession" =>
        /\ q # p /\ req'[q] = req[q] /\ req[q].pc = "insertSession"
        /\ req[q].g # g /\ req[q].g \in Guests
  BY <1>0, <1>1, <1>2, <1>5 DEF IInv, InsertInv, Typed, Ready
<1>8. InsertInv'
  BY <1>0, <1>3, <1>7 DEF IInv, InsertInv, Present
<1>9. g \notin sweep
  BY <1>0, <1>1 DEF IInv, SweepInv, Inserts
<1>10. SweepInv'
  BY <1>0, <1>3, <1>7, <1>9 DEF IInv, SweepInv, Inserts, Typed
<1>11. RunInv'
  BY <1>0 DEF IInv, RunInv, Kept
<1>12. OwnerInv'
  BY <1>0, <1>2, <1>5 DEF IInv, OwnerInv, Kept
<1>13. LateInv'
  <2>1. \A r \in Runs : Exposed(r)' => Exposed(r) /\ run'[r].user = run[r].user
    BY <1>0 DEF Exposed, Kept
  <2>2. \A q \in Reqs : req[q].pc = "claimRuns" => req'[q] = req[q]
    BY <1>0, <1>5
  <2> QED
    BY <1>0, <2>1, <2>2, LateKeeps
<1> QED
  BY <1>6, <1>8, <1>10, <1>11, <1>12, <1>13 DEF IInv

-----------------------------------------------------------------------------
(* The claim *)

\* A claim goes to its next step.
LEMMA ClaimGoesOn ==
    ASSUME Typed, NEW p \in Reqs, NEW s \in {"claimRuns", "claimSession", "claimUser", "claimReply"},
           To(p, s), req[p].pc \in ClaimSteps
    PROVE  /\ req' \in [Reqs -> ReqType] /\ \A q \in Reqs : Ready(req'[q])
           /\ req'[p].pc = s /\ req'[p].g = req[p].g
           /\ \A q \in Reqs : q # p => req'[q] = req[q]
<1>1. PICK x : Takes(p, x) /\ x.pc = s /\ x.g = req[p].g
  BY ToTakes DEF Steps, ClaimSteps
<1> QED
  BY <1>1, TakesReq

LEMMA InvClaimTrips ==
    ASSUME IInv, NEW p \in Reqs, ClaimTrips(p)
    PROVE  IInv'
<1>0. /\ Typed /\ req[p].pc = "claimTrips" /\ UNCHANGED <<user, sess, run, cookie, sweep, cut>>
      /\ req[p].g \in Guests
  BY DEF IInv, ClaimTrips, Typed, Ready
<1>1. PICK g \in Guests : g = req[p].g
  BY <1>0
<1>2. /\ req' \in [Reqs -> ReqType] /\ \A q \in Reqs : Ready(req'[q])
      /\ req'[p].pc = "claimRuns" /\ req'[p].g = g
      /\ \A q \in Reqs : q # p => req'[q] = req[q]
  BY <1>0, <1>1, ClaimGoesOn DEF ClaimTrips, ClaimSteps
<1>3. owner' = [t \in Trips |-> IF owner[t] = g THEN Account ELSE owner[t]]
  BY <1>1 DEF ClaimTrips
<1>4. Typed'
  BY <1>0, <1>2, <1>3 DEF Typed
<1>5. InsertInv' /\ SweepInv' /\ RunInv'
  BY <1>0, <1>2 DEF IInv, InsertInv, SweepInv, Inserts, RunInv, Kept
<1>6. OwnerInv'
  <2>1. ASSUME NEW r \in Runs, Kept(r)', run'[r].user # Account
        PROVE  owner'[run'[r].trip] \in {run'[r].user, Account}
    BY <1>0, <1>3, <2>1 DEF IInv, OwnerInv, Kept, Typed
  <2>2. ASSUME NEW q \in Reqs, req'[q].pc = "insertRun"
        PROVE  owner'[req'[q].trip] \in {req'[q].own, Account, "deleted"}
    <3>1. q # p /\ req'[q] = req[q] /\ req[q].trip \in Trips
      BY <1>0, <1>2, <2>2 DEF Typed, Ready
    <3> QED
      BY <1>3, <2>2, <3>1 DEF IInv, OwnerInv
  <2> QED
    BY <2>1, <2>2 DEF OwnerInv
<1>7. LateInv'
  <2> SUFFICES ASSUME NEW r \in Runs, Exposed(r)' PROVE Half(run[r].user)'
    BY <1>0 DEF LateInv
  <2>1. /\ Kept(r) /\ run[r].user # Account /\ ~run[r].late
        /\ owner'[run[r].trip] = Account /\ run[r].trip \in Trips
    BY <1>0 DEF Exposed, Kept, Typed
  <2>2. owner[run[r].trip] \in {run[r].user, Account}
    BY <2>1 DEF IInv, OwnerInv
  <2>3. CASE owner[run[r].trip] = Account
    <3>1. Half(run[r].user)
      BY <2>1, <2>3 DEF IInv, LateInv, Exposed
    <3>2. \A q \in Reqs : req[q].pc = "claimRuns" => req'[q] = req[q]
      BY <1>0, <1>2
    <3> QED
      BY <1>0, <3>1, <3>2 DEF Half
  <2>4. CASE owner[run[r].trip] # Account
    <3>1. run[r].user = g
      BY <1>3, <2>1, <2>2, <2>4
    <3> QED
      BY <1>0, <1>2, <3>1 DEF Half
  <2> QED
    BY <2>3, <2>4
<1> QED
  BY <1>4, <1>5, <1>6, <1>7 DEF IInv

LEMMA InvClaimRuns ==
    ASSUME IInv, NEW p \in Reqs, ClaimRuns(p)
    PROVE  IInv'
<1>0. /\ Typed /\ req[p].pc = "claimRuns" /\ UNCHANGED <<user, sess, owner, cookie, sweep, cut>>
      /\ req[p].g \in Guests
  BY DEF IInv, ClaimRuns, Typed, Ready
<1>1. PICK g \in Guests : g = req[p].g
  BY <1>0
<1>2. /\ req' \in [Reqs -> ReqType] /\ \A q \in Reqs : Ready(req'[q])
      /\ req'[p].pc = "claimSession" /\ req'[p].g = g
      /\ \A q \in Reqs : q # p => req'[q] = req[q]
  BY <1>0, <1>1, ClaimGoesOn DEF ClaimRuns, ClaimSteps
<1>3. run' = [r \in Runs |-> IF run[r].user = g /\ run[r].st \in {"active", "done"}
                             THEN [run[r] EXCEPT !.user = Account] ELSE run[r]]
  BY <1>1 DEF ClaimRuns
<1>4. ASSUME NEW r \in Runs
      PROVE  /\ run'[r] \in RunType /\ run'[r].st = run[r].st /\ run'[r].trip = run[r].trip
             /\ run'[r].late = run[r].late
             /\ IF run[r].user = g /\ Kept(r) THEN run'[r].user = Account
                ELSE run'[r].user = run[r].user
  <2>1. run[r] \in RunType
    BY <1>0 DEF Typed
  <2>2. CASE run[r].user = g /\ Kept(r)
    <3>1. PICK x : x = [run[r] EXCEPT !.user = Account]
      OBVIOUS
    <3>2. /\ x \in RunType /\ x.st = run[r].st /\ x.trip = run[r].trip
          /\ x.user = Account /\ x.late = run[r].late
      BY <2>1, <3>1 DEF RunType
    <3>3. run'[r] = x
      BY <1>3, <2>2, <3>1 DEF Kept
    <3> QED
      BY <2>2, <3>2, <3>3
  <2>3. CASE ~(run[r].user = g /\ Kept(r))
    BY <1>3, <2>1, <2>3 DEF Kept
  <2> QED
    BY <2>2, <2>3
<1>5. run' \in [Runs -> RunType]
  BY <1>3, <1>4
<1>6. Typed'
  BY <1>0, <1>2, <1>4, <1>5 DEF Typed
<1>7. InsertInv' /\ SweepInv' /\ RunInv'
  BY <1>0, <1>2, <1>4 DEF IInv, InsertInv, SweepInv, Inserts, RunInv, Kept
<1>8. OwnerInv'
  BY <1>0, <1>2, <1>4 DEF IInv, OwnerInv, Kept
<1>9. LateInv'
  <2> SUFFICES ASSUME NEW r \in Runs, Exposed(r)' PROVE Half(run[r].user)'
    BY DEF LateInv
  <2>1. Kept(r)
    BY <1>4 DEF Exposed, Kept
  <2>2. run[r].user # g /\ run'[r].user = run[r].user
    BY <1>4, <2>1 DEF Exposed
  <2>3. Half(run[r].user)
    BY <1>0, <1>4, <2>1, <2>2 DEF IInv, LateInv, Exposed
  <2>4. \A q \in Reqs : req[q].pc = "claimRuns" /\ req[q].g # g => req'[q] = req[q]
    BY <1>1, <1>2
  <2> QED
    BY <1>0, <2>2, <2>3, <2>4 DEF Half
<1> QED
  BY <1>6, <1>7, <1>8, <1>9 DEF IInv

LEMMA InvClaimSession ==
    ASSUME IInv, NEW p \in Reqs, ClaimSession(p)
    PROVE  IInv'
<1>0. /\ Typed /\ req[p].pc = "claimSession" /\ UNCHANGED <<user, owner, run, cookie, sweep, cut>>
      /\ req[p].g \in Guests
  BY DEF IInv, ClaimSession, Typed, Ready
<1>2. /\ req' \in [Reqs -> ReqType] /\ \A q \in Reqs : Ready(req'[q])
      /\ req'[p].pc = "claimUser" /\ req'[p].g = req[p].g
      /\ \A q \in Reqs : q # p => req'[q] = req[q]
  BY <1>0, ClaimGoesOn DEF ClaimSession, ClaimSteps
<1>3. /\ sess' \in [Guests -> SessType]
      /\ \A g \in Guests : sess'[g].st \in {sess[g].st, "none"}
  BY <1>0, NewSession DEF ClaimSession, Typed
<1>4. Typed'
  BY <1>0, <1>2, <1>3 DEF Typed
<1>5. \A q \in Reqs : req'[q].pc = "insertSession" =>
        req'[q] = req[q] /\ req[q].g \in Guests
  BY <1>0, <1>2 DEF Typed, Ready
<1>6. InsertInv'
  BY <1>0, <1>2, <1>3, <1>5 DEF IInv, InsertInv
<1>7. SweepInv' /\ RunInv' /\ OwnerInv'
  BY <1>0, <1>2, <1>3, <1>5
     DEF IInv, SweepInv, Inserts, RunInv, OwnerInv, Kept, Typed
<1>8. LateInv'
  <2>1. \A r \in Runs : Exposed(r)' => Exposed(r) /\ run'[r].user = run[r].user
    BY <1>0 DEF Exposed, Kept
  <2>2. \A q \in Reqs : req[q].pc = "claimRuns" => req'[q] = req[q]
    BY <1>0, <1>2
  <2> QED
    BY <1>0, <2>1, <2>2, LateKeeps
<1> QED
  BY <1>4, <1>6, <1>7, <1>8 DEF IInv

\* The removal of guests, by the end of a claim or by the cleanup.
LEMMA DeleteKeeps ==
    ASSUME IInv, NEW G \in SUBSET Guests, NEW mark \in Marks, DeleteUsers(G, mark),
           cookie' = cookie, sweep' \subseteq sweep,
           req' \in [Reqs -> ReqType], \A q \in Reqs : Ready(req'[q]),
           \A q \in Reqs : req'[q].pc \in {"insertSession", "insertRun"} => req'[q] = req[q],
           \A q \in Reqs : req[q].pc = "claimRuns" => req'[q] = req[q],
           cut' = cut
    PROVE  IInv'
<1>0. Typed
  BY DEF IInv
<1>1. /\ user' \in [Guests -> {"none"} \union Marks \union Present]
      /\ \A g \in Guests : IF g \in G /\ user[g] \in Present THEN user'[g] = mark
                           ELSE user'[g] = user[g]
      /\ sess' \in [Guests -> SessType]
      /\ \A g \in Guests : sess'[g].st \in {sess[g].st, "none"}
      /\ owner' \in [Trips -> Guests \union {Account, None, "deleted"}]
      /\ \A t \in Trips : owner'[t] \in {owner[t], "deleted"}
      /\ \A t \in Trips : owner'[t] = Account <=> owner[t] = Account
      /\ run' \in [Runs -> RunType]
      /\ \A r \in Runs : run'[r].st # "unborn" =>
           run'[r].trip \in Trips /\ run'[r].user \in Guests \union {Account}
  BY <1>0, Deletes
<1>2. \A r \in Runs : Kept(r)' => /\ run'[r] = run[r] /\ Kept(r)
                                  /\ owner'[run[r].trip] = owner[run[r].trip]
                                  /\ ~(run[r].user \in G /\ user[run[r].user] \in Present)
  BY <1>0, Deletes
<1>3. Typed'
  BY <1>0, <1>1 DEF Typed
<1>4. \A g \in Guests : /\ user'[g] = "none" => user[g] = "none"
                        /\ user'[g] = "stale" => user[g] = "stale"
                        /\ user[g] # "none" => user'[g] # "none"
  BY <1>1 DEF Marks, Present
<1>5. \A q \in Reqs : req'[q].pc = "insertSession" =>
        req'[q] = req[q] /\ req[q].g \in Guests
  BY <1>0 DEF Typed, Ready
<1>6. InsertInv'
  BY <1>1, <1>4, <1>5 DEF IInv, InsertInv
<1>7. SweepInv'
  <2> SUFFICES ASSUME NEW h \in sweep
               PROVE  /\ sess'[h].st # "live" /\ user'[h] # "none"
                      /\ \A q \in Reqs : ~(req'[q].pc = "insertSession" /\ req'[q].g = h)
    BY DEF SweepInv, Inserts
  <2>1. h \in Guests
    BY <1>0 DEF Typed
  <2> QED
    BY <1>1, <1>4, <1>5, <2>1 DEF IInv, SweepInv, Inserts
<1>8. ASSUME NEW r \in Runs, Kept(r)', run[r].user # Account
      PROVE  user[run[r].user] \in Present /\ run[r].user \in Guests /\ run[r].user \notin G
  BY <1>0, <1>2, <1>8 DEF IInv, RunInv, Typed, Kept
<1>9. RunInv'
  BY <1>1, <1>2, <1>8 DEF RunInv
<1>10. OwnerInv'
  <2>1. \A r \in Runs : Kept(r)' /\ run'[r].user # Account =>
          owner'[run'[r].trip] \in {run'[r].user, Account}
    BY <1>2 DEF IInv, OwnerInv
  <2>2. ASSUME NEW q \in Reqs, req'[q].pc = "insertRun"
        PROVE  owner'[req'[q].trip] \in {req'[q].own, Account, "deleted"}
    <3>1. req'[q] = req[q] /\ req[q].trip \in Trips
      BY <1>0, <2>2 DEF Typed, Ready
    <3>2. owner[req[q].trip] \in {req[q].own, Account, "deleted"}
      BY <2>2, <3>1 DEF IInv, OwnerInv
    <3> QED
      BY <1>1, <3>1, <3>2
  <2> QED
    BY <2>1, <2>2 DEF OwnerInv
<1>11. LateInv'
  <2>1. \A r \in Runs : Exposed(r)' => Exposed(r) /\ run'[r].user = run[r].user
    BY <1>2 DEF Exposed
  <2> QED
    BY <2>1, LateKeeps
<1> QED
  BY <1>3, <1>6, <1>7, <1>9, <1>10, <1>11 DEF IInv

LEMMA InvClaimUser ==
    ASSUME IInv, NEW p \in Reqs, ClaimUser(p)
    PROVE  IInv'
<1>0. /\ Typed /\ req[p].pc = "claimUser" /\ UNCHANGED <<cookie, sweep, cut>>
      /\ req[p].g \in Guests /\ DeleteUsers({req[p].g}, "claimed")
  BY DEF IInv, ClaimUser, Typed, Ready
<1>2. /\ req' \in [Reqs -> ReqType] /\ \A q \in Reqs : Ready(req'[q])
      /\ req'[p].pc = "claimReply" /\ req'[p].g = req[p].g
      /\ \A q \in Reqs : q # p => req'[q] = req[q]
  BY <1>0, ClaimGoesOn DEF ClaimUser, ClaimSteps
<1>3. \A q \in Reqs : req'[q].pc \in {"insertSession", "insertRun"} => req'[q] = req[q]
  BY <1>2
<1>4. \A q \in Reqs : req[q].pc = "claimRuns" => req'[q] = req[q]
  BY <1>0, <1>2
<1>5. {req[p].g} \in SUBSET Guests /\ "claimed" \in Marks
  BY <1>0 DEF Marks
<1> QED
  BY <1>0, <1>2, <1>3, <1>4, <1>5, DeleteKeeps

LEMMA InvCleanupDelete ==
    ASSUME IInv, CleanupDelete
    PROVE  IInv'
<1>0. /\ Typed /\ UNCHANGED <<cookie, req, cut>> /\ sweep' = {} /\ DeleteUsers(sweep, "swept")
      /\ sweep \in SUBSET Guests /\ "swept" \in Marks
  BY DEF IInv, CleanupDelete, Typed, Marks
<1>1. /\ req' \in [Reqs -> ReqType] /\ \A q \in Reqs : Ready(req'[q])
      /\ \A q \in Reqs : req'[q] = req[q]
  BY <1>0 DEF Typed
<1> QED
  BY <1>0, <1>1, DeleteKeeps

-----------------------------------------------------------------------------
(* Time, the worker and restarts *)

LEMMA InvBuildEnds ==
    ASSUME IInv, NEW r \in Runs, BuildEnds(r)
    PROVE  IInv'
<1>0. /\ Typed /\ UNCHANGED <<user, sess, owner, cookie, req, sweep, cut>>
      /\ run[r].st = "active" /\ run[r] \in RunType
  BY DEF IInv, BuildEnds, Typed
<1>1. PICK x : x = [run[r] EXCEPT !.st = "done"]
  OBVIOUS
<1>2. /\ x \in RunType /\ x.st = "done" /\ x.trip = run[r].trip /\ x.user = run[r].user
      /\ x.late = run[r].late
  BY <1>0, <1>1 DEF RunType
<1>3. run' = [run EXCEPT ![r] = x]
  BY <1>1 DEF BuildEnds
<1>4. /\ run' \in [Runs -> RunType]
      /\ \A q \in Runs : /\ run'[q].trip = run[q].trip /\ run'[q].user = run[q].user
                         /\ run'[q].late = run[q].late /\ (Kept(q)' <=> Kept(q))
                         /\ run'[q].st = "unborn" <=> run[q].st = "unborn"
  BY <1>0, <1>2, <1>3 DEF Typed, Kept
<1>5. Typed'
  BY <1>0, <1>4 DEF Typed
<1>6. InsertInv' /\ SweepInv'
  BY <1>0 DEF IInv, InsertInv, SweepInv, Inserts
<1>7. RunInv' /\ OwnerInv'
  BY <1>0, <1>4 DEF IInv, RunInv, OwnerInv
<1>8. \A q \in Runs : Exposed(q)' => Exposed(q) /\ run'[q].user = run[q].user
  BY <1>0, <1>4 DEF Exposed
<1> QED
  BY <1>0, <1>5, <1>6, <1>7, <1>8, LateKeeps DEF IInv

LEMMA InvSessionExpires ==
    ASSUME IInv, NEW g \in Guests, SessionExpires(g)
    PROVE  IInv'
<1>0. /\ Typed /\ UNCHANGED <<user, owner, run, cookie, req, sweep, cut>>
      /\ sess[g].st = "live" /\ sess[g] \in SessType
  BY DEF IInv, SessionExpires, Typed
<1>1. PICK x : x = [sess[g] EXCEPT !.st = "expired"]
  OBVIOUS
<1>2. x \in SessType /\ x.st = "expired"
  BY <1>0, <1>1, SessState
<1>3. sess' = [sess EXCEPT ![g] = x]
  BY <1>1 DEF SessionExpires
<1>4. /\ sess' \in [Guests -> SessType] /\ sess'[g].st = "expired"
      /\ \A h \in Guests : h # g => sess'[h] = sess[h]
  BY <1>0, <1>2, <1>3 DEF Typed
<1>5. Typed'
  BY <1>0, <1>4 DEF Typed
<1>6. \A q \in Reqs : req[q].pc = "insertSession" => req[q].g \in Guests
  BY <1>0 DEF Typed, Ready
<1>7. InsertInv' /\ SweepInv'
  BY <1>0, <1>4, <1>6 DEF IInv, InsertInv, SweepInv, Inserts, Typed
<1>8. RunInv' /\ OwnerInv'
  BY <1>0 DEF IInv, RunInv, OwnerInv, Kept
<1>9. \A q \in Runs : Exposed(q)' => Exposed(q) /\ run'[q].user = run[q].user
  BY <1>0 DEF Exposed, Kept
<1> QED
  BY <1>0, <1>5, <1>7, <1>8, <1>9, LateKeeps DEF IInv

LEMMA InvGraceEnds ==
    ASSUME IInv, NEW g \in Guests, GraceEnds(g)
    PROVE  IInv'
<1>0. /\ Typed /\ UNCHANGED <<sess, owner, run, cookie, req, sweep, cut>>
      /\ user[g] = "fresh" /\ \A q \in Reqs : ~Inserts(q, g)
  BY DEF IInv, GraceEnds, Inserts
<1>1. /\ user' \in [Guests -> {"none"} \union Marks \union Present] /\ user'[g] = "stale"
      /\ \A h \in Guests : h # g => user'[h] = user[h]
  BY <1>0 DEF GraceEnds, Typed, Present
<1>2. Typed'
  BY <1>0, <1>1 DEF Typed
<1>3. \A q \in Reqs : req[q].pc = "insertSession" => req[q].g \in Guests /\ req[q].g # g
  BY <1>0 DEF Typed, Ready, Inserts
<1>4. InsertInv' /\ SweepInv'
  BY <1>0, <1>1, <1>3 DEF IInv, InsertInv, SweepInv, Inserts, Typed
<1>5. RunInv' /\ OwnerInv'
  <2>1. \A h \in Guests : user[h] \in Present => user'[h] \in Present
    BY <1>1 DEF Present
  <2>2. \A r \in Runs : Kept(r) => run[r].user = Account \/ run[r].user \in Guests
    BY <1>0 DEF Typed, Kept
  <2> QED
    BY <1>0, <2>1, <2>2 DEF IInv, RunInv, OwnerInv, Kept
<1>6. \A q \in Runs : Exposed(q)' => Exposed(q) /\ run'[q].user = run[q].user
  BY <1>0 DEF Exposed, Kept
<1> QED
  BY <1>0, <1>2, <1>4, <1>5, <1>6, LateKeeps DEF IInv

LEMMA InvCleanupSelect ==
    ASSUME IInv, CleanupSelect
    PROVE  IInv'
<1>0. Typed /\ UNCHANGED <<user, sess, owner, run, cookie, req, cut>> /\ sweep' = CleanupIds
  BY DEF IInv, CleanupSelect
<1>1. Typed'
  BY <1>0 DEF Typed, CleanupIds
<1>2. SweepInv'
  <2> SUFFICES ASSUME NEW h \in CleanupIds
               PROVE  /\ sess[h].st # "live" /\ user[h] # "none"
                      /\ \A q \in Reqs : ~Inserts(q, h)
    BY <1>0 DEF SweepInv, Inserts
  <2> QED
    BY DEF CleanupIds, Expired, Orphan, IInv, InsertInv, Inserts, Present
<1>3. InsertInv' /\ RunInv' /\ OwnerInv'
  BY <1>0 DEF IInv, InsertInv, RunInv, OwnerInv, Kept
<1>4. \A q \in Runs : Exposed(q)' => Exposed(q) /\ run'[q].user = run[q].user
  BY <1>0 DEF Exposed, Kept
<1> QED
  BY <1>0, <1>1, <1>2, <1>3, <1>4, LateKeeps DEF IInv

LEMMA InvRestart ==
    ASSUME IInv, Restart
    PROVE  IInv'
<1>0. /\ Typed /\ UNCHANGED <<user, sess, owner, run, cookie>> /\ sweep' = {}
      /\ cut' = cut \union HalfClaimed(Reqs)
  BY DEF IInv, Restart
<1>1. req' \in [Reqs -> ReqType] /\ \A q \in Reqs : Ready(req'[q]) /\ req'[q].pc = "idle"
  BY IdleType DEF Restart
<1>2. cut' \subseteq Guests
  BY <1>0 DEF Typed, Ready, HalfClaimed
<1>3. Typed'
  BY <1>0, <1>1, <1>2 DEF Typed
<1>4. InsertInv' /\ SweepInv' /\ RunInv' /\ OwnerInv'
  BY <1>0, <1>1 DEF IInv, InsertInv, SweepInv, RunInv, OwnerInv, Kept
<1>5. \A r \in Runs : Exposed(r)' => Exposed(r) /\ run'[r].user = run[r].user
  BY <1>0 DEF Exposed, Kept
<1>6. \A q \in Reqs : req[q].pc = "claimRuns" => req[q].g \in cut'
  BY <1>0 DEF HalfClaimed
<1>7. cut \subseteq cut'
  BY <1>0
<1>8. LateInv'
  BY <1>5, <1>6, <1>7, LateKeeps
<1> QED
  BY <1>3, <1>4, <1>8 DEF IInv

-----------------------------------------------------------------------------
(* The invariant and the theorems *)

LEMMA InvStep == IInv /\ [Next]_vars => IInv'
<1> SUFFICES ASSUME IInv, [Next]_vars PROVE IInv'
  OBVIOUS
<1>1. CASE UNCHANGED vars
  BY <1>1 DEF vars, IInv, Typed, InsertInv, SweepInv, Inserts, RunInv, OwnerInv, LateInv,
              Exposed, Half, Kept
<1>2. CASE \E p \in Reqs : NewRequest(p)
  BY <1>2, InvNewRequest, InvEnsureNewUser DEF NewRequest
<1>3. CASE \E p \in Reqs : RequestStep(p)
  BY <1>3, InvEnsureNewSession, InvInsertTrip, InvSetSessionTrip, InvReplies, InvInsertRun,
     InvCountRun, InvClaimTrips, InvClaimRuns, InvClaimSession, InvClaimUser
     DEF RequestStep
<1>4. CASE \E r \in Runs : BuildEnds(r)
  BY <1>4, InvBuildEnds
<1>5. CASE \E t \in Trips : LockExpires(t)
  BY <1>5 DEF LockExpires, IInv, Typed, InsertInv, SweepInv, Inserts, RunInv, OwnerInv,
              LateInv, Exposed, Half, Kept
<1>6. CASE \E g \in Guests : SessionExpires(g) \/ GraceEnds(g)
  BY <1>6, InvSessionExpires, InvGraceEnds
<1>7. CASE CleanupSelect \/ CleanupDelete \/ Restart
  BY <1>7, InvCleanupSelect, InvCleanupDelete, InvRestart
<1>8. CASE \E p \in Reqs : InsertRunUnqueued(p) \/ StatementFails(p)
  BY <1>8, InvInsertRunUnqueued, InvStatementFails
<1> QED
  BY <1>1, <1>2, <1>3, <1>4, <1>5, <1>6, <1>7, <1>8 DEF Next

\* Every state keeps what the proofs below rest on.
THEOREM GuestTripInvariant == Spec => []IInv
  BY InvInit, InvStep, PTL DEF Spec

\* Steps that remove nobody and move no trip away from the account.
LEMMA OtherSteps ==
    ASSUME IInv, [Next]_vars, ~CleanupDelete, \A p \in Reqs : ~ClaimUser(p)
    PROVE  /\ \A g \in Guests : user'[g] = "swept" => user[g] = "swept"
           /\ \A t \in Trips : owner[t] = Account => owner'[t] = Account
           /\ \A r \in Runs : Kept(r) => run'[r].st # "deleted"
<1>0. Typed
  BY DEF IInv
<1>1. \A g \in Guests : user'[g] = "swept" => user[g] = "swept"
  <2>1. CASE UNCHANGED user
    BY <2>1
  <2>2. CASE user' # user
    <3>1. \/ \E p \in Reqs : EnsureNewUser(p)
          \/ \E g \in Guests : GraceEnds(g)
      BY <2>2 DEF Next, vars, NewRequest, RequestStep, CreateWithSession, ClaimLoad,
         LoadForRun, EnsureNewSession, InsertTrip, SetSessionTrip, Reply, CheckRun, InsertRun,
         CountRun, ClaimTrips, ClaimRuns, ClaimSession, ClaimReply, BuildEnds, LockExpires,
         SessionExpires, CleanupSelect, Restart, InsertRunUnqueued, StatementFails
    <3> QED
      BY <1>0, <3>1 DEF EnsureNewUser, GraceEnds, Typed
  <2> QED
    BY <2>1, <2>2
<1>2. \A t \in Trips : owner[t] = Account => owner'[t] = Account
  <2>1. CASE UNCHANGED owner
    BY <2>1
  <2>2. CASE owner' # owner
    <3>1. \E p \in Reqs : InsertTrip(p) \/ ClaimTrips(p)
      BY <2>2 DEF Next, vars, NewRequest, RequestStep, CreateWithSession, ClaimLoad,
         LoadForRun, EnsureNewUser, EnsureNewSession, SetSessionTrip, Reply, CheckRun,
         InsertRun, CountRun, ClaimRuns, ClaimSession, ClaimReply, BuildEnds, LockExpires,
         SessionExpires, GraceEnds, CleanupSelect, Restart, InsertRunUnqueued, StatementFails
    <3>2. CASE \E p \in Reqs : InsertTrip(p)
      BY <1>0, <2>2, <3>2, GuestTripAssumption DEF InsertTrip, NextId, Typed
    <3>3. CASE \E p \in Reqs : ClaimTrips(p)
      BY <3>3 DEF ClaimTrips
    <3> QED
      BY <3>1, <3>2, <3>3
  <2> QED
    BY <2>1, <2>2
<1>3. \A r \in Runs : Kept(r) => run'[r].st # "deleted"
  <2>1. CASE UNCHANGED run
    BY <2>1 DEF Kept
  <2>2. CASE run' # run
    <3>1. \/ \E p \in Reqs : InsertRun(p) \/ InsertRunUnqueued(p) \/ ClaimRuns(p)
          \/ \E r \in Runs : BuildEnds(r)
      BY <2>2 DEF Next, vars, NewRequest, RequestStep, CreateWithSession, ClaimLoad,
         LoadForRun, EnsureNewUser, EnsureNewSession, InsertTrip, SetSessionTrip, Reply,
         CheckRun, CountRun, ClaimTrips, ClaimSession, ClaimReply, LockExpires,
         SessionExpires, GraceEnds, CleanupSelect, Restart, StatementFails
    <3>2. CASE \E p \in Reqs : InsertRun(p) \/ InsertRunUnqueued(p)
      BY <1>0, <2>2, <3>2 DEF InsertRun, InsertRunUnqueued, NextId, Typed, Kept
    <3>3. CASE \E p \in Reqs : ClaimRuns(p)
      BY <1>0, <3>3 DEF ClaimRuns, Typed, RunType, Kept
    <3>4. CASE \E r \in Runs : BuildEnds(r)
      BY <1>0, <3>4 DEF BuildEnds, Typed, RunType, Kept
    <3> QED
      BY <3>1, <3>2, <3>3, <3>4
  <2> QED
    BY <2>1, <2>2
<1> QED
  BY <1>1, <1>2, <1>3

LEMMA SparesStep ==
    ASSUME IInv, [Next]_vars, NEW g \in Guests, user[g] \in Present, user'[g] = "swept"
    PROVE  /\ ~Live(g)
           /\ \A p \in Reqs : ~(req[p].g = g /\ req[p].pc = "insertSession")
<1>0. Typed /\ user[g] # "swept"
  BY DEF IInv, Present
<1>1. ASSUME NEW p \in Reqs, ClaimUser(p) PROVE FALSE
  <2>1. req[p].g \in Guests /\ DeleteUsers({req[p].g}, "claimed")
    BY <1>0, <1>1 DEF ClaimUser, Typed, Ready
  <2>2. user'[g] \in {"claimed", user[g]}
    BY <2>1 DEF DeleteUsers
  <2> QED
    BY <1>0, <2>2
<1>2. CleanupDelete
  BY <1>0, <1>1, OtherSteps
<1>3. g \in sweep
  BY <1>0, <1>2 DEF CleanupDelete, DeleteUsers
<1> QED
  BY <1>3 DEF IInv, SweepInv, Inserts, Live

\* The cleanup removes no guest with a live session, and none whose session a request is
\* about to insert, for any number of guests and requests.
THEOREM CleanupAlwaysSparesLive == Spec => CleanupSparesLive
<1>1. IInv /\ [Next]_vars =>
        [ \A g \in Guests : user[g] \in Present /\ user'[g] = "swept" =>
            /\ ~Live(g)
            /\ \A p \in Reqs : ~(req[p].g = g /\ req[p].pc = "insertSession") ]_vars
  BY SparesStep
<1> QED
  BY <1>1, GuestTripInvariant, PTL DEF Spec, CleanupSparesLive

ClaimedStep ==
    /\ \A t \in Trips : owner[t] = Account => owner'[t] = Account
    /\ \A r \in Runs :
         run[r].st \in {"active", "done"} /\ owner[run[r].trip] = Account =>
           \/ run'[r].st # "deleted"
           \/ run[r].late
           \/ run[r].user \in cut \union HalfClaimed(Reqs)

LEMMA ClaimedStaysStep ==
    ASSUME IInv, [Next]_vars
    PROVE  ClaimedStep
<1>0. Typed
  BY DEF IInv
<1>1. CASE CleanupDelete \/ \E p \in Reqs : ClaimUser(p)
  <2>1. \E G \in SUBSET Guests, mark \in Marks : DeleteUsers(G, mark)
    <3>1. CASE CleanupDelete
      BY <1>0, <3>1 DEF Typed, CleanupDelete, Marks
    <3>2. CASE \E p \in Reqs : ClaimUser(p)
      BY <1>0, <3>2 DEF Typed, Ready, ClaimUser, Marks
    <3> QED
      BY <1>1, <3>1, <3>2
  <2>2. PICK G \in SUBSET Guests, mark \in Marks : DeleteUsers(G, mark)
    BY <2>1
  <2>3. \A t \in Trips : owner'[t] = Account <=> owner[t] = Account
    BY <1>0, <2>2, Deletes
  <2>4. \A r \in Runs : Kept(r) /\ owner[run[r].trip] = Account /\ ~Kept(r)' =>
          run[r].user \in G
    BY <1>0, <2>2, Deletes
  <2>5. ASSUME NEW r \in Runs, Kept(r), owner[run[r].trip] = Account, run'[r].st = "deleted",
               ~run[r].late
        PROVE  run[r].user \in cut \union HalfClaimed(Reqs)
    <3>1. run[r].user \in G
      BY <2>4, <2>5 DEF Kept
    <3>2. Exposed(r)
      BY <2>5, <3>1, GuestTripAssumption DEF Exposed
    <3>3. Half(run[r].user)
      BY <3>2 DEF IInv, LateInv
    <3> QED
      BY <3>3 DEF Half, HalfClaimed
  <2> QED
    BY <2>3, <2>5 DEF ClaimedStep, Kept
<1>2. CASE ~CleanupDelete /\ \A p \in Reqs : ~ClaimUser(p)
  BY <1>2, OtherSteps DEF ClaimedStep, Kept
<1> QED
  BY <1>1, <1>2

\* What an account has claimed stays with it: a trip for good, and a build of it unless it
\* was started late, or a claim of its guest is between the trips and the builds, or ended
\* there.
THEOREM ClaimedAlwaysStays == Spec => ClaimedStays
<1>1. IInv /\ [Next]_vars => [ClaimedStep]_vars
  BY ClaimedStaysStep
<1>2. Spec => [][ClaimedStep]_vars
  BY <1>1, GuestTripInvariant, PTL DEF Spec
<1> QED
  BY <1>2 DEF ClaimedStays, ClaimedStep

-----------------------------------------------------------------------------
(* Counting the builds *)

Used(g, c) == IF c = "full" THEN sess[g].full ELSE sess[g].partial
Limit(c) == IF c = "full" THEN FullLimit ELSE PartialLimit

\* Requests that passed the limit and may yet start a build, and those that started one
\* and have not counted it.
AheadSteps == {"insertSession", "insertTrip", "setTrip", "start", "insertRun"}
Ahead(g, c) == {p \in Reqs : req[p].pc \in AheadSteps /\ req[p].g = g /\ req[p].scope = c}
Counting(g, c) == {p \in Reqs : req[p].pc = "count" /\ req[p].g = g /\ req[p].scope = c}

\* A guest that has no session yet is known to one request only, and has no build.
Fresh(g) == user[g] = "none" \/ \E p \in Reqs : Inserts(p, g)
FreshInv ==
    \A g \in Guests : Fresh(g) =>
      /\ cookie # g
      /\ \A r \in Runs : run[r].st # "unborn" => run[r].by # g
      /\ \A q \in Reqs : req[q].pc # "idle" /\ req[q].g = g => Inserts(q, g)

CountedFor(g, c) ==
    /\ Used(g, c) + Cardinality(Counting(g, c)) <= Cardinality(StartedBy(g, c))
    /\ crashes = 0 /\ sess[g].st # "none" =>
         Cardinality(StartedBy(g, c)) <= Used(g, c) + Cardinality(Counting(g, c))
    /\ crashes = 0 =>
         Cardinality(StartedBy(g, c)) + Cardinality(Ahead(g, c)) < Limit(c) + Cardinality(Reqs)

CountInv == crashes \in 0..MaxCrashes /\ \A g \in Guests, c \in Scopes : CountedFor(g, c)

LEMMA CountTypes ==
    ASSUME Typed, NEW g \in Guests, NEW c \in Scopes
    PROVE  /\ IsFiniteSet(Ahead(g, c)) /\ Cardinality(Ahead(g, c)) \in Nat
           /\ IsFiniteSet(Counting(g, c)) /\ Cardinality(Counting(g, c)) \in Nat
           /\ IsFiniteSet(StartedBy(g, c)) /\ Cardinality(StartedBy(g, c)) \in Nat
           /\ Used(g, c) \in Nat /\ Limit(c) \in Nat \ {0} /\ Cardinality(Reqs) \in Nat
<1>1. /\ Ahead(g, c) \in SUBSET Reqs /\ Counting(g, c) \in SUBSET Reqs
      /\ StartedBy(g, c) \in SUBSET Runs
  BY DEF Ahead, Counting, StartedBy
<1>2. IsFiniteSet(Reqs) /\ IsFiniteSet(Runs)
  BY GuestTripAssumption
<1>3. IsFiniteSet(Ahead(g, c)) /\ IsFiniteSet(Counting(g, c)) /\ IsFiniteSet(StartedBy(g, c))
  BY <1>1, <1>2, FS_Subset
<1>4. Used(g, c) \in Nat
  BY SessRead DEF Used, Typed
<1>5. Limit(c) \in Nat \ {0}
  BY GuestTripAssumption DEF Limit
<1> QED
  BY <1>2, <1>3, <1>4, <1>5, FS_CardinalityType

LEMMA CountTypesNext ==
    ASSUME Typed', NEW g \in Guests, NEW c \in Scopes
    PROVE  /\ IsFiniteSet(Ahead(g, c)') /\ Cardinality(Ahead(g, c)') \in Nat
           /\ IsFiniteSet(Counting(g, c)') /\ Cardinality(Counting(g, c)') \in Nat
           /\ IsFiniteSet(StartedBy(g, c)') /\ Cardinality(StartedBy(g, c)') \in Nat
           /\ Used(g, c)' \in Nat
<1>1. /\ Ahead(g, c)' \in SUBSET Reqs /\ Counting(g, c)' \in SUBSET Reqs
      /\ StartedBy(g, c)' \in SUBSET Runs
  BY DEF Ahead, Counting, StartedBy
<1>2. IsFiniteSet(Reqs) /\ IsFiniteSet(Runs)
  BY GuestTripAssumption
<1>3. IsFiniteSet(Ahead(g, c)') /\ IsFiniteSet(Counting(g, c)') /\ IsFiniteSet(StartedBy(g, c)')
  BY <1>1, <1>2, FS_Subset
<1>4. Used(g, c)' \in Nat
  BY SessRead DEF Used, Typed
<1> QED
  BY <1>3, <1>4, FS_CardinalityType

\* A request that is neither ahead nor counting leaves room for one.
LEMMA RoomForOne ==
    ASSUME Typed, NEW g \in Guests, NEW c \in Scopes, NEW p \in Reqs,
           p \notin Ahead(g, c), p \notin Counting(g, c)
    PROVE  Cardinality(Ahead(g, c)) + Cardinality(Counting(g, c)) + 1 <= Cardinality(Reqs)
<1> DEFINE both == Ahead(g, c) \union Counting(g, c)
<1>1. Ahead(g, c) \cap Counting(g, c) = {}
  BY DEF Ahead, Counting, AheadSteps
<1>2. IsFiniteSet(both)
      /\ Cardinality(both) = Cardinality(Ahead(g, c)) + Cardinality(Counting(g, c))
  <2>1. Cardinality(Ahead(g, c) \cap Counting(g, c)) = 0
    BY <1>1, FS_EmptySet
  <2>2. /\ IsFiniteSet(both)
        /\ Cardinality(both) = Cardinality(Ahead(g, c)) + Cardinality(Counting(g, c))
                               - Cardinality(Ahead(g, c) \cap Counting(g, c))
    BY CountTypes, FS_Union
  <2> QED
    BY <2>1, <2>2, CountTypes
<1>3. IsFiniteSet(both \union {p}) /\ Cardinality(both \union {p}) = Cardinality(both) + 1
  BY <1>2, FS_AddElement
<1>4. both \union {p} \in SUBSET Reqs
  BY DEF Ahead, Counting
<1>5. Cardinality(both \union {p}) <= Cardinality(Reqs)
  BY <1>4, FS_Subset, GuestTripAssumption
<1> QED
  BY <1>2, <1>3, <1>5, CountTypes

\* Nothing starts, and nothing is counted.
Calm(g, c) ==
    /\ crashes = 0
    /\ Ahead(g, c)' \subseteq Ahead(g, c)
    /\ Counting(g, c)' = Counting(g, c)
    /\ sess'[g].st # "none" => sess[g].st # "none" /\ Used(g, c)' = Used(g, c)

LEMMA CountKeeps ==
    ASSUME Typed, Typed', NEW g \in Guests, NEW c \in Scopes, CountedFor(g, c),
           StartedBy(g, c)' = StartedBy(g, c), Counting(g, c)' \subseteq Counting(g, c),
           Used(g, c)' <= Used(g, c),
           crashes' # 0 \/ Calm(g, c)
    PROVE  CountedFor(g, c)'
<1>1. Cardinality(Counting(g, c)') <= Cardinality(Counting(g, c))
  BY CountTypes, FS_Subset
<1>2. crashes' # 0 \/ Cardinality(Ahead(g, c)') <= Cardinality(Ahead(g, c))
  BY CountTypes, FS_Subset DEF Calm
<1>3. /\ Cardinality(Counting(g, c)) \in Nat /\ Cardinality(Counting(g, c)') \in Nat
      /\ Cardinality(Ahead(g, c)) \in Nat /\ Cardinality(Ahead(g, c)') \in Nat
      /\ Cardinality(StartedBy(g, c)) \in Nat /\ Used(g, c) \in Nat /\ Used(g, c)' \in Nat
      /\ Limit(c) \in Nat /\ Cardinality(Reqs) \in Nat
  BY CountTypes, CountTypesNext
<1>4. PICK a, a2, n, n2, b, u, u2 :
        /\ a = Cardinality(Ahead(g, c)) /\ a2 = Cardinality(Ahead(g, c)')
        /\ n = Cardinality(Counting(g, c)) /\ n2 = Cardinality(Counting(g, c)')
        /\ b = Cardinality(StartedBy(g, c)) /\ u = Used(g, c) /\ u2 = Used(g, c)'
  OBVIOUS
<1>5. Cardinality(StartedBy(g, c)') = b
  BY <1>4
<1>6. u + n <= b /\ u2 + n2 <= b
  BY <1>1, <1>3, <1>4 DEF CountedFor
<1>7. crashes' = 0 /\ sess'[g].st # "none" => b <= u2 + n2
  BY <1>3, <1>4 DEF CountedFor, Calm
<1>8. crashes' = 0 => b + a2 < Limit(c) + Cardinality(Reqs)
  BY <1>2, <1>3, <1>4 DEF CountedFor, Calm
<1> QED
  BY <1>4, <1>5, <1>6, <1>7, <1>8 DEF CountedFor, Limit

\* What a step does to its request, and to no other.
Others(p) == \A q \in Reqs : q # p => req'[q] = req[q]
CalmRequest(p) ==
    /\ Others(p)
    /\ req[p].pc # "count" /\ req'[p].pc # "count"
    /\ req'[p].pc \in AheadSteps =>
         req[p].pc \in AheadSteps /\ req'[p].g = req[p].g /\ req'[p].scope = req[p].scope

LEMMA ToFields ==
    ASSUME Typed, NEW p \in Reqs, NEW s, To(p, s)
    PROVE  /\ Others(p) /\ req'[p].pc = s /\ req'[p].g = req[p].g
           /\ req'[p].scope = req[p].scope
<1>1. req[p] \in ReqType
  BY DEF Typed
<1>2. PICK x : x = [req[p] EXCEPT !.pc = s]
  OBVIOUS
<1>3. x.pc = s /\ x.g = req[p].g /\ x.scope = req[p].scope
  BY <1>1, <1>2 DEF ReqType
<1>4. req' = [req EXCEPT ![p] = x]
  BY <1>2 DEF To
<1> QED
  BY <1>3, <1>4 DEF Typed, Others

LEMMA AnswerFields ==
    ASSUME Typed, NEW p \in Reqs, Answer(p)
    PROVE  Others(p) /\ req'[p].pc \in {"idle", "reply"} /\ (req'[p].pc # "idle" => req'[p].g = req[p].g)
<1>1. CASE To(p, "reply")
  BY <1>1, ToFields
<1>2. CASE Finish(p)
  BY <1>2, IdleType DEF Finish, Typed, Others
<1> QED
  BY <1>1, <1>2 DEF Answer

LEMMA FinishFields ==
    ASSUME Typed, NEW p \in Reqs, Finish(p)
    PROVE  Others(p) /\ req'[p].pc = "idle"
  BY IdleType DEF Finish, Typed, Others

\* The request steps that neither begin a build nor count one, nor let a request begin.
Goes(p) ==
    \/ EnsureNewSession(p) \/ InsertTrip(p) \/ SetSessionTrip(p) \/ Reply(p) \/ CheckRun(p)
    \/ ClaimTrips(p) \/ ClaimRuns(p) \/ ClaimSession(p) \/ ClaimUser(p) \/ ClaimReply(p)
    \/ InsertRun(p) /\ Finish(p)

\* What ends a request when a statement throws or the worker cannot be told.
Breaks(p) == InsertRunUnqueued(p) \/ StatementFails(p)

LEMMA GoesCalmly ==
    ASSUME Typed, NEW p \in Reqs, Goes(p)
    PROVE  /\ CalmRequest(p) /\ req[p].pc # "idle" /\ req'[p].pc # "insertSession"
           /\ req'[p].pc # "idle" => req'[p].g = req[p].g
<1>1. CASE Finish(p)
  <2>1. req[p].pc \notin {"idle", "count"}
    BY DEF Goes, EnsureNewSession, InsertTrip, SetSessionTrip, Reply, CheckRun, ClaimTrips,
           ClaimRuns, ClaimSession, ClaimUser, ClaimReply, InsertRun
  <2> QED
    BY <1>1, <2>1, FinishFields DEF CalmRequest, AheadSteps
<1>2. CASE EnsureNewSession(p) /\ ~Finish(p)
  <2>1. req[p].pc = "insertSession" /\ (To(p, "insertTrip") \/ Answer(p))
    BY <1>2 DEF EnsureNewSession
  <2> QED
    BY <2>1, ToFields, AnswerFields DEF CalmRequest, AheadSteps
<1>3. CASE InsertTrip(p) /\ ~Finish(p)
  <2>1. PICK t \in Trips : req' = [req EXCEPT ![p].pc = "setTrip", ![p].trip = t]
    BY <1>3 DEF InsertTrip
  <2>2. PICK x : x = [req[p] EXCEPT !.pc = "setTrip"]
    OBVIOUS
  <2>3. PICK y : y = [x EXCEPT !.trip = t]
    OBVIOUS
  <2>4. req[p] \in ReqType /\ req[p].pc = "insertTrip"
    BY <1>3 DEF Typed, InsertTrip
  <2>5. y.pc = "setTrip" /\ y.g = req[p].g /\ y.scope = req[p].scope
    BY <2>2, <2>3, <2>4 DEF ReqType
  <2>6. req' = [req EXCEPT ![p] = y]
    BY <2>1, <2>2, <2>3
  <2>7. req'[p] = y /\ Others(p)
    BY <2>6 DEF Typed, Others
  <2> QED
    BY <2>4, <2>5, <2>7 DEF CalmRequest, AheadSteps
<1>4. CASE SetSessionTrip(p) /\ ~Finish(p)
  <2>1. req[p].pc = "setTrip" /\ (To(p, "start") \/ Answer(p))
    BY <1>4 DEF SetSessionTrip
  <2> QED
    BY <2>1, ToFields, AnswerFields DEF CalmRequest, AheadSteps
<1>5. CASE CheckRun(p)
  <2>1. CASE Answer(p)
    BY <1>5, <2>1, AnswerFields DEF CheckRun, CalmRequest, AheadSteps
  <2>2. CASE ~Answer(p)
    <3>1. PICK u : req' = [req EXCEPT ![p].pc = "insertRun", ![p].own = u]
      BY <1>5, <2>2 DEF CheckRun
    <3>2. PICK x : x = [req[p] EXCEPT !.pc = "insertRun"]
      OBVIOUS
    <3>3. PICK y : y = [x EXCEPT !.own = u]
      OBVIOUS
    <3>4. req[p] \in ReqType /\ req[p].pc = "start"
      BY <1>5 DEF Typed, CheckRun
    <3>5. y.pc = "insertRun" /\ y.g = req[p].g /\ y.scope = req[p].scope
      BY <3>2, <3>3, <3>4 DEF ReqType
    <3>6. req' = [req EXCEPT ![p] = y]
      BY <3>1, <3>2, <3>3
    <3>7. req'[p] = y /\ Others(p)
      BY <3>6 DEF Typed, Others
    <3> QED
      BY <3>4, <3>5, <3>7 DEF CalmRequest, AheadSteps
  <2> QED
    BY <2>1, <2>2
<1>6. CASE ClaimTrips(p) \/ ClaimRuns(p) \/ ClaimSession(p) \/ ClaimUser(p)
  <2>1. PICK s \in {"claimRuns", "claimSession", "claimUser", "claimReply"} : To(p, s)
    BY <1>6 DEF ClaimTrips, ClaimRuns, ClaimSession, ClaimUser
  <2>2. req[p].pc \in ClaimSteps
    BY <1>6 DEF ClaimTrips, ClaimRuns, ClaimSession, ClaimUser, ClaimSteps
  <2> QED
    BY <2>1, <2>2, ToFields DEF CalmRequest, AheadSteps, ClaimSteps
<1> QED
  BY <1>1, <1>2, <1>3, <1>4, <1>5, <1>6 DEF Goes, Reply, ClaimReply

LEMMA CalmSets ==
    ASSUME Typed, NEW p \in Reqs, CalmRequest(p), NEW g, NEW c
    PROVE  Ahead(g, c)' \subseteq Ahead(g, c) /\ Counting(g, c)' = Counting(g, c)
<1>1. Ahead(g, c)' \subseteq Ahead(g, c)
  <2> SUFFICES ASSUME NEW q \in Reqs, req'[q].pc \in AheadSteps, req'[q].g = g, req'[q].scope = c
               PROVE  q \in Ahead(g, c)
    BY DEF Ahead
  <2>1. CASE q = p
    BY <2>1 DEF Ahead, CalmRequest
  <2>2. CASE q # p
    BY <2>2 DEF Ahead, CalmRequest, Others
  <2> QED
    BY <2>1, <2>2
<1>2. \A q \in Reqs : q \in Counting(g, c)' <=> q \in Counting(g, c)
  <2> TAKE q \in Reqs
  <2>1. CASE q = p
    BY <2>1 DEF Counting, CalmRequest
  <2>2. CASE q # p
    <3>1. req'[q] = req[q]
      BY <2>2 DEF CalmRequest, Others
    <3> QED
      BY <3>1 DEF Counting
  <2> QED
    BY <2>1, <2>2
<1>3. Counting(g, c)' \subseteq Reqs /\ Counting(g, c) \subseteq Reqs
  BY DEF Counting
<1> QED
  BY <1>1, <1>2, <1>3

\* Builds keep who started them; sessions keep their counts or go.
SameBuilds ==
    \A r \in Runs : /\ run'[r].by = run[r].by /\ run'[r].scope = run[r].scope
                    /\ run'[r].st = "unborn" <=> run[r].st = "unborn"
SameCounts(g) ==
    \/ /\ sess'[g].full = sess[g].full /\ sess'[g].partial = sess[g].partial
       /\ sess'[g].st # "none" => sess[g].st # "none"
    \/ sess'[g] = NoSession

LEMMA CountCalm ==
    ASSUME Typed, Typed', CountInv, crashes' = crashes, SameBuilds,
           \A g \in Guests : SameCounts(g),
           \A g \in Guests, c \in Scopes :
             Ahead(g, c)' \subseteq Ahead(g, c) /\ Counting(g, c)' = Counting(g, c)
    PROVE  CountInv'
<1> SUFFICES ASSUME NEW g \in Guests, NEW c \in Scopes
             PROVE  CountedFor(g, c)'
  BY DEF CountInv
<1>1. StartedBy(g, c)' = StartedBy(g, c)
  BY DEF StartedBy, SameBuilds
<1>2. CountedFor(g, c)
  BY DEF CountInv
<1>3. Used(g, c) \in Nat
  BY CountTypes
<1>4. /\ Used(g, c)' <= Used(g, c)
      /\ sess'[g].st # "none" => sess[g].st # "none" /\ Used(g, c)' = Used(g, c)
  BY <1>3 DEF Used, SameCounts, NoSession
<1>5. crashes' # 0 \/ Calm(g, c)
  BY <1>4 DEF Calm
<1> QED
  BY <1>1, <1>2, <1>4, <1>5, CountKeeps

LEMMA DeletesCalmly ==
    ASSUME Typed, NEW G, NEW mark, DeleteUsers(G, mark)
    PROVE  SameBuilds /\ \A g \in Guests : SameCounts(g)
<1>1. /\ sess' = [g \in Guests |-> IF g \in {h \in G : user[h] \in Present} THEN NoSession ELSE sess[g]]
      /\ \A r \in Runs : run'[r] \in {run[r], [run[r] EXCEPT !.st = "deleted"]}
      /\ \A r \in Runs : run[r].st = "unborn" => run'[r] = run[r]
  BY DEF DeleteUsers
<1>2. \A g \in Guests : SameCounts(g)
  BY <1>1 DEF SameCounts
<1>3. ASSUME NEW r \in Runs
      PROVE  /\ run'[r].by = run[r].by /\ run'[r].scope = run[r].scope
             /\ run'[r].st = "unborn" <=> run[r].st = "unborn"
  <2>1. run[r] \in RunType
    BY DEF Typed
  <2>2. PICK x : x = [run[r] EXCEPT !.st = "deleted"]
    OBVIOUS
  <2>3. x.by = run[r].by /\ x.scope = run[r].scope /\ x.st = "deleted"
    BY <2>1, <2>2 DEF RunType
  <2>4. run'[r] = run[r] \/ run'[r] = x
    BY <1>1, <2>2
  <2> QED
    BY <1>1, <2>3, <2>4
<1> QED
  BY <1>2, <1>3 DEF SameBuilds

\* Rows of the calm request steps; a guest whose session is inserted has no build.
LEMMA CountGoes ==
    ASSUME IInv, Typed', CountInv, FreshInv, NEW p \in Reqs, Goes(p)
    PROVE  CountInv'
<1>0. Typed /\ crashes' = crashes
  BY DEF IInv, Goes, EnsureNewSession, InsertTrip, SetSessionTrip, Reply, CheckRun, ClaimTrips,
         ClaimRuns, ClaimSession, ClaimUser, ClaimReply, InsertRun
<1>1. \A g \in Guests, c \in Scopes :
        Ahead(g, c)' \subseteq Ahead(g, c) /\ Counting(g, c)' = Counting(g, c)
  BY <1>0, GoesCalmly, CalmSets
<1>2. CASE EnsureNewSession(p) /\ sess' # sess
  <2>1. PICK h \in Guests : h = req[p].g
    BY <1>0, <1>2 DEF EnsureNewSession, Typed, Ready
  <2>2. /\ sess' = [sess EXCEPT ![h] = [NoSession EXCEPT !.st = "live"]]
        /\ run' = run /\ Inserts(p, h)
    BY <1>2, <2>1 DEF EnsureNewSession, Inserts
  <2>3. SameBuilds
    BY <2>2 DEF SameBuilds
  <2>4. ASSUME NEW g \in Guests, NEW c \in Scopes PROVE CountedFor(g, c)'
    <3>1. StartedBy(g, c)' = StartedBy(g, c) /\ CountedFor(g, c)
      BY <2>3 DEF StartedBy, SameBuilds, CountInv
    <3>2. CASE g # h
      <4>1. sess'[g] = sess[g]
        BY <1>0, <2>2, <3>2 DEF Typed
      <4>2. Used(g, c)' = Used(g, c) /\ Used(g, c) <= Used(g, c)
        BY <1>0, <4>1, CountTypes DEF Used
      <4>3. crashes' # 0 \/ Calm(g, c)
        BY <1>0, <1>1, <4>1, <4>2 DEF Calm
      <4> QED
        BY <1>0, <1>1, <3>1, <4>2, <4>3, CountKeeps
    <3>3. CASE g = h
      <4>1. StartedBy(g, c) = {} /\ Counting(g, c) = {}
        BY <2>2, <3>3 DEF FreshInv, Fresh, StartedBy, Counting, Inserts
      <4>2. Cardinality(StartedBy(g, c)') = 0 /\ Cardinality(Counting(g, c)') = 0
        BY <1>1, <3>1, <4>1, FS_EmptySet
      <4>3. Used(g, c)' = 0
        <5>1. PICK y : y = [NoSession EXCEPT !.st = "live"]
          OBVIOUS
        <5>2. y.full = 0 /\ y.partial = 0
          BY <5>1 DEF NoSession
        <5>3. sess'[g] = y
          BY <1>0, <2>2, <3>3, <5>1 DEF Typed
        <5> QED
          BY <5>2, <5>3 DEF Used
      <4>4. Cardinality(Ahead(g, c)') <= Cardinality(Ahead(g, c))
        BY <1>0, <1>1, CountTypes, FS_Subset
      <4>5. /\ Cardinality(Ahead(g, c)') \in Nat /\ Cardinality(Ahead(g, c)) \in Nat
            /\ Limit(c) \in Nat /\ Cardinality(Reqs) \in Nat
        BY <1>0, CountTypes, CountTypesNext
      <4>6. crashes = 0 => Cardinality(StartedBy(g, c)) + Cardinality(Ahead(g, c))
                             < Limit(c) + Cardinality(Reqs)
        BY <3>1 DEF CountedFor
      <4>7. Cardinality(StartedBy(g, c)) = 0
        BY <4>1, FS_EmptySet
      <4>8. crashes' = 0 => Cardinality(Ahead(g, c)') < Limit(c) + Cardinality(Reqs)
        BY <1>0, <4>4, <4>5, <4>6, <4>7
      <4>9. Limit(c)' = Limit(c) /\ Cardinality(Reqs)' = Cardinality(Reqs)
        BY DEF Limit
      <4> QED
        BY <4>2, <4>3, <4>5, <4>8, <4>9 DEF CountedFor
    <3> QED
      BY <3>2, <3>3
  <2> QED
    BY <1>0, <2>4 DEF CountInv
<1>3. CASE ~(EnsureNewSession(p) /\ sess' # sess)
  <2>1. SameBuilds
    <3>1. CASE ClaimUser(p)
      BY <1>0, <3>1, DeletesCalmly DEF ClaimUser
    <3>2. CASE ClaimRuns(p)
      <4> SUFFICES ASSUME NEW r \in Runs
                   PROVE  /\ run'[r].by = run[r].by /\ run'[r].scope = run[r].scope
                          /\ run'[r].st = "unborn" <=> run[r].st = "unborn"
        BY DEF SameBuilds
      <4>1. PICK x : x = [run[r] EXCEPT !.user = Account]
        OBVIOUS
      <4>2. x.by = run[r].by /\ x.scope = run[r].scope /\ x.st = run[r].st
        BY <1>0, <4>1 DEF Typed, RunType
      <4>3. run'[r] = run[r] \/ run'[r] = x
        BY <3>2, <4>1 DEF ClaimRuns
      <4> QED
        BY <4>2, <4>3
    <3>3. CASE ~ClaimUser(p) /\ ~ClaimRuns(p)
      <4>1. CASE InsertRun(p) /\ Finish(p)
        <5>1. ~To(p, "count")
          BY <1>0, <4>1, FinishFields, ToFields
        <5>2. run' = run
          BY <4>1, <5>1 DEF InsertRun
        <5> QED
          BY <5>2 DEF SameBuilds
      <4>2. CASE ~(InsertRun(p) /\ Finish(p))
        <5>1. run' = run
          BY <3>3, <4>2 DEF Goes, EnsureNewSession, InsertTrip, SetSessionTrip, Reply, CheckRun,
             ClaimTrips, ClaimSession, ClaimReply
        <5> QED
          BY <5>1 DEF SameBuilds
      <4> QED
        BY <4>1, <4>2
    <3> QED
      BY <3>1, <3>2, <3>3
  <2>2. \A g \in Guests : SameCounts(g)
    <3>1. CASE ClaimUser(p)
      BY <1>0, <3>1, DeletesCalmly DEF ClaimUser
    <3>2. CASE ClaimSession(p)
      BY <1>0, <3>2 DEF ClaimSession, Typed, SameCounts
    <3>3. CASE SetSessionTrip(p) /\ sess' # sess
      <4>1. PICK h \in Guests : h = req[p].g
        BY <1>0, <3>3 DEF SetSessionTrip, Typed, Ready
      <4>2. PICK y : y = [sess[h] EXCEPT !.trip = IF sess[h].st = "none" THEN @ ELSE req[p].trip]
        OBVIOUS
      <4>3. y.full = sess[h].full /\ y.partial = sess[h].partial /\ y.st = sess[h].st
        BY <1>0, <4>2 DEF Typed, SessType
      <4>4. sess' = [sess EXCEPT ![h] = y]
        BY <3>3, <4>1, <4>2 DEF SetSessionTrip
      <4> QED
        BY <1>0, <4>3, <4>4 DEF Typed, SameCounts
    <3>4. CASE sess' = sess
      BY <3>4 DEF SameCounts
    <3> QED
      BY <1>3, <3>1, <3>2, <3>3, <3>4 DEF Goes, EnsureNewSession, InsertTrip, SetSessionTrip,
         Reply, CheckRun, ClaimTrips, ClaimRuns, ClaimReply, InsertRun
  <2> QED
    BY <1>0, <1>1, <2>1, <2>2, CountCalm
<1> QED
  BY <1>2, <1>3

\* Where the request of a step goes in the two sets.
LEMMA SetsMove ==
    ASSUME NEW p \in Reqs, Others(p), NEW g, NEW c
    PROVE  /\ Ahead(g, c)' \ {p} = Ahead(g, c) \ {p}
           /\ p \in Ahead(g, c)' <=>
                req'[p].pc \in AheadSteps /\ req'[p].g = g /\ req'[p].scope = c
           /\ Counting(g, c)' \ {p} = Counting(g, c) \ {p}
           /\ p \in Counting(g, c)' <=>
                req'[p].pc = "count" /\ req'[p].g = g /\ req'[p].scope = c
<1>1. ASSUME NEW q \in Reqs, q # p
      PROVE  /\ q \in Ahead(g, c)' <=> q \in Ahead(g, c)
             /\ q \in Counting(g, c)' <=> q \in Counting(g, c)
  <2>1. req'[q] = req[q]
    BY <1>1 DEF Others
  <2> QED
    BY <2>1 DEF Ahead, Counting
<1>2. /\ Ahead(g, c)' \subseteq Reqs /\ Ahead(g, c) \subseteq Reqs
      /\ Counting(g, c)' \subseteq Reqs /\ Counting(g, c) \subseteq Reqs
  BY DEF Ahead, Counting
<1>3. /\ p \in Ahead(g, c)' <=>
           req'[p].pc \in AheadSteps /\ req'[p].g = g /\ req'[p].scope = c
      /\ p \in Counting(g, c)' <=>
           req'[p].pc = "count" /\ req'[p].g = g /\ req'[p].scope = c
  BY DEF Ahead, Counting
<1> QED
  BY <1>1, <1>2, <1>3

\* A pair of guest and scope that a step has nothing to do with.
LEMMA CountElsewhere ==
    ASSUME Typed, Typed', CountInv, crashes' = crashes, NEW g \in Guests, NEW c \in Scopes,
           StartedBy(g, c)' = StartedBy(g, c), Ahead(g, c)' = Ahead(g, c),
           Counting(g, c)' = Counting(g, c), sess'[g].st = sess[g].st,
           Used(g, c)' = Used(g, c)
    PROVE  CountedFor(g, c)'
<1>1. CountedFor(g, c) /\ Used(g, c) \in Nat
  BY CountTypes DEF CountInv
<1>2. crashes' # 0 \/ Calm(g, c)
  BY DEF Calm
<1> QED
  BY <1>1, <1>2, CountKeeps

LEMMA CountInsertRun ==
    ASSUME IInv, Typed', CountInv, NEW p \in Reqs, InsertRun(p), ~Finish(p)
    PROVE  CountInv'
<1>0. /\ Typed /\ crashes' = crashes /\ sess' = sess
      /\ req[p].pc = "insertRun" /\ To(p, "count")
  BY DEF IInv, InsertRun
<1>1. PICK r \in Runs :
        /\ run[r].st = "unborn"
        /\ run' = [run EXCEPT ![r] = [st |-> "active", trip |-> req[p].trip,
                     user |-> req[p].own, scope |-> req[p].scope, by |-> req[p].g,
                     late |-> req[p].own # owner[req[p].trip]]]
  BY DEF InsertRun, NextId
<1>2. /\ run'[r].st = "active" /\ run'[r].scope = req[p].scope /\ run'[r].by = req[p].g
      /\ \A q \in Runs : q # r => run'[q] = run[q]
  BY <1>0, <1>1 DEF Typed
<1>3. /\ Others(p) /\ req'[p].pc = "count" /\ req'[p].g = req[p].g
      /\ req'[p].scope = req[p].scope
  BY <1>0, ToFields
<1>4. ASSUME NEW g \in Guests, NEW c \in Scopes PROVE CountedFor(g, c)'
  <2>1. Used(g, c)' = Used(g, c) /\ Limit(c)' = Limit(c) /\ Cardinality(Reqs)' = Cardinality(Reqs)
    BY <1>0 DEF Used, Limit
  <2>2. StartedBy(g, c) \subseteq Runs /\ r \notin StartedBy(g, c) /\ StartedBy(g, c)' \subseteq Runs
    BY <1>1 DEF StartedBy
  <2>3. StartedBy(g, c)' \ {r} = StartedBy(g, c) \ {r}
    BY <1>2 DEF StartedBy
  <2>4. CASE req[p].g = g /\ req[p].scope = c
    <3>1. p \in Ahead(g, c) /\ p \notin Counting(g, c)
      BY <1>0, <2>4 DEF Ahead, Counting, AheadSteps
    <3>2. p \notin Ahead(g, c)' /\ p \in Counting(g, c)'
      BY <1>3, <2>4, SetsMove DEF AheadSteps
    <3>3. Ahead(g, c)' = Ahead(g, c) \ {p} /\ Counting(g, c)' = Counting(g, c) \union {p}
      BY <1>3, <3>1, <3>2, SetsMove
    <3>4. r \in StartedBy(g, c)'
      BY <1>2, <2>4 DEF StartedBy
    <3>5. StartedBy(g, c)' = StartedBy(g, c) \union {r}
      BY <2>2, <2>3, <3>4
    <3>6. /\ Cardinality(Ahead(g, c)') = Cardinality(Ahead(g, c)) - 1
          /\ Cardinality(Counting(g, c)') = Cardinality(Counting(g, c)) + 1
          /\ Cardinality(StartedBy(g, c)') = Cardinality(StartedBy(g, c)) + 1
      <4>1. IsFiniteSet(Ahead(g, c)) /\ IsFiniteSet(Counting(g, c)) /\ IsFiniteSet(StartedBy(g, c))
        BY <1>0, CountTypes
      <4>2. Cardinality(Ahead(g, c) \ {p}) = Cardinality(Ahead(g, c)) - 1
        BY <3>1, <4>1, FS_RemoveElement
      <4>3. Cardinality(Counting(g, c) \union {p}) = Cardinality(Counting(g, c)) + 1
        BY <3>1, <4>1, FS_AddElement
      <4>4. Cardinality(StartedBy(g, c) \union {r}) = Cardinality(StartedBy(g, c)) + 1
        BY <2>2, <4>1, FS_AddElement
      <4> QED
        BY <3>3, <3>5, <4>2, <4>3, <4>4
    <3>7. /\ Cardinality(Ahead(g, c)) \in Nat /\ Cardinality(Counting(g, c)) \in Nat
          /\ Cardinality(StartedBy(g, c)) \in Nat /\ Used(g, c) \in Nat
          /\ Limit(c) \in Nat /\ Cardinality(Reqs) \in Nat
      BY <1>0, CountTypes
    <3>8. CountedFor(g, c)
      BY DEF CountInv
    <3> QED
      BY <1>0, <2>1, <3>6, <3>7, <3>8 DEF CountedFor
  <2>5. CASE ~(req[p].g = g /\ req[p].scope = c)
    <3>1. p \notin Ahead(g, c) /\ p \notin Counting(g, c)
      BY <2>5 DEF Ahead, Counting
    <3>2. p \notin Ahead(g, c)' /\ p \notin Counting(g, c)'
      BY <1>3, <2>5, SetsMove
    <3>3. Ahead(g, c)' = Ahead(g, c) /\ Counting(g, c)' = Counting(g, c)
      BY <1>3, <3>1, <3>2, SetsMove
    <3>4. r \notin StartedBy(g, c)'
      BY <1>2, <2>5 DEF StartedBy
    <3>5. StartedBy(g, c)' = StartedBy(g, c)
      BY <2>2, <2>3, <3>4
    <3> QED
      BY <1>0, <2>1, <3>3, <3>5, CountElsewhere
  <2> QED
    BY <2>4, <2>5
<1> QED
  BY <1>0, <1>4 DEF CountInv

LEMMA CountCountRun ==
    ASSUME IInv, Typed', CountInv, NEW p \in Reqs, CountRun(p)
    PROVE  CountInv'
<1>0. /\ Typed /\ crashes' = crashes /\ run' = run /\ Answer(p)
      /\ req[p].pc = "count" /\ req[p].g \in Guests /\ req[p].scope \in Scopes
  BY DEF IInv, CountRun, Typed, Ready, ReqType
<1>1. PICK h \in Guests, d \in Scopes : h = req[p].g /\ d = req[p].scope
  BY <1>0
<1>2. Others(p) /\ req'[p].pc \notin AheadSteps /\ req'[p].pc # "count"
  BY <1>0, AnswerFields DEF AheadSteps
<1>3. /\ \A g \in Guests : sess'[g].st = sess[g].st
      /\ \A g \in Guests, c \in Scopes :
           Used(g, c)' = IF g = h /\ c = d /\ sess[g].st # "none" THEN Used(g, c) + 1
                         ELSE Used(g, c)
  <2>1. sess[h] \in SessType
    BY <1>0 DEF Typed
  <2>2. PICK n, m :
          /\ n = IF sess[h].st # "none" /\ d = "full" THEN sess[h].full + 1 ELSE sess[h].full
          /\ m = IF sess[h].st # "none" /\ d # "full"
                 THEN sess[h].partial + 1 ELSE sess[h].partial
    OBVIOUS
  <2>3. PICK z : z = [sess[h] EXCEPT !.full = n]
    OBVIOUS
  <2>4. PICK y : y = [z EXCEPT !.partial = m]
    OBVIOUS
  <2>5. y.full = n /\ y.partial = m /\ y.st = sess[h].st /\ z.partial = sess[h].partial
    BY <2>1, <2>3, <2>4 DEF SessType
  <2>6. sess' = [sess EXCEPT
         ![h].full = IF sess[h].st # "none" /\ d = "full" THEN @ + 1 ELSE @,
         ![h].partial = IF sess[h].st # "none" /\ d # "full" THEN @ + 1 ELSE @]
    BY <1>1 DEF CountRun
  <2>7. sess' = [sess EXCEPT ![h] = y]
    BY <1>0, <2>2, <2>3, <2>4, <2>5, <2>6 DEF Typed
  <2>8. sess'[h] = y /\ \A g \in Guests : g # h => sess'[g] = sess[g]
    BY <1>0, <2>7 DEF Typed
  <2>9. \A g \in Guests : sess'[g].st = sess[g].st
    BY <2>5, <2>8
  <2>10. ASSUME NEW g \in Guests, NEW c \in Scopes
         PROVE  Used(g, c)' = IF g = h /\ c = d /\ sess[g].st # "none" THEN Used(g, c) + 1
                              ELSE Used(g, c)
    BY <2>2, <2>5, <2>8 DEF Used, Scopes
  <2> QED
    BY <2>9, <2>10
<1>4. ASSUME NEW g \in Guests, NEW c \in Scopes PROVE CountedFor(g, c)'
  <2>1. StartedBy(g, c)' = StartedBy(g, c)
    BY <1>0 DEF StartedBy
  <2>2. p \notin Ahead(g, c) /\ p \notin Ahead(g, c)' /\ p \notin Counting(g, c)'
    BY <1>0, <1>2, SetsMove DEF Ahead, AheadSteps
  <2>3. Ahead(g, c)' = Ahead(g, c) /\ Counting(g, c)' = Counting(g, c) \ {p}
    BY <1>2, <2>2, SetsMove
  <2>4. CASE g = h /\ c = d
    <3>1. p \in Counting(g, c)
      BY <1>0, <1>1, <2>4 DEF Counting
    <3>2. Cardinality(Counting(g, c)') = Cardinality(Counting(g, c)) - 1
      BY <1>0, <2>3, <3>1, CountTypes, FS_RemoveElement
    <3>3. /\ Cardinality(Ahead(g, c)) \in Nat /\ Cardinality(Counting(g, c)) \in Nat
          /\ Cardinality(StartedBy(g, c)) \in Nat /\ Used(g, c) \in Nat
          /\ Limit(c) \in Nat /\ Cardinality(Reqs) \in Nat
      BY <1>0, CountTypes
    <3>4. CountedFor(g, c) /\ Limit(c)' = Limit(c) /\ Cardinality(Reqs)' = Cardinality(Reqs)
      BY DEF CountInv, Limit
    <3>5. /\ sess'[g].st = sess[g].st
          /\ Used(g, c)' = IF sess[g].st # "none" THEN Used(g, c) + 1 ELSE Used(g, c)
      BY <1>3, <2>4
    <3> QED
      BY <1>0, <2>1, <2>3, <3>2, <3>3, <3>4, <3>5 DEF CountedFor
  <2>5. CASE ~(g = h /\ c = d)
    <3>1. p \notin Counting(g, c)
      BY <1>1, <2>5 DEF Counting
    <3>2. Counting(g, c)' = Counting(g, c) /\ Used(g, c)' = Used(g, c) /\ sess'[g].st = sess[g].st
      BY <1>3, <2>3, <2>5, <3>1
    <3> QED
      BY <1>0, <2>1, <2>3, <3>2, CountElsewhere
  <2> QED
    BY <2>4, <2>5
<1> QED
  BY <1>0, <1>4 DEF CountInv

\* A request begins: there is room for it under the bound.
LEMMA CountEnter ==
    ASSUME Typed, Typed', CountInv, NEW p \in Reqs, req[p].pc = "idle", Others(p),
           UNCHANGED <<run, sess, crashes>>, NEW h \in Guests, NEW d \in Scopes,
           req'[p].pc \in AheadSteps, req'[p].g = h, req'[p].scope = d,
           crashes = 0 => Cardinality(StartedBy(h, d)) + Cardinality(Ahead(h, d)) + 1
                            < Limit(d) + Cardinality(Reqs)
    PROVE  CountInv'
<1>1. ASSUME NEW g \in Guests, NEW c \in Scopes PROVE CountedFor(g, c)'
  <2>1. /\ StartedBy(g, c)' = StartedBy(g, c) /\ Used(g, c)' = Used(g, c)
        /\ Limit(c)' = Limit(c) /\ Cardinality(Reqs)' = Cardinality(Reqs)
    BY DEF StartedBy, Used, Limit
  <2>2. p \notin Ahead(g, c) /\ p \notin Counting(g, c) /\ p \notin Counting(g, c)'
    <3>1. req'[p].pc # "count" /\ req[p].pc \notin AheadSteps /\ req[p].pc # "count"
      BY DEF AheadSteps
    <3>2. p \notin Counting(g, c)'
      BY <3>1, SetsMove
    <3>3. p \notin Ahead(g, c) /\ p \notin Counting(g, c)
      BY <3>1 DEF Ahead, Counting
    <3> QED
      BY <3>2, <3>3
  <2>3. Counting(g, c)' = Counting(g, c)
    <3>1. Counting(g, c)' \ {p} = Counting(g, c) \ {p}
      BY SetsMove
    <3> QED
      BY <2>2, <3>1
  <2>4. CASE g = h /\ c = d
    <3>1. p \in Ahead(g, c)'
      BY <2>4, SetsMove
    <3>2. Ahead(g, c)' = Ahead(g, c) \union {p}
      BY <2>2, <3>1, SetsMove
    <3>3. Cardinality(Ahead(g, c) \union {p}) = Cardinality(Ahead(g, c)) + 1
      BY <2>2, CountTypes, FS_AddElement
    <3>4. CountedFor(g, c)
      BY DEF CountInv
    <3>5. crashes = 0 => Cardinality(StartedBy(g, c)') + Cardinality(Ahead(g, c)')
                           < Limit(c) + Cardinality(Reqs)
      <4>1. Cardinality(StartedBy(g, c)) \in Nat /\ Cardinality(Ahead(g, c)) \in Nat
        BY CountTypes
      <4>2. crashes = 0 => Cardinality(StartedBy(g, c)) + Cardinality(Ahead(g, c)) + 1
                             < Limit(c) + Cardinality(Reqs)
        BY <2>4
      <4>3. Limit(c) \in Nat /\ Cardinality(Reqs) \in Nat
        BY CountTypes
      <4> QED
        BY <2>1, <3>2, <3>3, <4>1, <4>2, <4>3
    <3> QED
      BY <2>1, <2>3, <3>4, <3>5 DEF CountedFor
  <2>5. CASE ~(g = h /\ c = d)
    <3>1. p \notin Ahead(g, c)'
      BY <2>5, SetsMove
    <3>2. Ahead(g, c)' = Ahead(g, c)
      BY <2>2, <3>1, SetsMove
    <3> QED
      BY <2>1, <2>3, <3>2, CountElsewhere
  <2> QED
    BY <2>4, <2>5
<1> QED
  BY <1>1 DEF CountInv

LEMMA CountNewRequest ==
    ASSUME IInv, Typed', CountInv, FreshInv, NEW p \in Reqs, NewRequest(p)
    PROVE  CountInv'
<1>0. Typed /\ req[p].pc = "idle" /\ UNCHANGED <<run, sess, crashes>>
  BY DEF IInv, NewRequest, CreateWithSession, EnsureNewUser, ClaimLoad, LoadForRun
<1>1. CASE ClaimLoad(p)
  <2>1. PICK h \in Guests : h = cookie
    BY <1>0, <1>1 DEF ClaimLoad, Live, Typed
  <2>2. [Idle EXCEPT !.pc = "claimTrips", !.g = h].pc = "claimTrips"
    BY IdleStep
  <2>3. Others(p) /\ req'[p].pc = "claimTrips"
    BY <1>0, <1>1, <2>1, <2>2 DEF ClaimLoad, Others, Typed
  <2>4. CalmRequest(p)
    BY <1>0, <2>3 DEF CalmRequest, AheadSteps
  <2>5. SameBuilds /\ \A g \in Guests : SameCounts(g)
    BY <1>0 DEF SameBuilds, SameCounts
  <2>6. \A g \in Guests, c \in Scopes :
          Ahead(g, c)' \subseteq Ahead(g, c) /\ Counting(g, c)' = Counting(g, c)
    BY <1>0, <2>4, CalmSets
  <2> QED
    BY <1>0, <2>5, <2>6, CountCalm
<1>2. ASSUME NEW h \in Guests, NEW d \in Scopes, h = cookie, Live(h), Used(h, d) < Limit(d),
             Others(p), req'[p].pc \in AheadSteps, req'[p].g = h, req'[p].scope = d
      PROVE  CountInv'
  <2>1. Cardinality(Ahead(h, d)) + Cardinality(Counting(h, d)) + 1 <= Cardinality(Reqs)
    BY <1>0, RoomForOne DEF Ahead, Counting, AheadSteps
  <2>2. crashes = 0 => Cardinality(StartedBy(h, d)) <= Used(h, d) + Cardinality(Counting(h, d))
    BY <1>2 DEF CountInv, CountedFor, Live
  <2>3. /\ Cardinality(Ahead(h, d)) \in Nat /\ Cardinality(Counting(h, d)) \in Nat
        /\ Cardinality(StartedBy(h, d)) \in Nat /\ Used(h, d) \in Nat
        /\ Limit(d) \in Nat /\ Cardinality(Reqs) \in Nat
    BY <1>0, CountTypes
  <2>4. crashes = 0 => Cardinality(StartedBy(h, d)) + Cardinality(Ahead(h, d)) + 1
                         < Limit(d) + Cardinality(Reqs)
    BY <1>2, <2>1, <2>2, <2>3
  <2> QED
    BY <1>0, <1>2, <2>4, CountEnter
<1>3. CASE CreateWithSession(p)
  <2>1. PICK h \in Guests : h = cookie
    BY <1>0, <1>3 DEF CreateWithSession, Live, Typed
  <2>2. PICK x : x = [Idle EXCEPT !.pc = "insertTrip", !.g = h]
    OBVIOUS
  <2>3. x.pc = "insertTrip" /\ x.g = h /\ x.scope = "full"
    BY <2>2 DEF Idle
  <2>4. req'[p] = x /\ Others(p)
    BY <1>0, <1>3, <2>1, <2>2 DEF CreateWithSession, Typed, Others
  <2>5. Live(h) /\ Used(h, "full") < Limit("full")
    BY <1>3, <2>1 DEF CreateWithSession, GuestCanCreateTrip, Used, Limit
  <2> QED
    BY <1>2, <2>1, <2>3, <2>4, <2>5 DEF AheadSteps, Scopes
<1>4. CASE \E scope \in Scopes : LoadForRun(p, scope)
  <2>0. PICK d \in Scopes : LoadForRun(p, d)
    BY <1>4
  <2>1. PICK h \in Guests : h = cookie
    BY <1>0, <2>0 DEF LoadForRun, Live, Typed
  <2>2. PICK x : x = [Idle EXCEPT !.pc = "start", !.g = h, !.trip = sess[h].trip, !.scope = d]
    OBVIOUS
  <2>3. x.pc = "start" /\ x.g = h /\ x.scope = d
    BY <2>2 DEF Idle
  <2>4. req'[p] = x /\ Others(p)
    BY <1>0, <2>0, <2>1, <2>2 DEF LoadForRun, Typed, Others
  <2>5. Live(h) /\ Used(h, d) < Limit(d)
    BY <2>0, <2>1 DEF LoadForRun, GuestCanStartRun, Used, Limit, Scopes
  <2> QED
    BY <1>2, <2>1, <2>3, <2>4, <2>5 DEF AheadSteps
<1>5. CASE EnsureNewUser(p)
  <2>1. PICK h \in Guests :
          /\ user[h] = "none"
          /\ req' = [req EXCEPT ![p] =
               [Idle EXCEPT !.pc = "insertSession", !.g = h, !.new = TRUE]]
    BY <1>5 DEF EnsureNewUser
  <2>2. PICK x : x = [Idle EXCEPT !.pc = "insertSession", !.g = h, !.new = TRUE]
    OBVIOUS
  <2>3. x.pc = "insertSession" /\ x.g = h /\ x.scope = "full"
    BY <2>2 DEF Idle
  <2>4. req'[p] = x /\ Others(p)
    BY <1>0, <2>1, <2>2 DEF Typed, Others
  <2>5. \A q \in Reqs : ~Inserts(q, h)
    BY <2>1 DEF IInv, InsertInv, Inserts
  <2>6. StartedBy(h, "full") = {} /\ Ahead(h, "full") = {} /\ Counting(h, "full") = {}
    BY <2>1, <2>5 DEF FreshInv, Fresh, StartedBy, Ahead, Counting, AheadSteps
  <2>7. Cardinality(StartedBy(h, "full")) = 0 /\ Cardinality(Ahead(h, "full")) = 0
    BY <2>6, FS_EmptySet
  <2>8. 1 <= Cardinality(Reqs)
    <3>1. Cardinality({p}) = 1 /\ {p} \in SUBSET Reqs
      BY FS_Singleton
    <3> QED
      BY <3>1, FS_Subset, GuestTripAssumption
  <2>9. "full" \in Scopes
    BY DEF Scopes
  <2>10. Limit("full") \in Nat \ {0} /\ Cardinality(Reqs) \in Nat
    BY <1>0, <2>9, CountTypes
  <2>11. 0 + 0 + 1 < Limit("full") + Cardinality(Reqs)
    BY <2>8, <2>10
  <2>12. req'[p].pc \in AheadSteps
    BY <2>3, <2>4 DEF AheadSteps
  <2> QED
    BY <1>0, <2>3, <2>4, <2>7, <2>9, <2>11, <2>12, CountEnter
<1> QED
  BY <1>1, <1>3, <1>4, <1>5 DEF NewRequest

LEMMA CountAlone ==
    ASSUME IInv, Typed', CountInv,
           \/ \E r \in Runs : BuildEnds(r)
           \/ \E t \in Trips : LockExpires(t)
           \/ \E g \in Guests : SessionExpires(g) \/ GraceEnds(g)
           \/ CleanupSelect \/ CleanupDelete \/ UNCHANGED vars
    PROVE  CountInv'
<1>0. Typed /\ crashes' = crashes /\ req' = req
  BY DEF IInv, BuildEnds, LockExpires, SessionExpires, GraceEnds, CleanupSelect, CleanupDelete, vars
<1>1. \A g \in Guests, c \in Scopes :
        Ahead(g, c)' \subseteq Ahead(g, c) /\ Counting(g, c)' = Counting(g, c)
  BY <1>0 DEF Ahead, Counting
<1>2. SameBuilds
  <2>1. CASE \E r \in Runs : BuildEnds(r)
    <3>1. PICK r \in Runs : BuildEnds(r)
      BY <2>1
    <3>2. PICK x : x = [run[r] EXCEPT !.st = "done"]
      OBVIOUS
    <3>3. x.by = run[r].by /\ x.scope = run[r].scope /\ x.st = "done" /\ run[r].st = "active"
      BY <1>0, <3>1, <3>2 DEF Typed, RunType, BuildEnds
    <3>4. run' = [run EXCEPT ![r] = x]
      BY <3>1, <3>2 DEF BuildEnds
    <3> QED
      BY <1>0, <3>3, <3>4 DEF Typed, SameBuilds
  <2>2. CASE CleanupDelete
    BY <1>0, <2>2, DeletesCalmly DEF CleanupDelete
  <2>3. CASE run' = run
    BY <2>3 DEF SameBuilds
  <2> QED
    BY <2>1, <2>2, <2>3 DEF LockExpires, SessionExpires, GraceEnds, CleanupSelect, vars
<1>3. \A g \in Guests : SameCounts(g)
  <2>1. CASE \E g \in Guests : SessionExpires(g)
    <3>1. PICK g \in Guests : SessionExpires(g)
      BY <2>1
    <3>2. PICK x : x = [sess[g] EXCEPT !.st = "expired"]
      OBVIOUS
    <3>3. x.full = sess[g].full /\ x.partial = sess[g].partial /\ sess[g].st = "live"
      BY <1>0, <3>1, <3>2 DEF Typed, SessType, SessionExpires
    <3>4. sess' = [sess EXCEPT ![g] = x]
      BY <3>1, <3>2 DEF SessionExpires
    <3> QED
      BY <1>0, <3>3, <3>4 DEF Typed, SameCounts
  <2>2. CASE CleanupDelete
    BY <1>0, <2>2, DeletesCalmly DEF CleanupDelete
  <2>3. CASE sess' = sess
    BY <2>3 DEF SameCounts
  <2> QED
    BY <2>1, <2>2, <2>3 DEF BuildEnds, LockExpires, GraceEnds, CleanupSelect, vars
<1> QED
  BY <1>0, <1>1, <1>2, <1>3, CountCalm

LEMMA CountRestart ==
    ASSUME IInv, Typed', CountInv, Restart
    PROVE  CountInv'
<1>0. Typed /\ crashes' = crashes + 1 /\ crashes < MaxCrashes /\ UNCHANGED <<run, sess>>
  BY DEF IInv, Restart
<1>1. crashes' \in 0..MaxCrashes /\ crashes' # 0
  BY <1>0, GuestTripAssumption DEF CountInv
<1>2. \A q \in Reqs : req'[q].pc = "idle"
  BY IdleType DEF Restart
<1>3. ASSUME NEW g \in Guests, NEW c \in Scopes PROVE CountedFor(g, c)'
  <2>1. StartedBy(g, c)' = StartedBy(g, c) /\ Used(g, c)' = Used(g, c) /\ CountedFor(g, c)
    BY <1>0 DEF StartedBy, Used, CountInv
  <2>2. Counting(g, c)' \subseteq Counting(g, c)
    BY <1>2 DEF Counting
  <2>3. Used(g, c)' <= Used(g, c)
    BY <1>0, <2>1, CountTypes
  <2> QED
    BY <1>0, <1>1, <2>1, <2>2, <2>3, CountKeeps
<1> QED
  BY <1>1, <1>3 DEF CountInv

LEMMA CountBreaks ==
    ASSUME IInv, Typed', CountInv, NEW p \in Reqs, Breaks(p)
    PROVE  CountInv'
<1>0. /\ Typed /\ crashes' = crashes + 1 /\ crashes < MaxCrashes /\ sess' = sess
      /\ Finish(p)
  BY DEF IInv, Breaks, InsertRunUnqueued, StatementFails
<1>1. crashes' \in 0..MaxCrashes /\ crashes' # 0
  BY <1>0, GuestTripAssumption DEF CountInv
<1>2. req'[p].pc = "idle" /\ Others(p)
  BY <1>0, FinishFields
<1>3. \A r \in Runs : run[r].st # "unborn" => run'[r] = run[r]
  <2>1. CASE StatementFails(p)
    BY <2>1 DEF StatementFails
  <2>2. CASE InsertRunUnqueued(p)
    <3>1. PICK q \in Runs : run[q].st = "unborn" /\ \E n : run' = [run EXCEPT ![q] = n]
      BY <2>2 DEF InsertRunUnqueued, NextId
    <3> QED
      BY <1>0, <3>1 DEF Typed
  <2> QED
    BY <2>1, <2>2 DEF Breaks
<1>4. ASSUME NEW g \in Guests, NEW c \in Scopes PROVE CountedFor(g, c)'
  <2>1. StartedBy(g, c) \subseteq StartedBy(g, c)'
    BY <1>3 DEF StartedBy
  <2>2. Counting(g, c)' \subseteq Counting(g, c)
    BY <1>2 DEF Counting, Others
  <2>3. /\ Cardinality(StartedBy(g, c)) <= Cardinality(StartedBy(g, c)')
        /\ Cardinality(Counting(g, c)') <= Cardinality(Counting(g, c))
    <3>1. IsFiniteSet(StartedBy(g, c)') /\ IsFiniteSet(Counting(g, c))
      BY <1>0, CountTypes, CountTypesNext
    <3> QED
      BY <2>1, <2>2, <3>1, FS_Subset
  <2>4. /\ Cardinality(StartedBy(g, c)) \in Nat /\ Cardinality(StartedBy(g, c)') \in Nat
        /\ Cardinality(Counting(g, c)) \in Nat /\ Cardinality(Counting(g, c)') \in Nat
        /\ Used(g, c) \in Nat /\ Used(g, c)' = Used(g, c)
    BY <1>0, CountTypes, CountTypesNext DEF Used
  <2>5. Used(g, c) + Cardinality(Counting(g, c)) <= Cardinality(StartedBy(g, c))
    BY DEF CountInv, CountedFor
  <2>6. Used(g, c)' + Cardinality(Counting(g, c)') <= Cardinality(StartedBy(g, c)')
    BY <2>3, <2>4, <2>5
  <2> QED
    BY <1>1, <2>6 DEF CountedFor
<1> QED
  BY <1>1, <1>4 DEF CountInv

\* A request stays with its guest, ends, or begins with the guest of the cookie.
Follows(q) ==
    \/ req'[q] = req[q] \/ req'[q].pc = "idle"
    \/ req[q].pc # "idle" /\ req'[q].g = req[q].g /\ req'[q].pc # "insertSession"
    \/ req[q].pc = "idle" /\ req'[q].g = cookie /\ req'[q].pc # "insertSession"
UserLeaves == \A g \in Guests : user'[g] = "none" => user[g] = "none"
CookieFollows ==
    cookie' \in {cookie, None} \/ \E p \in Reqs : req[p].pc = "reply" /\ cookie' = req[p].g
BuildsFollow ==
    \A r \in Runs : run'[r].st # "unborn" =>
      \/ run[r].st # "unborn" /\ run'[r].by = run[r].by
      \/ \E p \in Reqs : req[p].pc = "insertRun" /\ run'[r].by = req[p].g

LEMMA FreshKeeps ==
    ASSUME IInv, FreshInv, UserLeaves, CookieFollows, BuildsFollow, \A q \in Reqs : Follows(q)
    PROVE  FreshInv'
<1>1. ASSUME NEW q \in Reqs, NEW g, Inserts(q, g)' PROVE Inserts(q, g)
  <2>1. req'[q].pc = "insertSession" /\ req'[q].g = g
    BY <1>1 DEF Inserts
  <2>2. req'[q] = req[q]
    BY <2>1 DEF Follows
  <2> QED
    BY <2>1, <2>2 DEF Inserts
<1> SUFFICES ASSUME NEW g \in Guests, Fresh(g)'
             PROVE  /\ cookie' # g
                    /\ \A r \in Runs : run'[r].st # "unborn" => run'[r].by # g
                    /\ \A q \in Reqs : req'[q].pc # "idle" /\ req'[q].g = g => Inserts(q, g)'
  BY DEF FreshInv
<1>2. Fresh(g)
  BY <1>1 DEF Fresh, UserLeaves
<1>3. /\ cookie # g
      /\ \A r \in Runs : run[r].st # "unborn" => run[r].by # g
      /\ \A q \in Reqs : req[q].pc # "idle" /\ req[q].g = g => Inserts(q, g)
  BY <1>2 DEF FreshInv
<1>4. \A q \in Reqs : req[q].pc \in {"reply", "insertRun"} => req[q].g # g
  BY <1>3 DEF Inserts
<1>5. cookie' # g
  BY <1>3, <1>4, GuestTripAssumption DEF CookieFollows
<1>6. \A r \in Runs : run'[r].st # "unborn" => run'[r].by # g
  BY <1>3, <1>4 DEF BuildsFollow
<1>7. ASSUME NEW q \in Reqs, req'[q].pc # "idle", req'[q].g = g PROVE Inserts(q, g)'
  <2>1. CASE req'[q] = req[q]
    BY <1>3, <1>7, <2>1 DEF Inserts
  <2>2. CASE req'[q] # req[q]
    <3>1. req[q].pc # "idle" /\ req[q].g = g /\ req'[q].pc # "insertSession"
      BY <1>3, <1>7, <2>2 DEF Follows
    <3>2. Inserts(q, g)
      BY <1>3, <3>1
    <3>3. user[g] # "none"
      BY <3>2 DEF IInv, InsertInv, Inserts
    <3>4. PICK p \in Reqs : Inserts(p, g)'
      BY <3>3 DEF Fresh, UserLeaves
    <3>5. p = q
      BY <1>1, <3>2, <3>4 DEF IInv, InsertInv, Inserts
    <3> QED
      BY <3>4, <3>5
  <2> QED
    BY <2>1, <2>2
<1> QED
  BY <1>5, <1>6, <1>7

LEMMA FreshNewUser ==
    ASSUME IInv, FreshInv, NEW p \in Reqs, EnsureNewUser(p)
    PROVE  FreshInv'
<1>0. Typed /\ UNCHANGED <<cookie, run>> /\ req[p].pc = "idle"
  BY DEF IInv, EnsureNewUser
<1>1. PICK h \in Guests :
        /\ user[h] = "none"
        /\ user' = [user EXCEPT ![h] = "fresh"]
        /\ req' = [req EXCEPT ![p] =
             [Idle EXCEPT !.pc = "insertSession", !.g = h, !.new = TRUE]]
  BY DEF EnsureNewUser
<1>2. PICK x : x = [Idle EXCEPT !.pc = "insertSession", !.g = h, !.new = TRUE]
  OBVIOUS
<1>3. x.pc = "insertSession" /\ x.g = h
  BY <1>2, IdleInsert
<1>4. req'[p] = x /\ \A q \in Reqs : q # p => req'[q] = req[q]
  BY <1>0, <1>1, <1>2 DEF Typed
<1>5. \A g \in Guests : g # h => user'[g] = user[g]
  BY <1>0, <1>1 DEF Typed
<1>6. ASSUME NEW g \in Guests, Fresh(g)'
      PROVE  /\ cookie' # g
             /\ \A r \in Runs : run'[r].st # "unborn" => run'[r].by # g
             /\ \A q \in Reqs : req'[q].pc # "idle" /\ req'[q].g = g => Inserts(q, g)'
  <2>1. CASE g = h
    <3>1. Fresh(g)
      BY <1>1, <2>1 DEF Fresh
    <3>2. \A q \in Reqs : ~Inserts(q, g)
      BY <1>1, <2>1 DEF IInv, InsertInv, Inserts
    <3>3. cookie # g /\ \A r \in Runs : run[r].st # "unborn" => run[r].by # g
      BY <3>1 DEF FreshInv
    <3>4. \A q \in Reqs : req[q].pc # "idle" => req[q].g # g
      BY <3>1, <3>2 DEF FreshInv
    <3>5. \A q \in Reqs : req'[q].pc # "idle" /\ req'[q].g = g => Inserts(q, g)'
      BY <1>3, <1>4, <2>1, <3>4 DEF Inserts
    <3> QED
      BY <1>0, <3>3, <3>5
  <2>2. CASE g # h
    <3>1. \A q \in Reqs : req'[q].g = g => q # p /\ req'[q] = req[q]
      BY <1>3, <1>4, <2>2
    <3>2. \A q \in Reqs : Inserts(q, g)' => Inserts(q, g)
      BY <3>1 DEF Inserts
    <3>3. Fresh(g)
      BY <1>5, <1>6, <2>2, <3>2 DEF Fresh
    <3>4. /\ cookie # g
          /\ \A r \in Runs : run[r].st # "unborn" => run[r].by # g
          /\ \A q \in Reqs : req[q].pc # "idle" /\ req[q].g = g => Inserts(q, g)
      BY <3>3 DEF FreshInv
    <3>5. \A q \in Reqs : req'[q].pc # "idle" /\ req'[q].g = g => Inserts(q, g)'
      BY <3>1, <3>4 DEF Inserts
    <3> QED
      BY <1>0, <3>4, <3>5
  <2> QED
    BY <2>1, <2>2
<1> QED
  BY <1>6 DEF FreshInv

LEMMA DeletesLeave ==
    ASSUME Typed, NEW G \in SUBSET Guests, NEW mark \in Marks, DeleteUsers(G, mark)
    PROVE  UserLeaves /\ BuildsFollow
<1>1. UserLeaves
  <2>1. \A g \in Guests : IF g \in G /\ user[g] \in Present THEN user'[g] = mark
                          ELSE user'[g] = user[g]
    BY Deletes
  <2> QED
    BY <2>1 DEF UserLeaves, Marks
<1>2. SameBuilds
  BY DeletesCalmly
<1> QED
  BY <1>1, <1>2 DEF SameBuilds, BuildsFollow

LEMMA FreshRequest ==
    ASSUME IInv, FreshInv, NEW p \in Reqs, Goes(p) \/ InsertRun(p) \/ CountRun(p)
    PROVE  FreshInv'
<1>0. Typed
  BY DEF IInv
<1>1. /\ Others(p) /\ req[p].pc # "idle" /\ req'[p].pc # "insertSession"
      /\ req'[p].pc # "idle" => req'[p].g = req[p].g
  <2>1. CASE Goes(p)
    BY <1>0, <2>1, GoesCalmly DEF CalmRequest
  <2>2. CASE CountRun(p)
    BY <1>0, <2>2, AnswerFields DEF CountRun
  <2>3. CASE InsertRun(p) /\ ~Goes(p)
    <3>1. To(p, "count") /\ req[p].pc = "insertRun"
      BY <2>3 DEF InsertRun, Goes
    <3> QED
      BY <1>0, <3>1, ToFields
  <2> QED
    BY <2>1, <2>2, <2>3
<1>2. \A q \in Reqs : Follows(q)
  BY <1>1 DEF Others, Follows
<1>3. CookieFollows
  BY DEF CookieFollows, Goes, EnsureNewSession, InsertTrip, SetSessionTrip, Reply, CheckRun,
         ClaimTrips, ClaimRuns, ClaimSession, ClaimUser, ClaimReply, InsertRun, CountRun
<1>4. CASE ClaimUser(p)
  <2>1. req[p].g \in Guests /\ DeleteUsers({req[p].g}, "claimed")
    BY <1>0, <1>4 DEF ClaimUser, Typed, Ready
  <2>2. UserLeaves /\ BuildsFollow
    <3>1. PICK G \in SUBSET Guests, m \in Marks : G = {req[p].g} /\ m = "claimed"
      BY <2>1 DEF Marks
    <3> QED
      BY <1>0, <2>1, <3>1, DeletesLeave
  <2> QED
    BY <1>2, <1>3, <2>2, FreshKeeps
<1>5. CASE ~ClaimUser(p)
  <2>1. user' = user
    BY <1>5 DEF Goes, EnsureNewSession, InsertTrip, SetSessionTrip, Reply, CheckRun,
         ClaimTrips, ClaimRuns, ClaimSession, ClaimReply, InsertRun, CountRun
  <2>2. BuildsFollow
    <3>1. CASE InsertRun(p) /\ run' # run
      <4>1. PICK r \in Runs :
              /\ run[r].st = "unborn"
              /\ run' = [run EXCEPT ![r] = [st |-> "active", trip |-> req[p].trip,
                           user |-> req[p].own, scope |-> req[p].scope, by |-> req[p].g,
                           late |-> req[p].own # owner[req[p].trip]]]
              /\ req[p].pc = "insertRun"
        BY <3>1 DEF InsertRun, NextId
      <4>2. run'[r].by = req[p].g /\ \A q \in Runs : q # r => run'[q] = run[q]
        BY <1>0, <4>1 DEF Typed
      <4> QED
        BY <4>1, <4>2 DEF BuildsFollow
    <3>2. CASE ClaimRuns(p)
      <4> SUFFICES ASSUME NEW r \in Runs
                   PROVE  run'[r].by = run[r].by /\ run'[r].st = run[r].st
        BY DEF BuildsFollow
      <4>1. PICK x : x = [run[r] EXCEPT !.user = Account]
        OBVIOUS
      <4>2. x.by = run[r].by /\ x.st = run[r].st
        BY <1>0, <4>1 DEF Typed, RunType
      <4>3. run'[r] = run[r] \/ run'[r] = x
        BY <3>2, <4>1 DEF ClaimRuns
      <4> QED
        BY <4>2, <4>3
    <3>3. CASE run' = run
      BY <3>3 DEF BuildsFollow
    <3> QED
      BY <1>5, <3>1, <3>2, <3>3 DEF Goes, EnsureNewSession, InsertTrip, SetSessionTrip, Reply,
         CheckRun, ClaimTrips, ClaimSession, ClaimReply, CountRun
  <2> QED
    BY <1>2, <1>3, <2>1, <2>2, FreshKeeps DEF UserLeaves
<1> QED
  BY <1>4, <1>5

LEMMA FreshBreaks ==
    ASSUME IInv, FreshInv, NEW p \in Reqs, Breaks(p)
    PROVE  FreshInv'
<1>0. Typed /\ UNCHANGED <<user, cookie>> /\ Finish(p)
  BY DEF IInv, Breaks, InsertRunUnqueued, StatementFails
<1>1. \A q \in Reqs : Follows(q)
  BY <1>0, FinishFields DEF Others, Follows
<1>2. BuildsFollow
  <2>1. CASE StatementFails(p)
    BY <2>1 DEF StatementFails, BuildsFollow
  <2>2. CASE InsertRunUnqueued(p)
    <3>1. PICK r \in Runs :
            /\ run[r].st = "unborn"
            /\ run' = [run EXCEPT ![r] = [st |-> "done", trip |-> req[p].trip,
                         user |-> req[p].own, scope |-> req[p].scope, by |-> req[p].g,
                         late |-> req[p].own # owner[req[p].trip]]]
            /\ req[p].pc = "insertRun"
      BY <2>2 DEF InsertRunUnqueued, NextId
    <3>2. run'[r].by = req[p].g /\ \A q \in Runs : q # r => run'[q] = run[q]
      BY <1>0, <3>1 DEF Typed
    <3> QED
      BY <3>1, <3>2 DEF BuildsFollow
  <2> QED
    BY <2>1, <2>2 DEF Breaks
<1> QED
  BY <1>0, <1>1, <1>2, FreshKeeps DEF UserLeaves, CookieFollows

LEMMA FreshCookieRequest ==
    ASSUME IInv, FreshInv, NEW p \in Reqs,
           CreateWithSession(p) \/ ClaimLoad(p) \/ \E scope \in Scopes : LoadForRun(p, scope)
    PROVE  FreshInv'
<1>0. Typed /\ req[p].pc = "idle" /\ UNCHANGED <<user, run, cookie>>
  BY DEF IInv, CreateWithSession, ClaimLoad, LoadForRun
<1>1. PICK x : /\ req' = [req EXCEPT ![p] = x]
               /\ x.g = cookie /\ x.pc # "insertSession"
  <2>1. CASE CreateWithSession(p)
    <3>1. PICK x : x = [Idle EXCEPT !.pc = "insertTrip", !.g = cookie]
      OBVIOUS
    <3>2. x.g = cookie /\ x.pc = "insertTrip"
      BY <3>1 DEF Idle
    <3> QED
      BY <2>1, <3>1, <3>2 DEF CreateWithSession
  <2>2. CASE ClaimLoad(p)
    <3>1. PICK x : x = [Idle EXCEPT !.pc = "claimTrips", !.g = cookie]
      OBVIOUS
    <3>2. x.g = cookie /\ x.pc = "claimTrips"
      BY <3>1 DEF Idle
    <3> QED
      BY <2>2, <3>1, <3>2 DEF ClaimLoad
  <2>3. CASE \E scope \in Scopes : LoadForRun(p, scope)
    <3>0. PICK scope \in Scopes : LoadForRun(p, scope)
      BY <2>3
    <3>1. PICK x, t : x = [Idle EXCEPT !.pc = "start", !.g = cookie,
                                       !.trip = t, !.scope = scope]
                      /\ t = sess[cookie].trip
      OBVIOUS
    <3>2. x.g = cookie /\ x.pc = "start"
      BY <3>1 DEF Idle
    <3> QED
      BY <3>0, <3>1, <3>2 DEF LoadForRun
  <2> QED
    BY <2>1, <2>2, <2>3
<1>2. req'[p] = x /\ \A q \in Reqs : q # p => req'[q] = req[q]
  BY <1>0, <1>1 DEF Typed
<1>3. \A q \in Reqs : Follows(q)
  BY <1>0, <1>1, <1>2 DEF Follows
<1> QED
  BY <1>0, <1>3, FreshKeeps DEF UserLeaves, CookieFollows, BuildsFollow

LEMMA FreshAlone ==
    ASSUME IInv, FreshInv,
           \/ \E r \in Runs : BuildEnds(r)
           \/ \E t \in Trips : LockExpires(t)
           \/ \E g \in Guests : SessionExpires(g) \/ GraceEnds(g)
           \/ CleanupSelect \/ CleanupDelete \/ Restart \/ UNCHANGED vars
    PROVE  FreshInv'
<1>0. Typed /\ cookie' = cookie
  BY DEF IInv, BuildEnds, LockExpires, SessionExpires, GraceEnds, CleanupSelect,
         CleanupDelete, Restart, vars
<1>1. \A q \in Reqs : Follows(q)
  <2>1. CASE Restart
    BY <2>1, IdleType DEF Restart, Follows
  <2>2. CASE req' = req
    BY <2>2 DEF Follows
  <2> QED
    BY <2>1, <2>2 DEF BuildEnds, LockExpires, SessionExpires, GraceEnds, CleanupSelect,
       CleanupDelete, vars
<1>2. UserLeaves /\ BuildsFollow
  <2>1. CASE CleanupDelete
    <3>1. sweep \in SUBSET Guests /\ "swept" \in Marks /\ DeleteUsers(sweep, "swept")
      BY <1>0, <2>1 DEF CleanupDelete, Typed, Marks
    <3> QED
      BY <1>0, <3>1, DeletesLeave
  <2>2. CASE \E r \in Runs : BuildEnds(r)
    <3>1. PICK r \in Runs : BuildEnds(r)
      BY <2>2
    <3>2. PICK x : x = [run[r] EXCEPT !.st = "done"]
      OBVIOUS
    <3>3. x.by = run[r].by /\ run[r].st = "active" /\ run' = [run EXCEPT ![r] = x]
      BY <1>0, <3>1, <3>2 DEF Typed, RunType, BuildEnds
    <3>4. \A q \in Runs : run'[q].by = run[q].by /\ (run'[q].st # "unborn" => run[q].st # "unborn")
      BY <1>0, <3>3 DEF Typed
    <3>5. user' = user
      BY <3>1 DEF BuildEnds
    <3> QED
      BY <3>4, <3>5 DEF UserLeaves, BuildsFollow
  <2>3. CASE \E g \in Guests : GraceEnds(g)
    BY <1>0, <2>3 DEF GraceEnds, UserLeaves, BuildsFollow, Typed
  <2>4. CASE UNCHANGED <<user, run>>
    BY <2>4 DEF UserLeaves, BuildsFollow
  <2> QED
    BY <2>1, <2>2, <2>3, <2>4 DEF LockExpires, SessionExpires, CleanupSelect, Restart, vars
<1> QED
  BY <1>0, <1>1, <1>2, FreshKeeps DEF CookieFollows

LEMMA CountInit == Init => CountInv /\ FreshInv /\ lock \in [Trips -> BOOLEAN]
<1> SUFFICES ASSUME Init PROVE CountInv /\ FreshInv /\ lock \in [Trips -> BOOLEAN]
  OBVIOUS
<1>0. IInv /\ Typed
  BY InvInit DEF IInv
<1>1. /\ \A q \in Reqs : req[q].pc = "idle"
      /\ \A r \in Runs : run[r].st = "unborn"
      /\ \A g \in Guests : sess[g] = NoSession
      /\ crashes = 0 /\ cookie = None
  BY IdleType DEF Init, NoRun
<1>2. ASSUME NEW g \in Guests, NEW c \in Scopes PROVE CountedFor(g, c)
  <2>1. StartedBy(g, c) = {} /\ Ahead(g, c) = {} /\ Counting(g, c) = {}
    BY <1>1 DEF StartedBy, Ahead, Counting, AheadSteps
  <2>2. /\ Cardinality(StartedBy(g, c)) = 0 /\ Cardinality(Ahead(g, c)) = 0
        /\ Cardinality(Counting(g, c)) = 0
    BY <2>1, FS_EmptySet
  <2>3. Used(g, c) = 0
    BY <1>1 DEF Used, NoSession
  <2>4. 0 + 0 < Limit(c) + Cardinality(Reqs)
    BY <1>0, CountTypes
  <2> QED
    BY <2>2, <2>3, <2>4 DEF CountedFor
<1>3. FreshInv
  BY <1>1, GuestTripAssumption DEF FreshInv, Inserts
<1>4. crashes \in 0..MaxCrashes
  BY <1>1, GuestTripAssumption
<1>5. lock \in [Trips -> BOOLEAN]
  BY DEF Init
<1> QED
  BY <1>2, <1>3, <1>4, <1>5 DEF CountInv

LEMMA CountStep ==
    ASSUME IInv, IInv', CountInv, FreshInv, [Next]_vars
    PROVE  CountInv' /\ FreshInv'
<1>0. Typed'
  BY DEF IInv
<1>1. CASE \E p \in Reqs : NewRequest(p)
  BY <1>0, <1>1, CountNewRequest, FreshNewUser, FreshCookieRequest DEF NewRequest
<1>2. CASE \E p \in Reqs : RequestStep(p)
  <2>0. PICK p \in Reqs : RequestStep(p)
    BY <1>2
  <2>1. Goes(p) \/ (InsertRun(p) /\ ~Finish(p)) \/ CountRun(p)
    BY <2>0 DEF RequestStep, Goes
  <2>2. CountInv'
    BY <1>0, <2>1, CountGoes, CountInsertRun, CountCountRun
  <2> QED
    BY <2>1, <2>2, FreshRequest
<1>3. CASE Restart
  BY <1>0, <1>3, CountRestart, FreshAlone
<1>4. CASE \/ \E r \in Runs : BuildEnds(r)
           \/ \E t \in Trips : LockExpires(t)
           \/ \E g \in Guests : SessionExpires(g) \/ GraceEnds(g)
           \/ CleanupSelect \/ CleanupDelete \/ UNCHANGED vars
  BY <1>0, <1>4, CountAlone, FreshAlone
<1>5. CASE \E p \in Reqs : InsertRunUnqueued(p) \/ StatementFails(p)
  BY <1>0, <1>5, CountBreaks, FreshBreaks DEF Breaks
<1> QED
  BY <1>1, <1>2, <1>3, <1>4, <1>5 DEF Next

LEMMA LockStep ==
    ASSUME lock \in [Trips -> BOOLEAN], [Next]_vars
    PROVE  lock' \in [Trips -> BOOLEAN]
<1>1. CASE \E p \in Reqs : CheckRun(p)
  BY <1>1 DEF CheckRun
<1>2. CASE \E r \in Runs : BuildEnds(r)
  BY <1>2 DEF BuildEnds
<1>3. CASE \E t \in Trips : LockExpires(t)
  BY <1>3 DEF LockExpires
<1>4. CASE \E p \in Reqs : InsertRunUnqueued(p)
  BY <1>4 DEF InsertRunUnqueued
<1>5. CASE lock' = lock
  BY <1>5
<1> QED
  BY <1>1, <1>2, <1>3, <1>4, <1>5 DEF Next, vars, NewRequest, RequestStep, CreateWithSession,
     EnsureNewUser, ClaimLoad, LoadForRun, EnsureNewSession, InsertTrip, SetSessionTrip, Reply,
     InsertRun, CountRun, ClaimTrips, ClaimRuns, ClaimSession, ClaimUser, ClaimReply,
     SessionExpires, GraceEnds, CleanupSelect, CleanupDelete, Restart, StatementFails

\* Builds are counted for the guest that started them.
THEOREM BuildsCounted == Spec => [](CountInv /\ FreshInv /\ lock \in [Trips -> BOOLEAN])
<1>1. /\ IInv /\ IInv' /\ CountInv /\ FreshInv /\ lock \in [Trips -> BOOLEAN]
      /\ [Next]_vars
      => (CountInv /\ FreshInv /\ lock \in [Trips -> BOOLEAN])'
  BY CountStep, LockStep
<1> QED
  BY <1>1, CountInit, GuestTripInvariant, PTL DEF Spec

\* The rows have their types, and a session never counts more builds than there are.
THEOREM GuestTypes == Spec => []TypeOK
<1>1. IInv /\ CountInv /\ lock \in [Trips -> BOOLEAN] => TypeOK
  <2> SUFFICES ASSUME IInv, CountInv, lock \in [Trips -> BOOLEAN] PROVE TypeOK
    OBVIOUS
  <2>0. Typed
    BY DEF IInv
  <2>1. ASSUME NEW g \in Guests, NEW c \in Scopes
        PROVE  Used(g, c) \in 0..Cardinality(Runs)
    <3>1. /\ Used(g, c) \in Nat /\ Cardinality(Counting(g, c)) \in Nat
          /\ Cardinality(StartedBy(g, c)) \in Nat
      BY <2>0, CountTypes
    <3>2. Used(g, c) + Cardinality(Counting(g, c)) <= Cardinality(StartedBy(g, c))
      BY DEF CountInv, CountedFor
    <3>3. StartedBy(g, c) \in SUBSET Runs
      BY DEF StartedBy
    <3>4. Cardinality(StartedBy(g, c)) <= Cardinality(Runs) /\ Cardinality(Runs) \in Nat
      BY <3>3, FS_Subset, FS_CardinalityType, GuestTripAssumption
    <3> QED
      BY <3>1, <3>2, <3>4
  <2>2. \A g \in Guests : /\ sess[g].full \in 0..Cardinality(Runs)
                          /\ sess[g].partial \in 0..Cardinality(Runs)
    BY <2>1 DEF Used, Scopes
  <2>3. sess \in [Guests -> [st : {"none", "live", "expired"}, trip : Trips \union {None},
                            full : 0..Cardinality(Runs), partial : 0..Cardinality(Runs)]]
    BY <2>0, <2>2 DEF Typed, SessType
  <2>4. run \in [Runs -> [st : {"unborn", "active", "done", "deleted"},
                         trip : Trips \union {None}, scope : Scopes,
                         user : Guests \union {Account, None}, by : Guests \union {None},
                         late : BOOLEAN]]
    <3>1. \A r \in Runs : run[r] \in [st : {"unborn", "active", "done", "deleted"},
                         trip : Trips \union {None}, scope : Scopes,
                         user : Guests \union {Account, None}, by : Guests \union {None},
                         late : BOOLEAN]
      BY <2>0 DEF Typed, RunType
    <3> QED
      BY <2>0, <3>1 DEF Typed
  <2> QED
    BY <2>0, <2>3, <2>4 DEF Typed, TypeOK, Marks, Present, CountInv
<1> QED
  BY <1>1, GuestTripInvariant, BuildsCounted, PTL

\* While nothing fails or restarts, overlapping requests start fewer builds above a guest's
\* limit than there are requests, for any limits and any number of requests.
THEOREM OverrunAlwaysBounded == Spec => []OverrunIsBounded
<1>1. IInv /\ CountInv => OverrunIsBounded
  <2> SUFFICES ASSUME IInv, CountInv, crashes = 0, NEW g \in Guests
               PROVE  /\ Cardinality(StartedBy(g, "full")) < FullLimit + Cardinality(Reqs)
                      /\ Cardinality(StartedBy(g, "routes")) < PartialLimit + Cardinality(Reqs)
    BY DEF OverrunIsBounded
  <2>1. ASSUME NEW c \in Scopes
        PROVE  Cardinality(StartedBy(g, c)) < Limit(c) + Cardinality(Reqs)
    <3>1. /\ Cardinality(Ahead(g, c)) \in Nat /\ Cardinality(StartedBy(g, c)) \in Nat
          /\ Limit(c) \in Nat /\ Cardinality(Reqs) \in Nat
      BY CountTypes DEF IInv
    <3>2. Cardinality(StartedBy(g, c)) + Cardinality(Ahead(g, c)) < Limit(c) + Cardinality(Reqs)
      BY DEF CountInv, CountedFor
    <3> QED
      BY <3>1, <3>2
  <2>2. "full" \in Scopes /\ "routes" \in Scopes /\ Limit("full") = FullLimit
        /\ Limit("routes") = PartialLimit
    BY DEF Scopes, Limit
  <2>3. Cardinality(StartedBy(g, "full")) < FullLimit + Cardinality(Reqs)
    BY <2>1, <2>2
  <2>4. Cardinality(StartedBy(g, "routes")) < PartialLimit + Cardinality(Reqs)
    BY <2>1, <2>2
  <2> QED
    BY <2>3, <2>4
<1> QED
  BY <1>1, GuestTripInvariant, BuildsCounted, PTL
=============================================================================
