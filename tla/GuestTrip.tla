----------------------------- MODULE GuestTrip -----------------------------
(***************************************************************************)
(* The trial walk of a visitor without an account: the guest user and      *)
(* session behind the cookie, the one trip and the counted builds of that  *)
(* session, the claim that moves everything to an account at register or   *)
(* login, and the sweep that removes expired guests.  Source:              *)
(* routes/guest.ts, services/guestSession.ts, guestQuotas.ts,              *)
(* guestCleanup.ts and repos/guestSessions.ts of api-node.                 *)
(*                                                                         *)
(* Each SQL statement is a step of its own, because no handler opens a     *)
(* transaction; a request keeps in req[p] the rows it read.  One browser,  *)
(* with one cookie, sends overlapping requests (two tabs, a double click). *)
(***************************************************************************)
EXTENDS Naturals, FiniteSets

CONSTANTS
    Guests,        \* ids of guest users; a guest has at most one session row
    Trips, Runs,   \* row ids, taken in order as the serial columns do
    Reqs,          \* requests in flight at once
    Account,       \* the account the visitor registers or logs in to
    None,
    FullLimit, PartialLimit,
    MaxCrashes     \* bound: restarts of the API process and statements that throw

ASSUME GuestTripAssumption ==
    /\ IsFiniteSet(Reqs) /\ IsFiniteSet(Runs)
    /\ Account \notin Guests /\ Account \notin {None, "deleted"}
    /\ None \notin Guests /\ None \notin Trips /\ None # "deleted"
    /\ "deleted" \notin Guests
    /\ {FullLimit, PartialLimit} \subseteq Nat \ {0}
    /\ MaxCrashes \in Nat

VARIABLES
    user,      \* users row of a guest: fresh is younger than the orphan grace
    sess,      \* guest_sessions row
    owner,     \* trips.user_id; None before the insert, "deleted" after a cascade
    run,       \* graph_runs row; by is the guest whose request started it, late
               \* that the trip had changed hands since that request read its owner
    lock,      \* trip build lock
    cookie,    \* guest_session cookie of the browser
    req,       \* requests: program counter and the rows read so far
    sweep,     \* ids the running cleanup selected
    crashes,   \* restarts and failed statements so far
    cut        \* history: guests whose claim ended after the trips and before the builds

vars == <<user, sess, owner, run, lock, cookie, req, sweep, crashes, cut>>

Scopes == {"full", "routes"}
Present == {"fresh", "stale"}
NoSession == [st |-> "none", trip |-> None, full |-> 0, partial |-> 0]
NoRun == [st |-> "unborn", trip |-> None, user |-> None, scope |-> "full", by |-> None,
          late |-> FALSE]
Idle == [pc |-> "idle", g |-> None, trip |-> None, scope |-> "full", own |-> None, new |-> FALSE]

Init ==
    /\ user = [g \in Guests |-> "none"]
    /\ sess = [g \in Guests |-> NoSession]
    /\ owner = [t \in Trips |-> None]
    /\ run = [r \in Runs |-> NoRun]
    /\ lock = [t \in Trips |-> FALSE]
    /\ cookie = None
    /\ req = [p \in Reqs |-> Idle]
    /\ sweep = {}
    /\ crashes = 0
    /\ cut = {}

NextId(i, free) == i \in free /\ \A j \in free : i <= j
UserExists(u) == IF u = Account THEN TRUE ELSE user[u] \in Present
TripExists(t) == owner[t] \notin {None, "deleted"}
\* the cookie names a session that is not expired and whose user exists
Live(g) == /\ g # None
           /\ sess[g].st = "live"
           /\ user[g] \in Present
ActiveRun(t) == \E r \in Runs : run[r].trip = t /\ run[r].st = "active"

GuestCanCreateTrip(s) == s.trip = None /\ s.full < FullLimit
\* Mutant: only rebuilds of the routes are limited.
GuestCanAlwaysStartFull(s, scope) == scope = "full" \/ s.partial < PartialLimit

GuestCanStartRun(s, scope) ==
    IF scope = "full" THEN s.full < FullLimit ELSE s.partial < PartialLimit

To(p, pc) == req' = [req EXCEPT ![p].pc = pc]
Finish(p) == req' = [req EXCEPT ![p] = Idle]
\* only the answer that opened a session carries its cookie
Answer(p) == IF req[p].new THEN To(p, "reply") ELSE Finish(p)

----------------------------------------------------------------------------
(* ensureGuestSession and POST /api/guest/trips *)

\* An existing session is used as it was read: the limits are checked on this copy.
CreateWithSession(p) ==
    /\ req[p].pc = "idle"
    /\ Live(cookie)
    /\ GuestCanCreateTrip(sess[cookie])
    /\ req' = [req EXCEPT ![p] = [Idle EXCEPT !.pc = "insertTrip", !.g = cookie]]
    /\ UNCHANGED <<user, sess, owner, run, lock, cookie, sweep, crashes, cut>>

\* createGuestUser: no usable cookie
EnsureNewUser(p) ==
    /\ req[p].pc = "idle"
    /\ ~Live(cookie)
    /\ \E g \in Guests :
         /\ user[g] = "none"
         /\ user' = [user EXCEPT ![g] = "fresh"]
         /\ req' = [req EXCEPT ![p] =
              [Idle EXCEPT !.pc = "insertSession", !.g = g, !.new = TRUE]]
    /\ UNCHANGED <<sess, owner, run, lock, cookie, sweep, crashes, cut>>

\* createGuestSession; then the trip, or the reply alone: POST session, geocoding,
\* an invalid body and a refused captcha stop here.  The cookie leaves with the reply.
EnsureNewSession(p) ==
    /\ req[p].pc = "insertSession"
    /\ IF user[req[p].g] \in Present
         THEN /\ sess' = [sess EXCEPT ![req[p].g] = [NoSession EXCEPT !.st = "live"]]
              /\ To(p, "insertTrip") \/ Answer(p)
         ELSE /\ Finish(p)
              /\ UNCHANGED sess
    /\ UNCHANGED <<user, owner, run, lock, cookie, sweep, crashes, cut>>

InsertTrip(p) ==
    /\ req[p].pc = "insertTrip"
    /\ IF UserExists(req[p].g)
         THEN \E t \in Trips :
                /\ NextId(t, {u \in Trips : owner[u] = None})
                /\ owner' = [owner EXCEPT ![t] = req[p].g]
                /\ req' = [req EXCEPT ![p].pc = "setTrip", ![p].trip = t]
         ELSE /\ Finish(p)
              /\ UNCHANGED owner
    /\ UNCHANGED <<user, sess, run, lock, cookie, sweep, crashes, cut>>

\* savePreferences (fails when the trip is gone) and setGuestSessionTrip; the trip
\* may be created without a build
SetSessionTrip(p) ==
    /\ req[p].pc = "setTrip"
    /\ IF TripExists(req[p].trip)
         THEN /\ sess' = [sess EXCEPT ![req[p].g].trip =
                            IF sess[req[p].g].st = "none" THEN @ ELSE req[p].trip]
              /\ To(p, "start") \/ Answer(p)
         ELSE /\ Finish(p)
              /\ UNCHANGED sess
    /\ UNCHANGED <<user, owner, run, lock, cookie, sweep, crashes, cut>>

Reply(p) ==
    /\ req[p].pc = "reply"
    /\ cookie' = req[p].g
    /\ Finish(p)
    /\ UNCHANGED <<user, sess, owner, run, lock, sweep, crashes, cut>>

----------------------------------------------------------------------------
(* POST /api/guest/trips/:id/runs and startRun *)

\* loadGuestSession, requireGuestTrip, captcha and assertGuestCanStartRun
LoadForRun(p, scope) ==
    /\ req[p].pc = "idle"
    /\ Live(cookie)
    /\ sess[cookie].trip # None
    /\ owner[sess[cookie].trip] = cookie
    /\ GuestCanStartRun(sess[cookie], scope)
    /\ req' = [req EXCEPT ![p] = [Idle EXCEPT !.pc = "start", !.g = cookie,
                                  !.trip = sess[cookie].trip, !.scope = scope]]
    /\ UNCHANGED <<user, sess, owner, run, lock, cookie, sweep, crashes, cut>>

\* startRun up to the lock: the owner of the trip is read before the build is created
CheckRun(p) ==
    LET t == req[p].trip IN
    /\ req[p].pc = "start"
    /\ IF TripExists(t) /\ ~ActiveRun(t) /\ ~lock[t]
         THEN /\ lock' = [lock EXCEPT ![t] = TRUE]
              /\ req' = [req EXCEPT ![p].pc = "insertRun", ![p].own = owner[t]]
         ELSE /\ Answer(p)
              /\ UNCHANGED lock
    /\ UNCHANGED <<user, sess, owner, run, cookie, sweep, crashes, cut>>

\* createGraphRun for the owner read above; its failure leaves the lock to its TTL
InsertRun(p) ==
    LET q == req[p] IN
    /\ q.pc = "insertRun"
    /\ IF UserExists(q.own) /\ TripExists(q.trip)
         THEN \E r \in Runs :
                /\ NextId(r, {u \in Runs : run[u].st = "unborn"})
                /\ run' = [run EXCEPT ![r] = [st |-> "active", trip |-> q.trip,
                             user |-> q.own, scope |-> q.scope, by |-> q.g,
                             late |-> q.own # owner[q.trip]]]
                /\ To(p, "count")
         ELSE /\ Finish(p)
              /\ UNCHANGED run
    /\ UNCHANGED <<user, sess, owner, lock, cookie, sweep, crashes, cut>>

\* enqueueBuildRoutes throws: the row that was just made is failed, the lock is given back
\* and the request ends before the count.  (What becomes of a push that reached Redis all
\* the same is the matter of GraphRuns.)
InsertRunUnqueued(p) ==
    LET q == req[p] IN
    /\ crashes < MaxCrashes
    /\ q.pc = "insertRun"
    /\ UserExists(q.own) /\ TripExists(q.trip)
    /\ \E r \in Runs :
         /\ NextId(r, {u \in Runs : run[u].st = "unborn"})
         /\ run' = [run EXCEPT ![r] = [st |-> "done", trip |-> q.trip, user |-> q.own,
                      scope |-> q.scope, by |-> q.g, late |-> q.own # owner[q.trip]]]
    /\ lock' = [lock EXCEPT ![q.trip] = FALSE]
    /\ Finish(p)
    /\ crashes' = crashes + 1
    /\ UNCHANGED <<user, sess, owner, cookie, sweep, cut>>

\* Mutant: the count is retried although it was done.
CountRunAgain(p) ==
    LET q == req[p] IN
    /\ q.pc = "count"
    /\ sess' = [sess EXCEPT
         ![q.g].full = IF sess[q.g].st # "none" /\ q.scope = "full" THEN @ + 1 ELSE @,
         ![q.g].partial = IF sess[q.g].st # "none" /\ q.scope # "full" THEN @ + 1 ELSE @]
    /\ UNCHANGED <<user, owner, run, lock, cookie, req, sweep, crashes, cut>>

\* incrementGuestFullRuns, incrementGuestPartialRuns: no row, no effect
CountRun(p) ==
    LET q == req[p] IN
    /\ q.pc = "count"
    /\ sess' = [sess EXCEPT
         ![q.g].full = IF sess[q.g].st # "none" /\ q.scope = "full" THEN @ + 1 ELSE @,
         ![q.g].partial = IF sess[q.g].st # "none" /\ q.scope # "full" THEN @ + 1 ELSE @]
    /\ Answer(p)
    /\ UNCHANGED <<user, owner, run, lock, cookie, sweep, crashes, cut>>

\* the worker ends a build and frees the trip
BuildEnds(r) ==
    /\ run[r].st = "active"
    /\ run' = [run EXCEPT ![r].st = "done"]
    /\ lock' = [lock EXCEPT ![run[r].trip] = FALSE]
    /\ UNCHANGED <<user, sess, owner, cookie, req, sweep, crashes, cut>>

\* the lock of a build that was never created, or whose row is gone, expires
LockExpires(t) ==
    /\ lock[t]
    /\ ~ActiveRun(t)
    /\ \A p \in Reqs : ~(req[p].trip = t /\ req[p].pc = "insertRun")
    /\ lock' = [lock EXCEPT ![t] = FALSE]
    /\ UNCHANGED <<user, sess, owner, run, cookie, req, sweep, crashes, cut>>

----------------------------------------------------------------------------
(* Removal of users, and the claim *)

\* DELETE FROM users ... AND is_guest: the foreign keys remove the session, the trips
\* and every build of the user or of those trips
DeleteUsers(G, mark) ==
    LET gone == {g \in G : user[g] \in Present}
        trips == {t \in Trips : owner[t] \in gone} IN
    /\ user' = [g \in Guests |-> IF g \in gone THEN mark ELSE user[g]]
    /\ sess' = [g \in Guests |-> IF g \in gone THEN NoSession ELSE sess[g]]
    /\ owner' = [t \in Trips |-> IF t \in trips THEN "deleted" ELSE owner[t]]
    /\ run' = [r \in Runs |->
                 IF run[r].st # "unborn" /\ (run[r].user \in gone \/ run[r].trip \in trips)
                 THEN [run[r] EXCEPT !.st = "deleted"] ELSE run[r]]

\* register, login and the Google callback claim when the cookie is live; the trip id
\* read here only goes into the answer
ClaimLoad(p) ==
    /\ req[p].pc = "idle"
    /\ Live(cookie)
    /\ req' = [req EXCEPT ![p] = [Idle EXCEPT !.pc = "claimTrips", !.g = cookie]]
    /\ UNCHANGED <<user, sess, owner, run, lock, cookie, sweep, crashes, cut>>

ClaimTrips(p) ==
    /\ req[p].pc = "claimTrips"
    /\ owner' = [t \in Trips |-> IF owner[t] = req[p].g THEN Account ELSE owner[t]]
    /\ To(p, "claimRuns")
    /\ UNCHANGED <<user, sess, run, lock, cookie, sweep, crashes, cut>>

\* Mutant: only builds still running are moved.
ClaimActiveRuns(p) ==
    /\ req[p].pc = "claimRuns"
    /\ run' = [r \in Runs |-> IF run[r].user = req[p].g /\ run[r].st = "active"
                              THEN [run[r] EXCEPT !.user = Account] ELSE run[r]]
    /\ To(p, "claimSession")
    /\ UNCHANGED <<user, sess, owner, lock, cookie, sweep, crashes, cut>>

ClaimRuns(p) ==
    /\ req[p].pc = "claimRuns"
    /\ run' = [r \in Runs |-> IF run[r].user = req[p].g /\ run[r].st \in {"active", "done"}
                              THEN [run[r] EXCEPT !.user = Account] ELSE run[r]]
    /\ To(p, "claimSession")
    /\ UNCHANGED <<user, sess, owner, lock, cookie, sweep, crashes, cut>>

ClaimSession(p) ==
    /\ req[p].pc = "claimSession"
    /\ sess' = [sess EXCEPT ![req[p].g] = NoSession]
    /\ To(p, "claimUser")
    /\ UNCHANGED <<user, owner, run, lock, cookie, sweep, crashes, cut>>

ClaimUser(p) ==
    /\ req[p].pc = "claimUser"
    /\ DeleteUsers({req[p].g}, "claimed")
    /\ To(p, "claimReply")
    /\ UNCHANGED <<lock, cookie, sweep, crashes, cut>>

ClaimReply(p) ==
    /\ req[p].pc = "claimReply"
    /\ cookie' = None
    /\ Finish(p)
    /\ UNCHANGED <<user, sess, owner, run, lock, sweep, crashes, cut>>

----------------------------------------------------------------------------
(* runGuestCleanup, time and restarts *)

\* Mutant: a guest without a session is an orphan at once.
OrphanAtOnce(g) == sess[g].st = "none" /\ user[g] \in Present

Orphan(g) == sess[g].st = "none" /\ user[g] = "stale"

Expired(g) == sess[g].st = "expired"
\* Mutant: the cleanup only looks at session rows.
CleanupExpiredOnly == {g \in Guests : user[g] \in Present /\ Expired(g)}

CleanupIds == {g \in Guests : user[g] \in Present /\ (Expired(g) \/ Orphan(g))}

CleanupSelect ==
    /\ sweep = {}
    /\ CleanupIds # {}
    /\ sweep' = CleanupIds
    /\ UNCHANGED <<user, sess, owner, run, lock, cookie, req, crashes, cut>>

CleanupDelete ==
    /\ sweep # {}
    /\ DeleteUsers(sweep, "swept")
    /\ sweep' = {}
    /\ UNCHANGED <<lock, cookie, req, crashes, cut>>

SessionExpires(g) ==
    /\ sess[g].st = "live"
    /\ sess' = [sess EXCEPT ![g].st = "expired"]
    /\ UNCHANGED <<user, owner, run, lock, cookie, req, sweep, crashes, cut>>

\* The grace is at least an hour: no request is still between its two inserts.  Age only
\* matters once there is no session row.
GraceEnds(g) ==
    /\ user[g] = "fresh"
    /\ sess[g].st = "none"
    /\ \A p \in Reqs : ~(req[p].g = g /\ req[p].pc = "insertSession")
    /\ user' = [user EXCEPT ![g] = "stale"]
    /\ UNCHANGED <<sess, owner, run, lock, cookie, req, sweep, crashes, cut>>

HalfClaimed(P) == {req[p].g : p \in {q \in P : req[q].pc = "claimRuns"}}

\* A statement throws, the UPDATE of the count too: the request ends where it is, and what
\* it wrote before stays.
StatementFails(p) ==
    /\ crashes < MaxCrashes
    /\ req[p].pc \notin {"idle", "reply", "claimReply"}
    /\ Finish(p)
    /\ crashes' = crashes + 1
    /\ cut' = cut \union HalfClaimed({p})
    /\ UNCHANGED <<user, sess, owner, run, lock, cookie, sweep>>

\* requests and a running cleanup end with the process; the rows stay
Restart ==
    /\ crashes < MaxCrashes
    /\ sweep # {} \/ \E p \in Reqs : req[p].pc # "idle"
    /\ crashes' = crashes + 1
    /\ req' = [p \in Reqs |-> Idle]
    /\ sweep' = {}
    /\ cut' = cut \union HalfClaimed(Reqs)
    /\ UNCHANGED <<user, sess, owner, run, lock, cookie>>

----------------------------------------------------------------------------
RequestStep(p) ==
    \/ EnsureNewSession(p) \/ InsertTrip(p) \/ SetSessionTrip(p) \/ Reply(p)
    \/ CheckRun(p) \/ InsertRun(p) \/ CountRun(p)
    \/ ClaimTrips(p) \/ ClaimRuns(p)
    \/ ClaimSession(p) \/ ClaimUser(p) \/ ClaimReply(p)

NewRequest(p) ==
    \/ CreateWithSession(p) \/ EnsureNewUser(p) \/ ClaimLoad(p)
    \/ \E scope \in Scopes : LoadForRun(p, scope)

Next ==
    \/ \E p \in Reqs : NewRequest(p) \/ RequestStep(p)
    \/ \E r \in Runs : BuildEnds(r)
    \/ \E t \in Trips : LockExpires(t)
    \/ \E g \in Guests : SessionExpires(g) \/ GraceEnds(g)
    \/ CleanupSelect \/ CleanupDelete \/ Restart
    \/ \E p \in Reqs : InsertRunUnqueued(p) \/ StatementFails(p)

\* The handlers run to their end, the cleanup timer fires again and again, and time
\* passes; nobody has to send a request, and nothing has to crash.
Fairness ==
    /\ WF_vars(CleanupSelect) /\ WF_vars(CleanupDelete)
    /\ \A p \in Reqs : WF_vars(RequestStep(p))
    /\ \A g \in Guests : WF_vars(GraceEnds(g)) /\ WF_vars(SessionExpires(g))

Spec == Init /\ [][Next]_vars /\ Fairness

----------------------------------------------------------------------------
(* Properties *)

\* The rows of guests, sessions, trips and builds, and what the cleanup has selected.
TypeOK ==
    /\ user \in [Guests -> {"none", "swept", "claimed"} \union Present]
    /\ sess \in [Guests -> [st : {"none", "live", "expired"}, trip : Trips \union {None},
                            full : 0..Cardinality(Runs), partial : 0..Cardinality(Runs)]]
    /\ owner \in [Trips -> Guests \union {Account, None, "deleted"}]
    /\ run \in [Runs -> [st : {"unborn", "active", "done", "deleted"},
                         trip : Trips \union {None}, scope : Scopes,
                         user : Guests \union {Account, None}, by : Guests \union {None},
                         late : BOOLEAN]]
    /\ lock \in [Trips -> BOOLEAN]
    /\ cookie \in Guests \union {None}
    /\ sweep \in SUBSET Guests
    /\ crashes \in 0..MaxCrashes
    /\ cut \subseteq Guests

StartedBy(g, scope) ==
    {r \in Runs : run[r].by = g /\ run[r].scope = scope /\ run[r].st # "unborn"}

\* The limit is checked on a copy of the session row and counted only after the build was
\* created: overlapping requests can pass it together, but no more builds are started above
\* it than there are other requests in flight.
OverrunIsBounded ==
    crashes = 0 => \A g \in Guests :
        /\ Cardinality(StartedBy(g, "full")) < FullLimit + Cardinality(Reqs)
        /\ Cardinality(StartedBy(g, "routes")) < PartialLimit + Cardinality(Reqs)

\* A claimed trip stays with the account, and its builds are not deleted with the guest:
\* not by another claim, not by the cleanup.  A build is lost only if a request created it
\* for an owner it had read before the claim (startRun against transferGuestUserData), or
\* if the guest is removed while a claim of it is between the trips and the builds, or
\* after one ended there.
ClaimedStays ==
    [][ /\ \A t \in Trips : owner[t] = Account => owner'[t] = Account
        /\ \A r \in Runs :
             run[r].st \in {"active", "done"} /\ owner[run[r].trip] = Account =>
               \/ run'[r].st # "deleted"
               \/ run[r].late
               \/ run[r].user \in cut \union HalfClaimed(Reqs) ]_vars

\* The cleanup never removes a guest whose session is live, nor one that a request has
\* just inserted and is about to give a session (the orphan grace of guestCleanup.ts).
CleanupSparesLive ==
    [][ \A g \in Guests : user[g] \in Present /\ user'[g] = "swept" =>
          /\ ~Live(g)
          /\ \A p \in Reqs : ~(req[p].g = g /\ req[p].pc = "insertSession") ]_vars

\* Every guest is removed in the end, by a claim or by the cleanup: also the one whose
\* claim was cut off between the delete of its session and the delete of its user.
GuestsAreRemoved ==
    \A g \in Guests : user[g] \in Present ~> user[g] \in {"swept", "claimed"}
=============================================================================
