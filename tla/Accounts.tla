------------------------------ MODULE Accounts ------------------------------
(***************************************************************************)
(* One account: how it comes to be (password or Google), how its email is  *)
(* confirmed, the sessions of a browser, the settings of its LLM key and   *)
(* the part of a run's start that they decide.  Every handler is a row of  *)
(* database calls with other handlers in between; the account is that of   *)
(* one email, which two Google accounts may claim (an address that moved   *)
(* from one to the other).                                                 *)
(*                                                                         *)
(* The quota of a run is RunQuota: a request asks it with its own name.    *)
(***************************************************************************)
EXTENDS RunQuota

CONSTANTS
    Subs,            \* Google accounts with this email: positive numbers
    LlmKeys,         \* positive numbers
    MaxRequests      \* bound on the requests of a behaviour

ASSUME AccountsAssumption ==
    /\ {"free", "full"} \subseteq Buckets
    /\ Subs \subseteq Nat \ {0}
    /\ LlmKeys \subseteq Nat \ {0}
    /\ MaxRequests \in Nat

VARIABLES
    user,       \* the row of users
    settings,   \* the row of user_settings; a missing row reads like the default
    sessions,   \* rows of auth_sessions: [id, age]
    issued,     \* sessions made so far
    touches,    \* sessions whose touch was started and not awaited
    cookie,     \* the browser's session; 0 is none
    tokens,     \* confirmation tokens made so far
    letters,    \* tokens in letters that were sent
    req,        \* requests
    requests,   \* requests made so far
    overlapped  \* two changes of the settings ran at once (history)

accountVars == <<user, settings, sessions, issued, touches, cookie, tokens, letters>>
vars == <<accountVars, req, requests, overlapped, quotaVars>>

NoUser == [on |-> FALSE, pw |-> FALSE, sub |-> 0, verified |-> FALSE, token |-> 0,
           recent |-> FALSE]
NoSettings == [mode |-> "none", key |-> 0]

\* op: the handler; at: its next step; sess: the cookie it came with; bearer: it has a JWT;
\* set: its answer has a Set-Cookie for the session sess.
Idle == [op |-> "none", at |-> "idle", sess |-> 0, bearer |-> FALSE, sub |-> 0, key |-> 0,
         token |-> 0, mode |-> "same", old |-> NoSettings, set |-> FALSE]

Private == {"me", "resend", "save", "remove", "start"}
Modes == {"none", "platform", "byok"}
AskedModes == Modes \union {"same"}   \* the field may be left out

Init ==
    /\ user \in {NoUser, [NoUser EXCEPT !.on = TRUE, !.pw = TRUE]}
    /\ settings \in IF user.on THEN {[mode |-> "byok", key |-> k] : k \in LlmKeys}
                    ELSE {NoSettings}
    /\ sessions = (IF user.on THEN {[id |-> 1, age |-> "fresh"]} ELSE {})
    /\ issued = (IF user.on THEN 1 ELSE 0)
    /\ touches = {}
    /\ cookie = issued
    /\ tokens = 0
    /\ letters = {}
    /\ req = [r \in Requests |-> Idle]
    /\ requests = 0
    /\ overlapped = FALSE
    /\ QuotaInit

Ids(S) == {s.id : s \in S}

Go(r, next) == req' = [req EXCEPT ![r] = next]
GoTo(r, at) == Go(r, [req[r] EXCEPT !.at = at])
Done(r) == Go(r, Idle)
At(r, op, at) == req[r].op = op /\ req[r].at = at

Same == UNCHANGED <<requests, overlapped, quotaVars>>

Send(r, msg) ==
    /\ req[r] = Idle
    /\ requests < MaxRequests
    /\ requests' = requests + 1
    /\ Go(r, msg)
    /\ UNCHANGED <<accountVars, overlapped, quotaVars>>

\* A JWT is tried with the request that does nothing else, the cookie alone with the
\* others; a request that is refused at once because it has neither is left out.
NewRequest(r) ==
    \/ \E op \in Private, jwt \in BOOLEAN : \E m \in AskedModes, k \in LlmKeys \union {0} :
         /\ op # "save" => m = "same" /\ k = 0
         /\ k # 0 => m \in {"byok", "same"}
         /\ jwt <=> op = "me"
         /\ IF jwt THEN user.on ELSE cookie # 0
         /\ Send(r, [Idle EXCEPT !.op = op, !.at = "auth", !.sess = cookie, !.bearer = jwt,
                                 !.mode = m, !.key = k])
    \/ \E op \in {"register", "login", "logout"} :
         /\ op = "logout" => cookie # 0
         /\ Send(r, [Idle EXCEPT !.op = op, !.at = op, !.sess = cookie])
    \/ \E s \in Subs :
         /\ \A t \in Subs : t < s => t \in {user.sub} \union {req[q].sub : q \in Requests}
         /\ Send(r, [Idle EXCEPT !.op = "google", !.at = "bySub", !.sub = s])
    \/ \E t \in letters :
         Send(r, [Idle EXCEPT !.op = "verify", !.at = "verify", !.token = t])

-----------------------------------------------------------------------------
(* Sessions *)

FirstStep(op) ==
    CASE op = "resend" -> "look" [] op = "save" -> "check" [] op = "remove" -> "read"
      [] op = "start" -> "mode" [] OTHER -> "reply"

\* (mutant) the days of a session are not looked at
AuthAtAnyAge(r) ==
    LET row == {s \in sessions : s.id = req[r].sess}
    IN  /\ req[r].at = "auth"
        /\ touches' = touches \union {s.id : s \in row}
        /\ IF row # {} THEN GoTo(r, FirstStep(req[r].op))
           ELSE IF ~req[r].bearer THEN Done(r)
           ELSE IF req[r].sess # 0 THEN GoTo(r, FirstStep(req[r].op))
           ELSE GoTo(r, "issueJwt")
        /\ UNCHANGED <<user, settings, sessions, issued, cookie, tokens, letters>>
        /\ Same

\* requireAuth and loadAuthSession: a valid session is touched in the background; an
\* expired one is deleted; without a session the JWT counts, and it brings a cookie to
\* a browser that has none.
Auth(r) ==
    LET row == {s \in sessions : s.id = req[r].sess}
        live == \E s \in row : s.age # "expired"
    IN  /\ req[r].at = "auth"
        /\ IF live
           THEN /\ touches' = touches \union {req[r].sess}
                /\ GoTo(r, FirstStep(req[r].op))
           ELSE /\ UNCHANGED touches
                /\ IF row # {} THEN GoTo(r, "expired")
                   ELSE IF ~req[r].bearer THEN Done(r)
                   ELSE IF req[r].sess # 0 THEN GoTo(r, FirstStep(req[r].op))
                   ELSE GoTo(r, "issueJwt")
        /\ UNCHANGED <<user, settings, sessions, issued, cookie, tokens, letters>>
        /\ Same

\* deleteAuthSessionById
DropExpired(r) ==
    /\ req[r].at = "expired"
    /\ sessions' = {s \in sessions : s.id # req[r].sess}
    /\ IF req[r].bearer THEN GoTo(r, FirstStep(req[r].op)) ELSE Done(r)
    /\ UNCHANGED <<user, settings, issued, touches, cookie, tokens, letters>>
    /\ Same

\* touchAuthSession.  Only a session not seen for an hour is written: one seen since is
\* fresh and stays so, and one whose days have passed was not seen for long, so at these
\* two ages the condition changes nothing.
Touch(i) ==
    /\ i \in touches
    /\ touches' = touches \ {i}
    /\ sessions' = {IF s.id = i THEN [s EXCEPT !.age = "fresh"] ELSE s : s \in sessions}
    /\ UNCHANGED <<user, settings, issued, cookie, tokens, letters, req>>
    /\ Same

\* issueAuthSession
Issue(r) ==
    /\ req[r].at \in {"issue", "issueJwt"}
    /\ issued' = issued + 1
    /\ sessions' = sessions \union {[id |-> issued + 1, age |-> "fresh"]}
    /\ Go(r, [req[r] EXCEPT !.sess = issued + 1, !.set = TRUE,
                            !.at = IF @ = "issue" THEN "reply" ELSE FirstStep(req[r].op)])
    /\ UNCHANGED <<user, settings, touches, cookie, tokens, letters>>
    /\ Same

\* The browser gets the answer, with a Set-Cookie if a session was made.
Reply(r) ==
    /\ req[r].at = "reply"
    /\ cookie' = IF req[r].set THEN req[r].sess ELSE cookie
    /\ Done(r)
    /\ UNCHANGED <<user, settings, sessions, issued, touches, tokens, letters>>
    /\ Same

\* destroyAuthSession
Logout(r) ==
    /\ At(r, "logout", "logout")
    /\ sessions' = {s \in sessions : s.id # req[r].sess}
    /\ GoTo(r, "clear")
    /\ UNCHANGED <<user, settings, issued, touches, cookie, tokens, letters>>
    /\ Same

ClearCookie(r) ==
    /\ At(r, "logout", "clear")
    /\ cookie' = 0
    /\ Done(r)
    /\ UNCHANGED <<user, settings, sessions, issued, touches, tokens, letters>>
    /\ Same

\* The days of its life pass for a session that somebody still holds.
Ages(s) ==
    /\ s.age # "expired"
    /\ s.id \in {cookie} \union touches \union {req[r].sess : r \in Requests}
    /\ sessions' = (sessions \ {s}) \union {[s EXCEPT !.age = "expired"]}
    /\ UNCHANGED <<user, settings, issued, touches, cookie, tokens, letters, req>>
    /\ Same

\* deleteExpiredAuthSessions, by the guest cleanup
Cleanup ==
    /\ \E s \in sessions : s.age = "expired"
    /\ sessions' = {s \in sessions : s.age # "expired"}
    /\ UNCHANGED <<user, settings, issued, touches, cookie, tokens, letters, req>>
    /\ Same

-----------------------------------------------------------------------------
(* The account *)

OnlyUser == UNCHANGED <<settings, sessions, issued, touches, cookie, tokens, letters>> /\ Same
NoWrite == UNCHANGED accountVars /\ Same

RegisterLook(r) ==
    /\ At(r, "register", "register")
    /\ IF user.on THEN Done(r) ELSE GoTo(r, "insert")
    /\ NoWrite

\* The email is unique: who is second gets an error.
Insert(r) ==
    LET new == [NoUser EXCEPT !.on = TRUE, !.pw = req[r].op = "register", !.sub = req[r].sub,
                              !.verified = req[r].op = "google"]
    IN  /\ req[r].at = "insert"
        /\ IF user.on THEN user' = user /\ Done(r)
           ELSE user' = new /\ GoTo(r, IF new.pw THEN "token" ELSE "issue")
        /\ OnlyUser

Login(r) ==
    /\ At(r, "login", "login")
    /\ IF user.pw THEN GoTo(r, "issue") ELSE Done(r)
    /\ NoWrite

\* setEmailVerifyToken; also the second half of a resend.
SetToken(r) ==
    /\ req[r].at = "token"
    /\ tokens' = tokens + 1
    /\ user' = [user EXCEPT !.token = tokens + 1, !.recent = TRUE]
    /\ Go(r, [req[r] EXCEPT !.token = tokens + 1, !.at = "mail"])
    /\ UNCHANGED <<settings, sessions, issued, touches, cookie, letters>>
    /\ Same

\* A registration goes on when the mail fails; a resend answers with the error.
Mail(r) ==
    /\ req[r].at = "mail"
    /\ letters' \in {letters, letters \union {req[r].token}}
    /\ GoTo(r, IF req[r].op = "register" THEN "issue" ELSE "reply")
    /\ UNCHANGED <<user, settings, sessions, issued, touches, cookie, tokens>>
    /\ Same

\* resendEmailVerification reads the user, then the time of the last letter.
ResendLook(r) ==
    /\ At(r, "resend", "look")
    /\ GoTo(r, IF user.verified THEN "reply" ELSE "cooldown")
    /\ NoWrite

ResendCooldown(r) ==
    /\ At(r, "resend", "cooldown")
    /\ GoTo(r, IF user.recent THEN "reply" ELSE "token")
    /\ NoWrite

CooldownEnds ==
    /\ user.recent
    /\ user' = [user EXCEPT !.recent = FALSE]
    /\ UNCHANGED req
    /\ OnlyUser

\* markEmailVerifiedByToken: one statement.
Verify(r) ==
    LET fits == user.on /\ ~user.verified /\ user.token = req[r].token
    IN  /\ At(r, "verify", "verify")
        /\ user' = IF fits THEN [user EXCEPT !.verified = TRUE, !.token = 0] ELSE user
        /\ IF fits THEN GoTo(r, "issue") ELSE Done(r)
        /\ OnlyUser

\* loginOrLinkGoogle
GoogleBySub(r) ==
    /\ At(r, "google", "bySub")
    /\ GoTo(r, IF user.on /\ user.sub = req[r].sub THEN "mark" ELSE "byEmail")
    /\ NoWrite

GoogleMark(r) ==
    /\ At(r, "google", "mark")
    /\ user' = [user EXCEPT !.verified = TRUE, !.token = 0]
    /\ GoTo(r, "issue")
    /\ OnlyUser

GoogleByEmail(r) ==
    /\ At(r, "google", "byEmail")
    /\ IF user.on /\ user.sub \notin {0, req[r].sub} THEN Done(r)
       ELSE GoTo(r, IF ~user.on THEN "insert"
                    ELSE IF user.sub = 0 THEN "link" ELSE "issue")
    /\ NoWrite

GoogleLink(r) ==
    /\ At(r, "google", "link")
    /\ user' = [user EXCEPT !.sub = req[r].sub, !.verified = TRUE]
    /\ GoTo(r, "issue")
    /\ OnlyUser

-----------------------------------------------------------------------------
(* The settings, and the start of a run *)

Changing(r) == req[r].op \in {"save", "remove"} /\ req[r].at \in {"read", "write"}

\* A change of the settings begins or goes on while another one is under way.
NoteOverlap(r) ==
    /\ overlapped' = (overlapped \/ \E q \in Requests \ {r} : Changing(q))
    /\ UNCHANGED <<requests, quotaVars>>

\* (mutant) the mode is saved without a look at the key
SaveUnchecked(r) ==
    /\ At(r, "save", "check")
    /\ GoTo(r, "read")
    /\ NoteOverlap(r)
    /\ UNCHANGED accountVars

\* saveLlmSettings: a mode of one's own key needs a key, sent or saved before.
SaveCheck(r) ==
    /\ At(r, "save", "check")
    /\ IF req[r].mode = "byok" /\ req[r].key = 0 /\ settings.key = 0
       THEN Done(r) /\ UNCHANGED <<overlapped, requests, quotaVars>>
       ELSE GoTo(r, "read") /\ NoteOverlap(r)
    /\ UNCHANGED accountVars

\* upsertUserSettings reads the row and writes all of it.
ReadSettings(r) ==
    /\ req[r].at = "read"
    /\ Go(r, [req[r] EXCEPT !.at = "write", !.old = settings])
    /\ NoteOverlap(r)
    /\ UNCHANGED accountVars

WriteSettings(r) ==
    LET old == req[r].old
    IN  /\ req[r].at = "write"
        /\ settings' =
             IF req[r].op = "remove"
             THEN [mode |-> IF old.mode = "byok" THEN "none" ELSE old.mode, key |-> 0]
             ELSE [mode |-> IF req[r].mode = "same" THEN old.mode ELSE req[r].mode,
                   key |-> IF req[r].key = 0 THEN old.key ELSE req[r].key]
        /\ GoTo(r, "reply")
        /\ UNCHANGED <<user, sessions, issued, touches, cookie, tokens, letters>>
        /\ NoteOverlap(r)

\* assertCanStartRun reads the mode and then the key.
StartMode(r) ==
    /\ At(r, "start", "mode")
    /\ GoTo(r, CASE settings.mode = "none" -> "charge" [] settings.mode = "byok" -> "key"
                 [] OTHER -> "reply")
    /\ NoWrite

StartKey(r) ==
    /\ At(r, "start", "key")
    /\ GoTo(r, IF settings.key = 0 THEN "reply" ELSE "charge")
    /\ NoWrite

\* startRun reads the mode again and asks the quota it names.
StartCharge(r) ==
    /\ At(r, "start", "charge")
    /\ Ask(r, IF settings.mode = "none" THEN "free" ELSE "full")
    /\ GoTo(r, "quota")
    /\ UNCHANGED <<accountVars, requests, overlapped>>

StartEnd(r) ==
    /\ At(r, "start", "quota")
    /\ Return(r)
    /\ GoTo(r, "reply")
    /\ UNCHANGED <<accountVars, requests, overlapped>>

\* Slots are counted from the first one that a run was asked in.
Redis ==
    /\ \/ \E r \in Requests : Incr(r) \/ SetTtl(r) \/ Decr(r)
       \/ (\E k \in Keys : count[k] # 0) /\ NextSlot
       \/ \E k \in Keys : KeyExpires(k)
    /\ UNCHANGED <<accountVars, req, requests, overlapped>>

\* The API process restarts: requests and background touches are gone.
Restart ==
    /\ \E r \in Requests : req[r] # Idle
    /\ req' = [r \in Requests |-> Idle]
    /\ touches' = {}
    /\ asking' = [r \in Requests |-> NotAsking]
    /\ UNCHANGED <<user, settings, sessions, issued, cookie, tokens, letters, requests,
                   overlapped, slot, count, ttl, gone, granted>>

-----------------------------------------------------------------------------

Next ==
    \/ \E r \in Requests :
         \/ NewRequest(r) \/ Auth(r) \/ DropExpired(r) \/ Issue(r) \/ Reply(r)
         \/ Logout(r) \/ ClearCookie(r)
         \/ RegisterLook(r) \/ Insert(r) \/ Login(r) \/ SetToken(r) \/ Mail(r)
         \/ ResendLook(r) \/ ResendCooldown(r) \/ Verify(r)
         \/ GoogleBySub(r) \/ GoogleMark(r) \/ GoogleByEmail(r) \/ GoogleLink(r)
         \/ SaveCheck(r) \/ ReadSettings(r) \/ WriteSettings(r)
         \/ StartMode(r) \/ StartKey(r) \/ StartCharge(r) \/ StartEnd(r)
    \/ \E i \in touches : Touch(i)
    \/ \E s \in sessions : Ages(s)
    \/ Cleanup
    \/ CooldownEnds
    \/ Redis
    \/ Restart

Spec == Init /\ [][Next]_vars

-----------------------------------------------------------------------------
(* Properties *)

\* The rows and what the browser and the requests hold.
TypeOK ==
    /\ QuotaTypeOK
    /\ user \in [on : BOOLEAN, pw : BOOLEAN, sub : Subs \union {0}, verified : BOOLEAN,
                 token : 0..tokens, recent : BOOLEAN]
    /\ settings \in [mode : Modes, key : LlmKeys \union {0}]
    /\ sessions \subseteq [id : 1..issued, age : {"fresh", "expired"}]
    /\ touches \subseteq 1..issued
    /\ cookie \in 0..issued
    /\ letters \subseteq 1..tokens
    /\ \A r \in Requests : asking[r].at # "no" => At(r, "start", "quota")
    /\ requests \in 0..MaxRequests
    /\ overlapped \in BOOLEAN

\* The settings are in the mode of one's own key only with a key, unless two changes
\* of them ran at once: a removal between the check and the write of a save leaves the
\* mode without a key, and a key read before the removal comes back.
ByokHasKey == overlapped \/ (settings.mode = "byok" => settings.key # 0)

\* A session has ended when its row is gone (a logout, the cleanup, a request that found
\* it too old), or when the row is too old and no request that found it alive is about
\* to touch it.
Ended(i) == \A s \in sessions : s.id = i => s.age = "expired" /\ i \notin touches

\* What ended stays so: a touch on its way never brings back a row that is gone, and no
\* request, however late, starts a touch of an expired one.  A touch started in time may
\* come after the age, and then the session goes on: the UPDATE does not look at it.
EndedStaysEnded == [][\A i \in 1..issued : Ended(i) => Ended(i)']_vars

=============================================================================
