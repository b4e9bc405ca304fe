------------------------------ MODULE Sessions ------------------------------
(***************************************************************************)
(* Sessions and passwords: AuthService.login, refreshToken, logout,        *)
(* forgotPassword and resetPassword, JwtStrategy.validate, and the         *)
(* handlers of UserService that write a password (changePassword,          *)
(* adminResetPassword, adminUpdateUser) and then turn away the tokens      *)
(* signed before.                                                          *)
(*                                                                         *)
(* A token says who was signed in and in which second, no more: two        *)
(* signatures of one second are one token.  Redis is up or down and keeps  *)
(* its keys.  A request is a handler in flight with one action per awaited *)
(* call.  A password is the number of the write that set it; whoever types *)
(* one types a right one, the others being turned away at once.  Who may   *)
(* sign in at all (Verification) and the throttling of requests are left   *)
(* out, and so is the removal of users: no id is reused.                   *)
(***************************************************************************)
EXTENDS Integers, FiniteSets

CONSTANTS
  Requests,    \* handlers that can be in flight together
  Users,
  Links,       \* links that forgotPassword mails, all different
  Lifetime,    \* seconds a token is good for
  MaxTime,     \* bound: the clock, in seconds
  MaxChanges,  \* bound: passwords a user gets after the first
  MaxIssued,   \* bound: signatures
  Faults,      \* what may go wrong outside the handlers
  NULL

AllFaults == {"crash",   \* the Node process restarts
              "error",   \* a query fails
              "redis"}   \* Redis is unavailable for a while

ASSUME SessionsConstants ==
  /\ Lifetime \in Nat \ {0}
  /\ MaxTime \in Nat /\ MaxChanges \in Nat /\ MaxIssued \in Nat
  /\ Faults \subseteq AllFaults
  /\ NULL \notin Users \cup Links \cup Int

VARIABLES
  now,        \* the clock
  password,   \* User.password by id
  up,         \* is Redis available?
  blacklist,  \* Redis: blacklist:<token>, with the time it expires
  mark,       \* Redis: auth:password-reset-after:<id>, likewise
  link,       \* Redis: reset-password:<hash of the link>, the user it is for
  req,        \* the handlers in flight
  issued,     \* the signatures that have not expired, and what each rests on
  out,        \* history: the tokens that were logged out and have not expired
  unmarked,   \* history: users whose last password has no mark of its own
  spent       \* history: "yes" once a link wrote a password or is gone

vars == <<now, password, up, blacklist, mark, link, req, issued,
          out, unmarked, spent>>
redis == <<up, blacklist, mark, link>>
histories == <<out, unmarked, spent>>

Optional(S) == S \cup {NULL}
Time == 0..MaxTime
Password == 0..MaxChanges
Token == [user : Users, iat : Time]

(* password: the one that was typed for this session.  late: it was checked*)
(* before the mark was set and signed after, or refreshes such a session.  *)
(* early: signed after the password was written and before it was marked.  *)
Signature == [token : Token, password : Password, late : BOOLEAN,
              early : BOOLEAN]

Mark == [at : Time, until : Nat]
Entry == [token : Token, until : Nat]

ASSUME NoMark == NULL \notin Mark

Pc == {"idle",
       "sign",                               \* login, refreshToken
       "guard",                              \* JwtStrategy.validate
       "change", "reset", "forget", "mark"}  \* the writers of a password

(* late: a mark was set meanwhile.                                         *)
Handler == [pc : Pc, user : Optional(Users), token : Optional(Token),
            password : Optional(Password), link : Optional(Links),
            late : BOOLEAN]

Idle == [pc |-> "idle", user |-> NULL, token |-> NULL, password |-> NULL,
         link |-> NULL, late |-> FALSE]

At(r, pc) == req[r].pc = pc
Become(r, handler) == req' = [req EXCEPT ![r] = handler]
Return(r) == Become(r, Idle)

Init ==
  /\ now = 0
  /\ password = [u \in Users |-> 0]
  /\ up = TRUE
  /\ blacklist = {}
  /\ mark = [u \in Users |-> NULL]
  /\ link = [l \in Links |-> NULL]
  /\ req = [r \in Requests |-> Idle]
  /\ issued = {}
  /\ out = {}
  /\ unmarked = {}
  /\ spent = [l \in Links |-> "no"]

-----------------------------------------------------------------------------
(* Tokens                                                                  *)

Tokens == {s.token : s \in issued}
Expired(token) == now >= token.iat + Lifetime

Blacklisted(token) == \E e \in blacklist : e.token = token

(* Wrong: a token of the mark's own second is turned away too.             *)
BugBeforeMark(token) ==
  LET m == mark[token.user] IN
  m # NULL /\ token.iat <= m.at

BeforeMark(token) ==
  LET m == mark[token.user] IN
  m # NULL /\ token.iat < m.at

(* History: the present mark does not end the session, which was begun or  *)
(* checked in its very second, before it or with Redis down.               *)
Excused(token) ==
  \/ mark[token.user] # NULL /\ mark[token.user].at = token.iat
  \/ \E s \in issued : s.token = token /\ s.late

(* JwtStrategy.validate lets everything pass that Redis does not refuse.   *)
Accepted(token) ==
  /\ ~Expired(token)
  /\ up => ~Blacklisted(token) /\ ~BeforeMark(token)

-----------------------------------------------------------------------------
(* login and refreshToken                                                  *)

LoginRead(r, u) ==
  /\ At(r, "idle")
  /\ Become(r, [Idle EXCEPT !.pc = "sign", !.user = u,
                            !.password = password[u]])
  /\ UNCHANGED <<now, password, redis, issued, histories>>

(* A writer of u's password has yet to set its mark.                       *)
MarkDue(u) ==
  \E q \in Requests : req[q].pc \in {"forget", "mark"} /\ req[q].user = u

(* Wrong: the second is rounded up.                                        *)
BugSigned(h) ==
  [token |-> [user |-> h.user, iat |-> IF now < MaxTime THEN now + 1 ELSE now],
   password |-> h.password, late |-> h.late, early |-> MarkDue(h.user)]

Signed(h) ==
  [token |-> [user |-> h.user, iat |-> now], password |-> h.password,
   late |-> h.late, early |-> MarkDue(h.user)]

Sign(r) ==
  /\ At(r, "sign")
  /\ Cardinality(issued) < MaxIssued
  /\ issued' = issued \cup {Signed(req[r])}
  /\ Return(r)
  /\ UNCHANGED <<now, password, redis, histories>>

-----------------------------------------------------------------------------
(* JwtStrategy.validate, and what the guarded routes go on to do           *)

(* The expiry, then the blacklist.                                         *)
GuardBlacklist(r, s) ==
  /\ At(r, "idle")
  /\ s \in issued
  /\ ~Expired(s.token)
  /\ up => ~Blacklisted(s.token)
  /\ Become(r, [Idle EXCEPT !.pc = "guard", !.token = s.token,
                            !.user = s.token.user, !.password = s.password,
                            !.late = Excused(s.token)])
  /\ UNCHANGED <<now, password, redis, issued, histories>>

(* Wrong: only the signature, the expiry and the blacklist are checked.    *)
BugPassesMark(r) == At(r, "guard")

(* Then the mark.                                                          *)
PassesMark(r) == At(r, "guard") /\ (up => ~BeforeMark(req[r].token))

Refresh(r) ==
  /\ PassesMark(r)
  /\ Become(r, [req[r] EXCEPT !.pc = "sign", !.token = NULL,
                              !.late = @ \/ ~up \/ Excused(req[r].token)])
  /\ UNCHANGED <<now, password, redis, issued, histories>>

Change(r) ==
  /\ PassesMark(r)
  /\ Become(r, [Idle EXCEPT !.pc = "change", !.user = req[r].user])
  /\ UNCHANGED <<now, password, redis, issued, histories>>

(* Wrong: the entry is gone one second too early.                          *)
BugTtl(token) == token.iat + Lifetime - now - 1

Ttl(token) == token.iat + Lifetime - now

(* logout, which blacklists the token for what is left of its life.        *)
Logout(r) ==
  LET token == req[r].token IN
  /\ PassesMark(r)
  /\ up
  /\ blacklist' = IF Ttl(token) > 0
                  THEN blacklist \cup {[token |-> token, until |-> now + Ttl(token)]}
                  ELSE blacklist
  /\ out' = out \cup {token}
  /\ Return(r)
  /\ UNCHANGED <<now, password, up, mark, link, issued, unmarked, spent>>

-----------------------------------------------------------------------------
(* The writers of a password.  What changePassword, adminResetPassword and *)
(* adminUpdateUser read first only rejects and is part of their write.     *)

(* forgotPassword stores the link and then mails it.                       *)
Forgot(l, u) ==
  /\ up
  /\ link[l] = NULL /\ spent[l] = "no"
  /\ link' = [link EXCEPT ![l] = u]
  /\ UNCHANGED <<now, password, up, blacklist, mark, req, issued, histories>>

(* resetPassword                                                           *)
ResetRead(r, l) ==
  /\ At(r, "idle")
  /\ up
  /\ link[l] # NULL
  /\ Become(r, [Idle EXCEPT !.pc = "reset", !.user = link[l], !.link = l])
  /\ UNCHANGED <<now, password, redis, issued, histories>>

WriteFor(u) ==
  /\ password[u] < MaxChanges
  /\ password' = [password EXCEPT ![u] = @ + 1]
  /\ unmarked' = unmarked \cup {u}

ResetWrite(r) ==
  LET h == req[r] IN
  /\ At(r, "reset")
  /\ WriteFor(h.user)
  /\ spent' = [spent EXCEPT ![h.link] = IF @ = "no" THEN "yes" ELSE @]
  /\ Become(r, [h EXCEPT !.pc = "forget"])
  /\ UNCHANGED <<now, redis, issued, out>>

ChangeWrite(r) ==
  /\ At(r, "change")
  /\ WriteFor(req[r].user)
  /\ Become(r, [Idle EXCEPT !.pc = "mark", !.user = req[r].user])
  /\ UNCHANGED <<now, redis, issued, out, spent>>

AdminWrite(r, u) ==
  /\ At(r, "idle")
  /\ WriteFor(u)
  /\ Become(r, [Idle EXCEPT !.pc = "mark", !.user = u])
  /\ UNCHANGED <<now, redis, issued, out, spent>>

ResetForget(r) ==
  LET l == req[r].link IN
  /\ At(r, "forget")
  /\ up
  /\ link' = [link EXCEPT ![l] = NULL]
  /\ spent' = [spent EXCEPT ![l] = "yes"]
  /\ Become(r, [req[r] EXCEPT !.pc = "mark", !.link = NULL])
  /\ UNCHANGED <<now, password, up, blacklist, mark, issued, out, unmarked>>

(* markUserTokensAsInvalidBefore, for as long as a token lives.            *)
MarkFrom(time) == [at |-> time, until |-> time + Lifetime]

SetMark(r) ==
  LET u == req[r].user IN
  /\ At(r, "mark")
  /\ up
  /\ mark' = [mark EXCEPT ![u] = MarkFrom(now)]
  /\ unmarked' = unmarked \ {u}
  /\ req' = [q \in Requests |->
               IF q = r THEN Idle
               ELSE IF req[q].user = u /\ req[q].pc \in {"sign", "guard"}
               THEN [req[q] EXCEPT !.late = TRUE]
               ELSE req[q]]
  /\ UNCHANGED <<now, password, up, blacklist, link, issued, out, spent>>

-----------------------------------------------------------------------------
(* The clock, Redis and failures                                           *)

(* Two answers of Redis come faster than a token's life goes by: no request*)
(* is still being checked a second after its token expired.  Redis drops   *)
(* the keys that expire.                                                   *)
Tick ==
  /\ now < MaxTime
  /\ \A r \in Requests : At(r, "guard") => ~Expired(req[r].token)
  /\ now' = now + 1
  /\ blacklist' = {e \in blacklist : now' < e.until}
  /\ mark' = [u \in Users |->
               IF mark[u] # NULL /\ now' < mark[u].until THEN mark[u] ELSE NULL]
  /\ issued' = {s \in issued : now' < s.token.iat + Lifetime}
  /\ out' = {token \in out : now' < token.iat + Lifetime}
  /\ UNCHANGED <<password, up, link, req, unmarked, spent>>

LinkExpires(l) ==
  /\ link[l] # NULL
  /\ link' = [link EXCEPT ![l] = NULL]
  /\ spent' = [spent EXCEPT ![l] = "yes"]
  /\ UNCHANGED <<now, password, up, blacklist, mark, req, issued, out, unmarked>>

RedisDown ==
  /\ "redis" \in Faults
  /\ up' = ~up
  /\ UNCHANGED <<now, password, blacklist, mark, link, req, issued, histories>>

(* The links the handlers in Q wrote a password with and will not delete.  *)
Keep(Q) ==
  [l \in Links |-> IF \E q \in Q : At(q, "forget") /\ req[q].link = l
                   THEN "kept" ELSE spent[l]]

Refuse(r) ==
  /\ req[r].pc \in {"guard", "change"}
  /\ Return(r)
  /\ UNCHANGED <<now, password, redis, issued, histories>>

Error(r) ==
  /\ \/ "error" \in Faults /\ req[r].pc \in {"change", "reset"}
     \/ ~up /\ req[r].pc \in {"forget", "mark"}
  /\ spent' = Keep({r})
  /\ Return(r)
  /\ UNCHANGED <<now, password, redis, issued, out, unmarked>>

Crash ==
  /\ "crash" \in Faults
  /\ \E r \in Requests : ~At(r, "idle")
  /\ spent' = Keep(Requests)
  /\ req' = [r \in Requests |-> Idle]
  /\ UNCHANGED <<now, password, redis, issued, out, unmarked>>

-----------------------------------------------------------------------------
Step(r) ==
  \/ \E u \in Users : LoginRead(r, u) \/ AdminWrite(r, u)
  \/ Sign(r)
  \/ \E s \in issued : GuardBlacklist(r, s)
  \/ Refresh(r)
  \/ Change(r)
  \/ Logout(r)
  \/ ChangeWrite(r)
  \/ \E l \in Links : ResetRead(r, l)
  \/ ResetWrite(r)
  \/ ResetForget(r)
  \/ SetMark(r)
  \/ Refuse(r)
  \/ Error(r)

Next ==
  \/ \E r \in Requests : Step(r)
  \/ \E l \in Links, u \in Users : Forgot(l, u)
  \/ \E l \in Links : LinkExpires(l)
  \/ Tick
  \/ RedisDown
  \/ Crash

Spec == Init /\ [][Next]_vars

-----------------------------------------------------------------------------
(* Types; no signature is of a later second or of an unwritten password.   *)
TypeOK ==
  /\ now \in Time
  /\ password \in [Users -> Password]
  /\ up \in BOOLEAN
  /\ blacklist \subseteq Entry
  /\ mark \in [Users -> Optional(Mark)]
  /\ link \in [Links -> Optional(Users)]
  /\ req \in [Requests -> Handler]
  /\ issued \subseteq Signature
  /\ out \subseteq Token
  /\ unmarked \subseteq Users
  /\ spent \in [Links -> {"no", "yes", "kept"}]
  /\ \A s \in issued :
       s.token.iat <= now /\ s.password <= password[s.token.user]

(* A session begun with an earlier password is turned away, whatever       *)
(* changes of the password overlap, unless it was signed in the very second*)
(* of the mark, or by a handler that had checked the earlier password or   *)
(* token before the mark was set, or refreshes such a session or one that  *)
(* passed while Redis was down; or the last password has no mark because   *)
(* its writer is not through or failed.                                    *)
OldSessionsEnd ==
  \A s \in issued :
    /\ up
    /\ s.password < password[s.token.user]
    /\ s.token.user \notin unmarked
    /\ Accepted(s.token)
    => Excused(s.token)

(* A session begun with the present password is not turned away before it  *)
(* expires, unless it began between the write of the password and its mark,*)
(* or a session of the same user and second logged out: it has the same    *)
(* token.                                                                  *)
PresentSessionsLast ==
  \A s \in issued :
    /\ s.password = password[s.token.user]
    /\ ~s.early
    /\ s.token \notin out
    => Accepted(s.token)

(* What was ended stays ended: a token that was logged out is never        *)
(* accepted again while Redis is up, and a link that wrote a password is   *)
(* no longer good, unless its handler is about to delete it or failed to.  *)
EndedForGood ==
  /\ up => \A token \in out : ~Accepted(token)
  /\ \A l \in Links : spent[l] = "yes" /\ link[l] # NULL
       => \E r \in Requests : At(r, "forget") /\ req[r].link = l
=============================================================================
