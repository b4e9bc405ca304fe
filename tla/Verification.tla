--------------------------- MODULE Verification ---------------------------
(***************************************************************************)
(* How an account proves its e-mail address: AuthService.register,         *)
(* sendVerificationCode, verifyCode and updateVerificationEmail, over the  *)
(* User rows, the codes and rate limits RedisService keeps, and the mails  *)
(* MailService sends; and what UserService does to the same rows           *)
(* (adminCreate, adminUpdateUser, remove).                                 *)
(*                                                                         *)
(* A request is a handler in flight with one action per awaited call.  An  *)
(* address is written in lower or in mixed case; register, adminCreate,    *)
(* login and the rate limit lower it, the other handlers take it as given. *)
(* Passwords, tokens and the other unique columns of User are left out.    *)
(* The reads of register and adminCreate that only reject what the unique  *)
(* index would reject are part of their inserts.                           *)
(***************************************************************************)
EXTENDS FiniteSets

CONSTANTS
  Requests,     \* handlers that can be in flight together
  Users,        \* values of the User id sequence
  Emails,       \* spellings of addresses: <<address, case>>
  Codes,        \* verification codes, all different
  Faults,       \* what may go wrong outside the handlers
  NULL

AllFaults == {"crash",      \* the Node process restarts
              "error",      \* a query, Redis or the mail service fails
              "lostMail"}   \* the mail is delivered but its answer is lost

(* toLowerCase                                                             *)
Normal(e) == <<e[1], "lower">>

ASSUME VerificationConstants ==
  /\ Faults \subseteq AllFaults
  /\ Emails \subseteq {e[1] : e \in Emails} \X {"lower", "mixed"}
  /\ \A e \in Emails : Normal(e) \in Emails
  /\ NULL \notin Users \cup Emails \cup Codes

VARIABLES
  user,       \* User rows by id
  code,       \* Redis: verify:email:<email>
  limit,      \* Redis: rate-limit:verification:<action>:<email>
  mailed,     \* the address each code was mailed to
  req,        \* the handlers in flight
  proven,     \* history: where the code that verified a user was mailed
  respelled,  \* history: users whose mixed-case address was written as given
  owed        \* history: the code mailed last, while it has to be accepted

vars == <<user, code, limit, mailed, req, proven, respelled, owed>>
histories == <<proven, respelled, owed>>

Optional(S) == S \cup {NULL}

(* email is NULL unless the row exists; gone: it did, ids are not reused.  *)
User == [email : Optional(Emails), verified : BOOLEAN, gone : BOOLEAN]
NoUser == [email |-> NULL, verified |-> FALSE, gone |-> FALSE]
Gone == [NoUser EXCEPT !.gone = TRUE]

Actions == {"send-code", "update-email"}
Limits == Actions \X Emails

Pc == {"idle", "check", "limit",               \* enforceVerificationRateLimit
       "read", "mail", "store",                \* sendVerificationCode
       "enter", "verify", "forget",            \* verifyCode
       "change", "clear"}                      \* updateVerificationEmail

(* raced: another handler set the limit this one is about to set.          *)
Handler == [pc : Pc, action : Optional(Actions), email : Optional(Emails),
            new : Optional(Emails), user : Optional(Users),
            code : Optional(Codes), raced : BOOLEAN]

Idle == [pc |-> "idle", action |-> NULL, email |-> NULL, new |-> NULL,
         user |-> NULL, code |-> NULL, raced |-> FALSE]

At(r, pc) == req[r].pc = pc
Become(r, handler) == req' = [req EXCEPT ![r] = handler]
Goto(r, pc) == Become(r, [req[r] EXCEPT !.pc = pc])
Return(r) == Become(r, Idle)

Init ==
  /\ user = [u \in Users |-> NoUser]
  /\ code = [e \in Emails |-> NULL]
  /\ limit = {}
  /\ mailed = [c \in Codes |-> NULL]
  /\ req = [r \in Requests |-> Idle]
  /\ proven = [u \in Users |-> NULL]
  /\ respelled = {}
  /\ owed = [e \in Emails |-> NULL]

-----------------------------------------------------------------------------
(* User rows                                                               *)

UsersAt(e) == {u \in Users : user[u].email = e}
Exists(u) == user[u].email # NULL
Unverified(e) == \E u \in UsersAt(e) : ~user[u].verified

(* Wrong: the handlers' own reads are trusted, the column is not unique.   *)
BugFree(e, u) == TRUE

(* The unique index on User.email, which compares exact spellings.         *)
Free(e, u) == UsersAt(e) \subseteq {u}

(* Wrong: the address is stored as it was typed.                           *)
BugCreated(e, byAdmin) ==
  [NoUser EXCEPT !.email = e, !.verified = byAdmin]

(* register, and adminCreate, whose accounts are verified from the start.  *)
Created(e, byAdmin) ==
  [NoUser EXCEPT !.email = Normal(e), !.verified = byAdmin]

Create(u, e, byAdmin) ==
  LET new == Created(e, byAdmin) IN
  /\ user[u] = NoUser
  /\ Free(new.email, u)
  /\ user' = [user EXCEPT ![u] = new]
  /\ proven' = [proven EXCEPT ![u] = IF byAdmin THEN new.email ELSE NULL]
  /\ UNCHANGED <<code, limit, mailed, req, respelled, owed>>

Respelled(u, e) ==
  respelled' = IF e = Normal(e) THEN respelled \ {u} ELSE respelled \cup {u}

(* adminUpdateUser: the DTO's e-mail replaces the stored one as it is; the *)
(* administrator answers for the new address of a verified account.        *)
AdminUpdate(u, e) ==
  /\ Exists(u)
  /\ Free(e, u)
  /\ user' = [user EXCEPT ![u].email = e]
  /\ Respelled(u, e)
  /\ proven' = [proven EXCEPT ![u] = IF user[u].verified THEN e ELSE NULL]
  /\ UNCHANGED <<code, limit, mailed, req, owed>>

Remove(u) ==
  /\ Exists(u)
  /\ user' = [user EXCEPT ![u] = Gone]
  /\ proven' = [proven EXCEPT ![u] = NULL]
  /\ respelled' = respelled \ {u}
  /\ UNCHANGED <<code, limit, mailed, req, owed>>

-----------------------------------------------------------------------------
(* enforceVerificationRateLimit                                            *)

(* Wrong: the limit is kept for each spelling of the address.              *)
BugLimitOf(h) == <<h.action, h.email>>

(* The Redis key of the limit a handler is under.                          *)
LimitOf(h) == <<h.action, Normal(h.email)>>

CheckLimit(r) ==
  /\ At(r, "check")
  /\ LimitOf(req[r]) \notin limit
  /\ Goto(r, "limit")
  /\ UNCHANGED <<user, code, limit, mailed, histories>>

(* Handlers of the same action and address that checked and have not set.  *)
AlsoPassing(r) ==
  {q \in Requests : /\ At(q, "limit")
                    /\ req[q].action = req[r].action
                    /\ Normal(req[q].email) = Normal(req[r].email)}

Passed(h) ==
  [h EXCEPT !.pc = IF h.action = "send-code" THEN "mail" ELSE "change",
            !.action = NULL, !.raced = FALSE]

SetLimit(r) ==
  /\ At(r, "limit")
  /\ limit' = limit \cup {LimitOf(req[r])}
  /\ req' = [q \in Requests |->
               IF q = r THEN Passed(req[r])
               ELSE IF q \in AlsoPassing(r) THEN [req[q] EXCEPT !.raced = TRUE]
               ELSE req[q]]
  /\ UNCHANGED <<user, code, mailed, histories>>

LimitExpires(l) ==
  /\ l \in limit
  /\ limit' = limit \ {l}
  /\ UNCHANGED <<user, code, mailed, req, histories>>

-----------------------------------------------------------------------------
(* sendVerificationCode                                                    *)

SendRead(r, e) ==
  /\ req[r].pc \in {"idle", "read"}
  /\ At(r, "read") => req[r].email = e
  /\ Unverified(e)
  /\ Become(r, [Idle EXCEPT !.pc = "check", !.action = "send-code",
                            !.email = e])
  /\ UNCHANGED <<user, code, limit, mailed, histories>>

(* The mail goes out before the code is stored.                            *)
SendMail(r, c) ==
  LET e == req[r].email IN
  /\ At(r, "mail")
  /\ mailed[c] = NULL
  /\ mailed' = [mailed EXCEPT ![c] = e]
  /\ owed' = [owed EXCEPT ![e] = c]
  /\ Become(r, [req[r] EXCEPT !.pc = "store", !.code = c])
  /\ UNCHANGED <<user, code, limit, proven, respelled>>

(* The mail arrives and the handler does not learn of it.                  *)
SendMailLost(r, c) ==
  LET e == req[r].email IN
  /\ "lostMail" \in Faults
  /\ At(r, "mail")
  /\ mailed[c] = NULL
  /\ mailed' = [mailed EXCEPT ![c] = e]
  /\ owed' = [owed EXCEPT ![e] = NULL]
  /\ Return(r)
  /\ UNCHANGED <<user, code, limit, proven, respelled>>

(* h stores a code over the one of a later mail.                           *)
Overtaking(h) == owed[h.email] \notin {h.code, NULL}
                   /\ code[h.email] = owed[h.email]

(* Wrong: the code is stored under the lower-case address, which verifyCode*)
(* does not look under.                                                    *)
BugSendStore(r) ==
  LET h == req[r] IN
  /\ At(r, "store")
  /\ code' = [code EXCEPT ![Normal(h.email)] = h.code]
  /\ owed' = IF Overtaking(h) THEN [owed EXCEPT ![h.email] = NULL] ELSE owed
  /\ Return(r)
  /\ UNCHANGED <<user, limit, mailed, proven, respelled>>

SendStore(r) ==
  LET h == req[r] IN
  /\ At(r, "store")
  /\ code' = [code EXCEPT ![h.email] = h.code]
  /\ owed' = IF Overtaking(h) THEN [owed EXCEPT ![h.email] = NULL] ELSE owed
  /\ Return(r)
  /\ UNCHANGED <<user, limit, mailed, proven, respelled>>

CodeExpires(e) ==
  /\ code[e] # NULL
  /\ code' = [code EXCEPT ![e] = NULL]
  /\ owed' = [owed EXCEPT ![e] = NULL]
  /\ UNCHANGED <<user, limit, mailed, req, proven, respelled>>

-----------------------------------------------------------------------------
(* verifyCode                                                              *)

VerifyRead(r, e) ==
  /\ At(r, "idle")
  /\ Unverified(e)
  /\ Become(r, [Idle EXCEPT !.pc = "enter", !.email = e])
  /\ UNCHANGED <<user, code, limit, mailed, histories>>

(* The code entered equals the stored one.  It is known from its mail.     *)
VerifyEnter(r) ==
  LET e == req[r].email IN
  /\ At(r, "enter")
  /\ code[e] # NULL
  /\ Become(r, [req[r] EXCEPT !.pc = "verify", !.code = code[e]])
  /\ UNCHANGED <<user, code, limit, mailed, histories>>

(* The row is found by the address, not by the id read before.             *)
VerifyWrite(r) ==
  LET h == req[r] IN
  /\ At(r, "verify")
  /\ \E u \in UsersAt(h.email) :
       /\ user' = [user EXCEPT ![u].verified = TRUE]
       /\ proven' = [proven EXCEPT ![u] = mailed[h.code]]
  /\ Become(r, [h EXCEPT !.pc = "forget", !.code = NULL])
  /\ UNCHANGED <<code, limit, mailed, respelled, owed>>

(* del of verify:email:<email>: nothing mailed there is accepted any more. *)
Forget(e) ==
  /\ code' = [code EXCEPT ![e] = NULL]
  /\ owed' = [owed EXCEPT ![e] = NULL]

VerifyForget(r) ==
  /\ At(r, "forget")
  /\ Forget(req[r].email)
  /\ Return(r)
  /\ UNCHANGED <<user, limit, mailed, proven, respelled>>

-----------------------------------------------------------------------------
(* updateVerificationEmail                                                 *)

ChangeRead(r, u, new) ==
  /\ At(r, "idle")
  /\ Exists(u)
  /\ ~user[u].verified
  /\ UsersAt(new) = {}
  /\ Become(r, [Idle EXCEPT !.pc = "check", !.action = "update-email",
                            !.email = user[u].email, !.new = new, !.user = u])
  /\ UNCHANGED <<user, code, limit, mailed, histories>>

(* Wrong: the account keeps the verification of its old address.           *)
BugMoved(u, new) == [user[u] EXCEPT !.email = new]

Moved(u, new) == [user[u] EXCEPT !.email = new, !.verified = FALSE]

(* The row is found by the id read before.                                 *)
ChangeWrite(r) ==
  LET h == req[r] IN
  /\ At(r, "change")
  /\ Exists(h.user)
  /\ Free(h.new, h.user)
  /\ user' = [user EXCEPT ![h.user] = Moved(h.user, h.new)]
  /\ Respelled(h.user, h.new)
  /\ Become(r, [h EXCEPT !.pc = "clear", !.user = NULL])
  /\ UNCHANGED <<code, limit, mailed, proven, owed>>

(* The old code is deleted and a new one sent, under the other limit.      *)
ChangeClear(r) ==
  LET h == req[r] IN
  /\ At(r, "clear")
  /\ Forget(h.email)
  /\ Become(r, [Idle EXCEPT !.pc = "read", !.email = h.new])
  /\ UNCHANGED <<user, limit, mailed, proven, respelled>>

-----------------------------------------------------------------------------
(* Failures                                                                *)

(* The handlers in Q will not store the codes they mailed.                 *)
Unpaid(Q) ==
  [e \in Emails |-> IF \E q \in Q : At(q, "store") /\ req[q].code = owed[e]
                    THEN NULL ELSE owed[e]]

(* A check rejects the request: too many requests, a wrong code, an        *)
(* address that is taken, a row that is gone.                              *)
Reject(r) ==
  /\ req[r].pc \in {"check", "read", "enter", "verify", "change"}
  /\ Return(r)
  /\ UNCHANGED <<user, code, limit, mailed, histories>>

Error(r) ==
  /\ "error" \in Faults
  /\ ~At(r, "idle")
  /\ owed' = Unpaid({r})
  /\ Return(r)
  /\ UNCHANGED <<user, code, limit, mailed, proven, respelled>>

Crash ==
  /\ "crash" \in Faults
  /\ \E r \in Requests : ~At(r, "idle")
  /\ owed' = Unpaid(Requests)
  /\ req' = [r \in Requests |-> Idle]
  /\ UNCHANGED <<user, code, limit, mailed, proven, respelled>>

-----------------------------------------------------------------------------
Step(r) ==
  \/ CheckLimit(r)
  \/ SetLimit(r)
  \/ \E e \in Emails : SendRead(r, e)
  \/ \E c \in Codes : SendMail(r, c)
  \/ \E c \in Codes : SendMailLost(r, c)
  \/ SendStore(r)
  \/ \E e \in Emails : VerifyRead(r, e)
  \/ VerifyEnter(r)
  \/ VerifyWrite(r)
  \/ VerifyForget(r)
  \/ \E u \in Users, new \in Emails : ChangeRead(r, u, new)
  \/ ChangeWrite(r)
  \/ ChangeClear(r)
  \/ Reject(r)
  \/ Error(r)

Next ==
  \/ \E r \in Requests : Step(r)
  \/ \E u \in Users, e \in Emails, byAdmin \in BOOLEAN : Create(u, e, byAdmin)
  \/ \E u \in Users, e \in Emails : AdminUpdate(u, e)
  \/ \E u \in Users : Remove(u)
  \/ \E l \in Limits : LimitExpires(l)
  \/ \E e \in Emails : CodeExpires(e)
  \/ Crash

Spec == Init /\ [][Next]_vars

-----------------------------------------------------------------------------
(* Types, and the unique index on the address.                             *)
TypeOK ==
  /\ user \in [Users -> User]
  /\ code \in [Emails -> Optional(Codes)]
  /\ limit \subseteq Limits
  /\ mailed \in [Codes -> Optional(Emails)]
  /\ req \in [Requests -> Handler]
  /\ proven \in [Users -> Optional(Emails)]
  /\ respelled \subseteq Users
  /\ owed \in [Emails -> Optional(Codes)]
  /\ \A u, v \in Users : Exists(u) /\ user[u].email = user[v].email => u = v

(* An account is verified only at the address its code was mailed to, or   *)
(* at one an administrator wrote: a change of address that overlaps a      *)
(* verification, which finds its row by address while the change finds it  *)
(* by id, never carries the verification over to the new address.          *)
VerifiedWhereMailed ==
  \A u \in Users : user[u].verified => proven[u] = user[u].email

(* The code mailed last to an address is the one verifyCode accepts, or    *)
(* its handler is about to store it, until it expires, it is deleted, its  *)
(* handler fails, or the store of an earlier mail comes after its own.      *)
LastCodeWorks ==
  \A e \in Emails :
    owed[e] # NULL =>
      \/ code[e] = owed[e]
      \/ \E r \in Requests : At(r, "store") /\ req[r].code = owed[e]

(* A handler passes a limit that is already set, for whatever spelling of  *)
(* the address, only when another set it between this one's exists and set.*)
LimitPassedOnce ==
  \A r \in Requests :
    /\ At(r, "limit")
    /\ \E l \in limit : /\ l[1] = req[r].action
                        /\ Normal(l[2]) = Normal(req[r].email)
    => req[r].raced

(* login lowers the address it is given.                                   *)
FoundByLogin(e) == UsersAt(Normal(e))

(* A verified account is the one login finds when its own address is       *)
(* typed, unless that address was written by updateVerificationEmail or    *)
(* adminUpdateUser, which keep the spelling they are given.                *)
LoginFindsAccount ==
  \A u \in Users :
    user[u].verified /\ u \notin respelled => FoundByLogin(user[u].email) = {u}
=============================================================================
