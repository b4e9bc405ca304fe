--------------------------- MODULE SessionsProofs ---------------------------
(***************************************************************************)
(* What holds of Sessions for any number of requests, users and links, any *)
(* lifetime of a token, and every choice of faults.                        *)
(***************************************************************************)
EXTENDS Sessions, TLAPS

(* What a handler holds when it comes to the call it waits for.            *)
Ready(h) ==
  /\ h.pc # "idle" => h.user \in Users
  /\ h.pc \in {"sign", "guard"} => h.password \in 0..password[h.user]
  /\ h.pc = "guard" => h.token \in Token /\ h.token.user = h.user
  /\ h.pc \in {"reset", "forget"} => h.link \in Links

HandlersReady == \A r \in Requests : Ready(req[r])

(* Marks and blacklist entries last exactly as long as the tokens they are *)
(* for can; only tokens that were logged out are blacklisted, and every    *)
(* such token is until it expires.                                         *)
KeysLast ==
  /\ \A u \in Users : mark[u] # NULL =>
       mark[u].at <= now /\ mark[u].until = mark[u].at + Lifetime
  /\ \A e \in blacklist : e.token \in out /\ e.until = e.token.iat + Lifetime
  /\ \A token \in out : Expired(token) \/ Blacklisted(token)
  /\ \A s \in issued : ~Expired(s.token)

(* A user whose last password is marked, and a session that rests on an    *)
(* earlier one: it is late, or the mark there is does not come before it.  *)
Stale(u, pw) == pw < password[u] /\ u \notin unmarked

StaleMarked ==
  \A s \in issued : Stale(s.token.user, s.password) =>
    \/ s.late
    \/ /\ mark[s.token.user] # NULL
       /\ s.token.iat <= mark[s.token.user].at

(* The same of a handler that will sign; while its token is still to be    *)
(* compared with the mark it may also be one that the mark will end.       *)
Held(h) ==
  h.pc \in {"sign", "guard"} /\ Stale(h.user, h.password) =>
    \/ h.late
    \/ /\ h.pc = "guard" /\ mark[h.user] # NULL
       /\ h.token.iat < mark[h.user].at

StaleHeld == \A r \in Requests : Held(req[r])

(* A session of the present password that was not signed while a mark was  *)
(* due: none is due now, and the mark there is came before it.             *)
PresentKept ==
  \A s \in issued : s.password = password[s.token.user] /\ ~s.early =>
    /\ ~MarkDue(s.token.user)
    /\ mark[s.token.user] # NULL =>
         mark[s.token.user].at <= s.token.iat

(* A link that wrote a password is gone or about to be.                    *)
LinksSpent ==
  \A l \in Links : spent[l] = "yes" /\ link[l] # NULL
    => \E r \in Requests : At(r, "forget") /\ req[r].link = l

SessionInv ==
  /\ TypeOK /\ HandlersReady /\ KeysLast
  /\ StaleMarked /\ StaleHeld /\ PresentKept /\ LinksSpent

-----------------------------------------------------------------------------
(* Handlers                                                                *)

LEMMA IdleTyped == Idle \in Handler /\ Ready(Idle) /\ Held(Idle)
BY DEF Idle, Handler, Pc, Optional, Ready, Held

LEMMA BecomeStep ==
  ASSUME NEW r \in Requests, NEW h \in Handler,
         req \in [Requests -> Handler], Become(r, h)
  PROVE  /\ req' \in [Requests -> Handler]
         /\ req'[r] = h
         /\ \A q \in Requests \ {r} : req'[q] = req[q]
BY DEF Become

LEMMA InvInit == Init => SessionInv
BY SessionsConstants, IdleTyped
   DEF Init, SessionInv, TypeOK, HandlersReady, KeysLast, StaleMarked,
       StaleHeld, PresentKept, LinksSpent, Ready, Held, Idle, Optional, Time,
       Password, Blacklisted

(* A step that changes one handler and nothing else, the handler having no *)
(* mark to set before and after.                                           *)
LEMMA QuietStep ==
  ASSUME SessionInv, NEW r \in Requests, NEW h \in Handler, Become(r, h),
         Ready(h), Held(h),
         req[r].pc \notin {"forget", "mark"}, h.pc \notin {"forget", "mark"},
         UNCHANGED <<now, password, redis, issued, histories>>
  PROVE  SessionInv'
<1> USE DEF SessionInv
<1>1. /\ req' \in [Requests -> Handler] /\ req'[r] = h
      /\ \A q \in Requests \ {r} : req'[q] = req[q]
  BY BecomeStep DEF TypeOK
<1>2. UNCHANGED <<now, password, up, blacklist, mark, link, issued, out,
                  unmarked, spent>>
  BY DEF redis, histories
<1>3. TypeOK'
  BY <1>1, <1>2 DEF TypeOK
<1>4. HandlersReady' /\ StaleHeld'
  BY <1>1, <1>2 DEF HandlersReady, Ready, StaleHeld, Held, Stale
<1>5. KeysLast' /\ StaleMarked'
  BY <1>2 DEF KeysLast, Expired, Blacklisted, StaleMarked, Stale
<1>6. PresentKept'
  BY <1>1, <1>2 DEF PresentKept, MarkDue
<1>7. LinksSpent'
  BY <1>1, <1>2 DEF LinksSpent, At
<1> QED
  BY <1>3, <1>4, <1>5, <1>6, <1>7

-----------------------------------------------------------------------------
(* login, refreshToken and the guard                                       *)

LEMMA LoginReadStep ==
  ASSUME SessionInv, NEW r \in Requests, NEW u \in Users, LoginRead(r, u)
  PROVE  SessionInv'
<1> DEFINE h == [Idle EXCEPT !.pc = "sign", !.user = u,
                             !.password = password[u]]
<1>1. password[u] \in Password /\ password[u] \in 0..password[u]
  BY SessionsConstants DEF SessionInv, TypeOK, Password
<1>2. h \in Handler /\ h.pc = "sign" /\ h.user = u /\ h.password = password[u]
  BY <1>1, IdleTyped DEF Handler, Pc, Optional
<1>3. /\ At(r, "idle") /\ Become(r, h)
      /\ UNCHANGED <<now, password, redis, issued, histories>>
  BY DEF LoginRead
<1> HIDE DEF h
<1>4. Ready(h) /\ Held(h)
  BY <1>1, <1>2 DEF Ready, Held, Stale, Password
<1> QED
  BY <1>2, <1>3, <1>4, QuietStep DEF At

LEMMA GuardBlacklistStep ==
  ASSUME SessionInv, NEW r \in Requests, NEW s \in issued,
         GuardBlacklist(r, s)
  PROVE  SessionInv'
<1> DEFINE h == [Idle EXCEPT !.pc = "guard", !.token = s.token,
                             !.user = s.token.user, !.password = s.password,
                             !.late = Excused(s.token)]
           u == s.token.user
<1>1. /\ s.token \in Token /\ u \in Users /\ s.password \in Password
      /\ s.password <= password[u] /\ password[u] \in Nat
      /\ s.token.iat \in Nat
  BY SessionsConstants
     DEF SessionInv, TypeOK, Signature, Token, Password, Time
<1>2. /\ h \in Handler /\ h.pc = "guard" /\ h.user = u
      /\ h.token = s.token /\ h.password = s.password
      /\ h.late = Excused(s.token)
  BY <1>1, IdleTyped DEF Handler, Pc, Optional, Excused
<1>3. /\ At(r, "idle") /\ Become(r, h)
      /\ UNCHANGED <<now, password, redis, issued, histories>>
  BY DEF GuardBlacklist
<1> HIDE DEF h
<1>4. Ready(h)
  BY <1>1, <1>2 DEF Ready, Password
<1>5. Held(h)
  <2>1. mark[u] # NULL => mark[u].at \in Nat
    BY <1>1, SessionsConstants DEF SessionInv, TypeOK, Optional, Mark, Time
  <2> QED
    BY <1>1, <1>2, <2>1 DEF Held, SessionInv, StaleMarked, Stale, Excused
<1> QED
  BY <1>2, <1>3, <1>4, <1>5, QuietStep DEF At

(* The session a refresh signs is late if it rests on an earlier password: *)
(* its token passed the mark, or Redis was down.                           *)
LEMMA RefreshStep ==
  ASSUME SessionInv, NEW r \in Requests, Refresh(r)
  PROVE  SessionInv'
<1> DEFINE h == [req[r] EXCEPT !.pc = "sign", !.token = NULL,
                   !.late = @ \/ ~up \/ Excused(req[r].token)]
<1>1. /\ req[r] \in Handler /\ Ready(req[r]) /\ Held(req[r])
      /\ At(r, "guard") /\ (up => ~BeforeMark(req[r].token))
      /\ up \in BOOLEAN
  BY DEF SessionInv, TypeOK, HandlersReady, StaleHeld, Refresh, PassesMark
<1>2. /\ h \in Handler /\ h.pc = "sign" /\ h.user = req[r].user
      /\ h.password = req[r].password
      /\ h.late = (req[r].late \/ ~up \/ Excused(req[r].token))
  BY <1>1 DEF Handler, Pc, Optional
<1>3. /\ Become(r, h)
      /\ UNCHANGED <<now, password, redis, issued, histories>>
  BY DEF Refresh
<1> HIDE DEF h
<1>4. Ready(h) /\ Held(h)
  BY <1>1, <1>2 DEF Ready, Held, At, BeforeMark
<1> QED
  BY <1>1, <1>2, <1>3, <1>4, QuietStep DEF At

LEMMA OtherQuietSteps ==
  ASSUME SessionInv, NEW r \in Requests,
         Change(r) \/ Refuse(r) \/ \E l \in Links : ResetRead(r, l)
  PROVE  SessionInv'
<1>1. PICK h \in Handler : /\ Become(r, h) /\ Ready(h)
                           /\ h.pc \in {"idle", "change", "reset"}
  <2>1. CASE Change(r)
    <3> DEFINE h == [Idle EXCEPT !.pc = "change", !.user = req[r].user]
    <3>1. req[r].user \in Users
      BY <2>1 DEF Change, PassesMark, SessionInv, HandlersReady, Ready, At
    <3>2. h \in Handler /\ Ready(h) /\ h.pc = "change"
      BY <3>1, IdleTyped DEF Handler, Pc, Optional, Ready
    <3>3. Become(r, h)
      BY <2>1 DEF Change
    <3> HIDE DEF h
    <3> QED
      BY <3>2, <3>3
  <2>2. CASE Refuse(r)
    BY <2>2, IdleTyped DEF Refuse, Return, Idle
  <2>3. ASSUME NEW l \in Links, ResetRead(r, l)
        PROVE  \E h \in Handler : /\ Become(r, h) /\ Ready(h)
                                  /\ h.pc \in {"idle", "change", "reset"}
    <3> DEFINE h == [Idle EXCEPT !.pc = "reset", !.user = link[l], !.link = l]
    <3>1. link[l] \in Users
      BY <2>3 DEF ResetRead, SessionInv, TypeOK, Optional
    <3>2. h \in Handler /\ Ready(h) /\ h.pc = "reset"
      BY <3>1, IdleTyped DEF Handler, Pc, Optional, Ready
    <3>3. Become(r, h)
      BY <2>3 DEF ResetRead
    <3> HIDE DEF h
    <3> QED
      BY <3>2, <3>3
  <2> QED
    BY <2>1, <2>2, <2>3
<1>2. /\ req[r].pc \in {"idle", "guard", "change"}
      /\ UNCHANGED <<now, password, redis, issued, histories>>
  BY DEF Change, PassesMark, Refuse, ResetRead, At
<1>3. Held(h)
  BY <1>1 DEF Held
<1> QED
  BY <1>1, <1>2, <1>3, QuietStep

(* A new session has the present second: no mark is after it.              *)
LEMMA SignStep ==
  ASSUME SessionInv, NEW r \in Requests, Sign(r)
  PROVE  SessionInv'
<1> USE DEF SessionInv
<1> DEFINE s == Signed(req[r])  u == req[r].user
<1>1. /\ At(r, "sign") /\ issued' = issued \cup {s} /\ Become(r, Idle)
      /\ UNCHANGED <<now, password, up, blacklist, mark, link, out, unmarked,
                     spent>>
  BY DEF Sign, Return, redis, histories
<1>2. req[r] \in Handler /\ Ready(req[r]) /\ Held(req[r])
  BY DEF TypeOK, HandlersReady, StaleHeld
<1>3. /\ u \in Users /\ now \in Time /\ password[u] \in Password
      /\ req[r].password \in 0..password[u]
  BY <1>1, <1>2 DEF Ready, At, TypeOK
<1>4. /\ s \in Signature /\ s.token.user = u /\ s.token.iat = now
      /\ s.password = req[r].password /\ s.late = req[r].late
      /\ s.early = MarkDue(u)
  <2>1. req[r].password \in Password /\ MarkDue(u) \in BOOLEAN
        /\ req[r].late \in BOOLEAN
    BY <1>2, <1>3, SessionsConstants DEF Password, MarkDue, Handler
  <2> QED
    BY <1>3, <2>1 DEF Signed, Signature, Token
<1> HIDE DEF s
<1>5. /\ req' \in [Requests -> Handler] /\ req'[r] = Idle
      /\ \A q \in Requests \ {r} : req'[q] = req[q]
  BY <1>1, IdleTyped, BecomeStep DEF TypeOK
<1>6. TypeOK'
  BY <1>1, <1>3, <1>4, <1>5, SessionsConstants DEF TypeOK, Time, Password
<1>7. HandlersReady' /\ StaleHeld'
  BY <1>1, <1>5 DEF HandlersReady, Ready, StaleHeld, Held, Stale, Idle
<1>8. KeysLast'
  BY <1>1, <1>3, <1>4, SessionsConstants
     DEF KeysLast, Expired, Blacklisted, Time
<1>9. StaleMarked'
  BY <1>1, <1>2, <1>4 DEF StaleMarked, Stale, Held, At
<1>10. PresentKept'
  <2>1. \A v \in Users : MarkDue(v)' => MarkDue(v)
    BY <1>5 DEF MarkDue, Idle
  <2>2. \A t \in issued : t.token.user \in Users
    BY DEF TypeOK, Signature, Token
  <2> QED
    BY <1>1, <1>3, <1>4, <2>1, <2>2 DEF PresentKept, KeysLast
<1>11. LinksSpent'
  BY <1>1, <1>5 DEF LinksSpent, At
<1> QED
  BY <1>6, <1>7, <1>8, <1>9, <1>10, <1>11

LEMMA LogoutStep ==
  ASSUME SessionInv, NEW r \in Requests, Logout(r)
  PROVE  SessionInv'
<1> USE DEF SessionInv
<1> DEFINE token == req[r].token
           e == [token |-> token, until |-> now + Ttl(token)]
<1>1. /\ At(r, "guard") /\ Become(r, Idle) /\ out' = out \cup {token}
      /\ blacklist' = IF Ttl(token) > 0 THEN blacklist \cup {e} ELSE blacklist
      /\ UNCHANGED <<now, password, up, mark, link, issued, unmarked, spent>>
  BY DEF Logout, Return, PassesMark
<1>2. token \in Token /\ token.iat \in Nat /\ now \in Nat
  BY <1>1, SessionsConstants DEF HandlersReady, Ready, At, TypeOK, Time, Token
<1>3. /\ e.token = token /\ e.until = token.iat + Lifetime /\ e \in Entry
      /\ ~(Ttl(token) > 0) => Expired(token)
  BY <1>2, SessionsConstants DEF Ttl, Entry, Expired
<1> HIDE DEF e
<1>4. /\ req' \in [Requests -> Handler] /\ req'[r] = Idle
      /\ \A q \in Requests \ {r} : req'[q] = req[q]
  BY <1>1, IdleTyped, BecomeStep DEF TypeOK
<1>5. TypeOK'
  BY <1>1, <1>2, <1>3, <1>4 DEF TypeOK
<1>6. HandlersReady' /\ StaleHeld'
  BY <1>1, <1>4 DEF HandlersReady, Ready, StaleHeld, Held, Stale, Idle
<1>7. KeysLast'
  <2>1. \A f \in blacklist' :
          f.token \in out' /\ f.until = f.token.iat + Lifetime
    BY <1>1, <1>3 DEF KeysLast
  <2>2. \A t \in out' : Expired(t)' \/ Blacklisted(t)'
    BY <1>1, <1>3 DEF KeysLast, Expired, Blacklisted
  <2> QED
    BY <1>1, <2>1, <2>2 DEF KeysLast, Expired
<1>8. StaleMarked'
  BY <1>1 DEF StaleMarked, Stale
<1>9. PresentKept'
  BY <1>1, <1>4 DEF PresentKept, MarkDue, Idle
<1>10. LinksSpent'
  BY <1>1, <1>4 DEF LinksSpent, At
<1> QED
  BY <1>5, <1>6, <1>7, <1>8, <1>9, <1>10

-----------------------------------------------------------------------------
(* The writers of a password                                               *)

(* A handler that writes u's password and has its mark still to set.       *)
LEMMA WriteStep ==
  ASSUME SessionInv, NEW r \in Requests, NEW u \in Users, NEW h \in Handler,
         WriteFor(u), Become(r, h), h.user = u,
         req[r].pc # "forget",
         \/ h.pc = "mark" /\ UNCHANGED spent
         \/ /\ h.pc = "forget" /\ h.link \in Links
            /\ spent' = [spent EXCEPT ![h.link] = IF @ = "no" THEN "yes" ELSE @],
         UNCHANGED <<now, redis, issued, out>>
  PROVE  SessionInv'
<1> USE DEF SessionInv
<1>1. /\ req' \in [Requests -> Handler] /\ req'[r] = h
      /\ \A q \in Requests \ {r} : req'[q] = req[q]
  BY BecomeStep DEF TypeOK
<1>2. UNCHANGED <<now, up, blacklist, mark, link, issued, out>>
  BY DEF redis
<1>3. /\ password' \in [Users -> Password] /\ password'[u] = password[u] + 1
      /\ password[u] \in Nat /\ unmarked' = unmarked \cup {u}
      /\ \A v \in Users \ {u} : password'[v] = password[v]
  BY SessionsConstants DEF WriteFor, TypeOK, Password
<1>4. \A s \in issued : /\ s.token.user \in Users /\ s.password \in Nat
                        /\ s.password <= password[s.token.user]
  BY SessionsConstants DEF TypeOK, Signature, Token, Password
<1>5. TypeOK'
  <2>1. spent' \in [Links -> {"no", "yes", "kept"}]
    BY DEF TypeOK
  <2>2. \A s \in issued' :
          s.token.iat <= now' /\ s.password <= password'[s.token.user]
    BY <1>2, <1>3, <1>4 DEF TypeOK
  <2> QED
    BY <1>1, <1>2, <1>3, <2>1, <2>2 DEF TypeOK
<1>6. HandlersReady'
  <2>1. \A q \in Requests \ {r} : Ready(req[q])'
    BY <1>1, <1>3 DEF HandlersReady, Ready
  <2> QED
    BY <1>1, <2>1 DEF HandlersReady, Ready
<1>7. KeysLast'
  BY <1>2 DEF KeysLast, Expired, Blacklisted
<1>8. StaleMarked'
  BY <1>2, <1>3, <1>4 DEF StaleMarked, Stale
<1>9. StaleHeld'
  <2>1. \A q \in Requests \ {r} : Held(req[q])'
    BY <1>1, <1>2, <1>3 DEF StaleHeld, HandlersReady, Ready, Held, Stale
  <2> QED
    BY <1>1, <2>1 DEF StaleHeld, Held
<1>10. PresentKept'
  <2>1. \A v \in Users \ {u} : MarkDue(v)' => MarkDue(v)
    BY <1>1 DEF MarkDue
  <2> QED
    BY <1>2, <1>3, <1>4, <2>1 DEF PresentKept
<1>11. LinksSpent'
  BY <1>1, <1>2 DEF LinksSpent, At, TypeOK
<1> QED
  BY <1>5, <1>6, <1>7, <1>8, <1>9, <1>10, <1>11

LEMMA WritersStep ==
  ASSUME SessionInv, NEW r \in Requests,
         ResetWrite(r) \/ ChangeWrite(r) \/ \E u \in Users : AdminWrite(r, u)
  PROVE  SessionInv'
<1>1. CASE ResetWrite(r)
  <2> DEFINE h == [req[r] EXCEPT !.pc = "forget"]
  <2>1. /\ req[r] \in Handler /\ req[r].user \in Users
        /\ req[r].link \in Links /\ req[r].pc # "forget"
    BY <1>1 DEF SessionInv, TypeOK, HandlersReady, Ready, ResetWrite, At
  <2>2. /\ h \in Handler /\ h.pc = "forget" /\ h.user = req[r].user
        /\ h.link = req[r].link
    BY <2>1 DEF Handler, Pc
  <2>3. /\ WriteFor(h.user) /\ Become(r, h)
        /\ spent' = [spent EXCEPT ![h.link] = IF @ = "no" THEN "yes" ELSE @]
        /\ UNCHANGED <<now, redis, issued, out>>
    BY <1>1 DEF ResetWrite
  <2> HIDE DEF h
  <2> QED
    BY <2>1, <2>2, <2>3, WriteStep
<1>2. ASSUME NEW u \in Users, WriteFor(u), req[r].pc \in {"idle", "change"},
             Become(r, [Idle EXCEPT !.pc = "mark", !.user = u]),
             UNCHANGED <<now, redis, issued, out, spent>>
      PROVE  SessionInv'
  <2> DEFINE h == [Idle EXCEPT !.pc = "mark", !.user = u]
  <2>1. h \in Handler /\ h.pc = "mark" /\ h.user = u
    BY IdleTyped DEF Handler, Pc, Optional
  <2>2. Become(r, h)
    BY <1>2
  <2> HIDE DEF h
  <2> QED
    BY <1>2, <2>1, <2>2, WriteStep
<1>3. CASE ChangeWrite(r)
  <2>1. req[r].user \in Users
    BY <1>3 DEF SessionInv, HandlersReady, Ready, ChangeWrite, At
  <2> QED
    BY <1>2, <1>3, <2>1 DEF ChangeWrite, At
<1>4. ASSUME NEW u \in Users, AdminWrite(r, u) PROVE SessionInv'
  BY <1>2, <1>4 DEF AdminWrite, At
<1> QED
  BY <1>1, <1>3, <1>4

LEMMA ResetForgetStep ==
  ASSUME SessionInv, NEW r \in Requests, ResetForget(r)
  PROVE  SessionInv'
<1> USE DEF SessionInv
<1> DEFINE l == req[r].link
           h == [req[r] EXCEPT !.pc = "mark", !.link = NULL]
<1>1. /\ At(r, "forget") /\ Become(r, h)
      /\ link' = [link EXCEPT ![l] = NULL]
      /\ spent' = [spent EXCEPT ![l] = "yes"]
      /\ UNCHANGED <<now, password, up, blacklist, mark, issued, out, unmarked>>
  BY DEF ResetForget
<1>2. req[r] \in Handler /\ Ready(req[r])
  BY DEF TypeOK, HandlersReady
<1>3. /\ h \in Handler /\ h.pc = "mark" /\ h.user = req[r].user
      /\ h.user \in Users /\ l \in Links
  BY <1>1, <1>2 DEF Handler, Pc, Optional, Ready, At
<1> HIDE DEF h, l
<1>4. /\ req' \in [Requests -> Handler] /\ req'[r] = h
      /\ \A q \in Requests \ {r} : req'[q] = req[q]
  BY <1>1, <1>3, BecomeStep DEF TypeOK
<1>5. TypeOK'
  BY <1>1, <1>3, <1>4 DEF TypeOK, Optional
<1>6. HandlersReady' /\ StaleHeld'
  BY <1>1, <1>3, <1>4 DEF HandlersReady, Ready, StaleHeld, Held, Stale
<1>7. KeysLast' /\ StaleMarked'
  BY <1>1 DEF KeysLast, Expired, Blacklisted, StaleMarked, Stale
<1>8. PresentKept'
  <2>1. \A u \in Users : MarkDue(u)' => MarkDue(u)
    BY <1>1, <1>3, <1>4 DEF MarkDue, At
  <2>2. \A s \in issued : s.token.user \in Users
    BY DEF TypeOK, Signature, Token
  <2> QED
    BY <1>1, <2>1, <2>2 DEF PresentKept
<1>9. LinksSpent'
  <2>1. link'[l] = NULL
    BY <1>1, <1>3 DEF TypeOK
  <2>2. ASSUME NEW k \in Links \ {l}
        PROVE  /\ link'[k] = link[k] /\ spent'[k] = spent[k]
               /\ \A q \in Requests : At(q, "forget") /\ req[q].link = k
                    => At(q, "forget")' /\ req'[q].link = k
    BY <1>1, <1>4 DEF TypeOK, At, l
  <2> QED
    BY <2>1, <2>2 DEF LinksSpent
<1> QED
  BY <1>5, <1>6, <1>7, <1>8, <1>9

(* The mark is in the present second: it comes before no session there is, *)
(* and every handler that rests on what was checked before is late.        *)
LEMMA SetMarkStep ==
  ASSUME SessionInv, NEW r \in Requests, SetMark(r)
  PROVE  SessionInv'
<1> USE DEF SessionInv
<1> DEFINE u == req[r].user
<1>1. /\ At(r, "mark") /\ mark' = [mark EXCEPT ![u] = MarkFrom(now)]
      /\ unmarked' = unmarked \ {u}
      /\ UNCHANGED <<now, password, up, blacklist, link, issued, out, spent>>
  BY DEF SetMark
<1>2. u \in Users /\ now \in Time
  BY <1>1 DEF HandlersReady, Ready, At, TypeOK
<1>3. /\ MarkFrom(now) \in Mark /\ MarkFrom(now) # NULL
      /\ MarkFrom(now).at = now /\ MarkFrom(now).until = now + Lifetime
  BY <1>2, SessionsConstants, NoMark DEF MarkFrom, Mark, Time
<1>4. /\ mark'[u] = MarkFrom(now) /\ mark' \in [Users -> Optional(Mark)]
      /\ \A v \in Users \ {u} : mark'[v] = mark[v]
  BY <1>1, <1>2, <1>3 DEF TypeOK, Optional
<1>5. /\ req' \in [Requests -> Handler] /\ req'[r] = Idle
      /\ \A q \in Requests \ {r} :
           \/ req'[q] = req[q] /\ ~(/\ req[q].user = u
                                    /\ req[q].pc \in {"sign", "guard"})
           \/ /\ req[q].pc \in {"sign", "guard"}
              /\ req'[q] = [req[q] EXCEPT !.late = TRUE]
  <2>1. \A q \in Requests : [req[q] EXCEPT !.late = TRUE] \in Handler
    BY DEF TypeOK, Handler
  <2> QED
    BY <2>1, IdleTyped DEF SetMark, TypeOK
<1>6. \A q \in Requests \ {r} :
        /\ req'[q].pc = req[q].pc /\ req'[q].user = req[q].user
        /\ req'[q].token = req[q].token /\ req'[q].link = req[q].link
        /\ req'[q].password = req[q].password
        /\ req[q].late => req'[q].late
        /\ req[q].user = u /\ req[q].pc \in {"sign", "guard"} => req'[q].late
  <2>1. \A q \in Requests : req[q] \in Handler
    BY DEF TypeOK
  <2> QED
    BY <1>5, <2>1 DEF Handler
<1>7. TypeOK'
  BY <1>1, <1>4, <1>5 DEF TypeOK
<1>8. HandlersReady'
  <2>1. \A q \in Requests \ {r} : Ready(req[q])'
    BY <1>1, <1>6 DEF HandlersReady, Ready
  <2> QED
    BY <1>5, <2>1 DEF HandlersReady, Ready, Idle
<1>9. KeysLast'
  BY <1>1, <1>2, <1>3, <1>4, SessionsConstants
     DEF KeysLast, Expired, Blacklisted, Time
<1>10. StaleMarked'
  BY <1>1, <1>3, <1>4 DEF StaleMarked, Stale, TypeOK, Signature, Token
<1>11. StaleHeld'
  <2>1. ASSUME NEW q \in Requests \ {r} PROVE Held(req[q])'
    <3>1. CASE req[q].user = u
      BY <1>6, <3>1 DEF Held
    <3>2. CASE req[q].user # u
      BY <1>1, <1>4, <1>6, <3>2 DEF StaleHeld, Held, Stale, HandlersReady, Ready
    <3> QED
      BY <3>1, <3>2
  <2> QED
    BY <1>5, <2>1 DEF StaleHeld, Held, Idle
<1>12. PresentKept'
  <2>1. MarkDue(u)
    BY <1>1 DEF MarkDue, At
  <2>2. \A v \in Users : MarkDue(v)' => MarkDue(v)
    BY <1>5, <1>6 DEF MarkDue, Idle
  <2>3. \A s \in issued : s.token.user \in Users
    BY DEF TypeOK, Signature, Token
  <2> QED
    BY <1>1, <1>4, <2>1, <2>2, <2>3 DEF PresentKept
<1>13. LinksSpent'
  BY <1>1, <1>5, <1>6 DEF LinksSpent, At
<1> QED
  BY <1>7, <1>8, <1>9, <1>10, <1>11, <1>12, <1>13

-----------------------------------------------------------------------------
(* The clock, Redis and failures                                           *)

(* A mark goes with the last token that it could turn away.                *)
LEMMA TickStep ==
  ASSUME SessionInv, Tick
  PROVE  SessionInv'
<1> USE DEF SessionInv
<1>1. /\ now' = now + 1 /\ now' \in Time /\ now \in Nat
      /\ blacklist' = {e \in blacklist : now' < e.until}
      /\ mark' = [u \in Users |-> IF mark[u] # NULL /\ now' < mark[u].until
                                  THEN mark[u] ELSE NULL]
      /\ issued' = {s \in issued : now' < s.token.iat + Lifetime}
      /\ out' = {token \in out : now' < token.iat + Lifetime}
      /\ UNCHANGED <<password, up, link, req, unmarked, spent>>
      /\ \A r \in Requests : At(r, "guard") => ~Expired(req[r].token)
  BY SessionsConstants DEF Tick, TypeOK, Time
<1>2. \A u \in Users :
        /\ mark'[u] \in {mark[u], NULL}
        /\ mark[u] # NULL => mark[u].at \in Nat
        /\ mark[u] # NULL /\ now' < mark[u].at + Lifetime => mark'[u] = mark[u]
  BY <1>1, SessionsConstants DEF KeysLast, TypeOK, Optional, Mark, Time
<1>3. \A s \in issued : /\ s.token \in Token /\ s.token.user \in Users
                        /\ s.token.iat \in Nat
  BY SessionsConstants DEF TypeOK, Signature, Token, Time
<1>4. TypeOK'
  <2>1. \A s \in issued' :
          s.token.iat <= now' /\ s.password <= password'[s.token.user]
    BY <1>1, <1>3 DEF TypeOK
  <2>2. mark' \in [Users -> Optional(Mark)]
    BY <1>1 DEF TypeOK, Optional
  <2> QED
    BY <1>1, <2>1, <2>2 DEF TypeOK
<1>5. HandlersReady'
  BY <1>1 DEF HandlersReady, Ready
<1>6. KeysLast'
  <2>1. \A u \in Users : mark'[u] # NULL =>
          mark'[u].at <= now' /\ mark'[u].until = mark'[u].at + Lifetime
    BY <1>1, <1>2 DEF KeysLast
  <2>2. \A e \in blacklist' :
          e.token \in out' /\ e.until = e.token.iat + Lifetime
    BY <1>1 DEF KeysLast
  <2>3. \A token \in out' : Expired(token)' \/ Blacklisted(token)'
    <3>1. \A token \in out' : ~Expired(token)
      BY <1>1, SessionsConstants DEF Expired, TypeOK, Token, Time
    <3> QED
      BY <1>1, <3>1 DEF KeysLast, Blacklisted
  <2>4. \A s \in issued' : ~Expired(s.token)'
    BY <1>1, <1>3, SessionsConstants DEF Expired
  <2> QED
    BY <2>1, <2>2, <2>3, <2>4 DEF KeysLast
<1>7. StaleMarked'
  <2> SUFFICES ASSUME NEW s \in issued', ~s.late,
                      Stale(s.token.user, s.password)'
               PROVE  /\ mark'[s.token.user] # NULL
                      /\ s.token.iat <= mark'[s.token.user].at
    BY DEF StaleMarked
  <2> DEFINE u == s.token.user
  <2>1. /\ s \in issued /\ Stale(u, s.password) /\ u \in Users
        /\ now' < s.token.iat + Lifetime
    BY <1>1, <1>3 DEF Stale
  <2>2. mark[u] # NULL /\ s.token.iat <= mark[u].at
    BY <2>1 DEF StaleMarked
  <2>3. mark'[u] = mark[u]
    BY <1>1, <1>2, <1>3, <2>1, <2>2, SessionsConstants
  <2> QED
    BY <2>2, <2>3
<1>8. StaleHeld'
  <2> SUFFICES ASSUME NEW r \in Requests, ~req[r].late,
                      req[r].pc \in {"sign", "guard"},
                      Stale(req[r].user, req[r].password)
               PROVE  /\ req[r].pc = "guard" /\ mark'[req[r].user] # NULL
                      /\ req[r].token.iat < mark'[req[r].user].at
    BY <1>1 DEF StaleHeld, Held, Stale
  <2> DEFINE u == req[r].user  token == req[r].token
  <2>1. /\ At(r, "guard") /\ mark[u] # NULL /\ token.iat < mark[u].at
        /\ u \in Users /\ token \in Token
    BY DEF StaleHeld, Held, HandlersReady, Ready, At
  <2>2. token.iat \in Nat /\ now < token.iat + Lifetime
    BY <1>1, <2>1, SessionsConstants DEF Expired, Token, Time
  <2>3. mark'[u] = mark[u]
    BY <1>1, <1>2, <2>1, <2>2, SessionsConstants
  <2> QED
    BY <2>1, <2>3 DEF At
<1>9. PresentKept'
  BY <1>1, <1>2, <1>3 DEF PresentKept, MarkDue
<1>10. LinksSpent'
  BY <1>1 DEF LinksSpent, At
<1> QED
  BY <1>4, <1>5, <1>6, <1>7, <1>8, <1>9, <1>10

(* Links come and go, and so does Redis.                                   *)
LEMMA OutsideStep ==
  ASSUME SessionInv,
         \/ \E l \in Links, u \in Users : Forgot(l, u)
         \/ \E l \in Links : LinkExpires(l)
         \/ RedisDown
  PROVE  SessionInv'
<1> USE DEF SessionInv
<1> DEFINE Outside ==
             /\ UNCHANGED <<now, password, blacklist, mark, req, issued, out,
                            unmarked>>
             /\ up' \in BOOLEAN
             /\ link' \in [Links -> Optional(Users)]
             /\ spent' \in [Links -> {"no", "yes", "kept"}]
             /\ \A l \in Links :
                  \/ link'[l] = link[l] /\ spent'[l] = spent[l]
                  \/ link'[l] = NULL \/ spent'[l] = "no"
<1>1. Outside
  <2>1. ASSUME NEW l \in Links, NEW u \in Users, Forgot(l, u)
        PROVE  Outside
    BY <2>1 DEF Forgot, TypeOK, Optional, histories
  <2>2. ASSUME NEW l \in Links, LinkExpires(l)
        PROVE  Outside
    BY <2>2 DEF LinkExpires, TypeOK, Optional
  <2>3. CASE RedisDown
    BY <2>3 DEF RedisDown, TypeOK, histories
  <2> QED
    BY <2>1, <2>2, <2>3
<1>2. TypeOK' /\ HandlersReady'
  BY <1>1 DEF TypeOK, HandlersReady, Ready
<1>3. KeysLast' /\ StaleMarked' /\ StaleHeld'
  BY <1>1 DEF KeysLast, Expired, Blacklisted, StaleMarked, StaleHeld, Held,
              Stale
<1>4. PresentKept' /\ LinksSpent'
  BY <1>1 DEF PresentKept, MarkDue, LinksSpent, At
<1> QED
  BY <1>2, <1>3, <1>4

(* Handlers that end without deleting their link leave it kept.            *)
LEMMA EndStep ==
  ASSUME SessionInv, NEW Q \in SUBSET Requests, spent' = Keep(Q),
         req' \in [Requests -> Handler],
         \A q \in Q : req'[q] = Idle,
         \A q \in Requests \ Q : req'[q] = req[q],
         UNCHANGED <<now, password, redis, issued, out, unmarked>>
  PROVE  SessionInv'
<1> USE DEF SessionInv
<1>1. UNCHANGED <<now, password, up, blacklist, mark, link, issued, out,
                  unmarked>>
  BY DEF redis
<1>2. TypeOK'
  <2>1. spent' \in [Links -> {"no", "yes", "kept"}]
    BY DEF Keep, TypeOK
  <2> QED
    BY <1>1, <2>1 DEF TypeOK
<1>3. HandlersReady' /\ StaleHeld'
  BY <1>1 DEF HandlersReady, Ready, StaleHeld, Held, Stale, Idle
<1>4. KeysLast' /\ StaleMarked'
  BY <1>1 DEF KeysLast, Expired, Blacklisted, StaleMarked, Stale
<1>5. PresentKept'
  BY <1>1 DEF PresentKept, MarkDue, Idle
<1>6. LinksSpent'
  BY <1>1 DEF LinksSpent, Keep, At
<1> QED
  BY <1>2, <1>3, <1>4, <1>5, <1>6

LEMMA InvStep == SessionInv /\ [Next]_vars => SessionInv'
<1> SUFFICES ASSUME SessionInv, [Next]_vars PROVE SessionInv'
  OBVIOUS
<1>1. ASSUME NEW r \in Requests, Error(r) PROVE SessionInv'
  <2>1. /\ spent' = Keep({r}) /\ Become(r, Idle)
        /\ UNCHANGED <<now, password, redis, issued, out, unmarked>>
    BY <1>1 DEF Error, Return
  <2>2. /\ req' \in [Requests -> Handler]
        /\ \A q \in {r} : req'[q] = Idle
        /\ \A q \in Requests \ {r} : req'[q] = req[q]
    BY <2>1, IdleTyped, BecomeStep DEF SessionInv, TypeOK
  <2>3. {r} \in SUBSET Requests
    OBVIOUS
  <2> QED
    BY <2>1, <2>2, <2>3, EndStep
<1>2. CASE Crash
  BY <1>2, IdleTyped, EndStep DEF Crash
<1>3. ASSUME NEW r \in Requests, Step(r) PROVE SessionInv'
  BY <1>1, <1>3, LoginReadStep, GuardBlacklistStep, RefreshStep,
     OtherQuietSteps, SignStep, LogoutStep, WritersStep, ResetForgetStep,
     SetMarkStep DEF Step
<1>4. CASE UNCHANGED vars
  <2>1. UNCHANGED <<now, password, up, blacklist, mark, link, req, issued,
                    out, unmarked, spent>>
    BY <1>4 DEF vars
  <2> QED
    BY <2>1 DEF SessionInv, TypeOK, HandlersReady, Ready, KeysLast, Expired,
       Blacklisted, StaleMarked, Stale, StaleHeld, Held, PresentKept, MarkDue,
       LinksSpent, At
<1> QED
  BY <1>2, <1>3, <1>4, OutsideStep, TickStep DEF Next

(* The rows, the keys of Redis, handlers and tokens keep their types, and  *)
(* no session is of a later second or of a password not yet written.       *)
THEOREM TypeCorrect == Spec => []TypeOK
<1>1. SessionInv => TypeOK
  BY DEF SessionInv
<1> QED
  BY <1>1, InvInit, InvStep, PTL DEF Spec

(* A changed password ends the sessions begun with an earlier one, but for *)
(* those of the mark's own second and those a check before the mark let    *)
(* through, also when the mark has expired.                                *)
THEOREM OldSessionsTurnedAway == Spec => []OldSessionsEnd
<1>1. SessionInv => OldSessionsEnd
  <2> SUFFICES ASSUME SessionInv, NEW s \in issued, up,
                      Stale(s.token.user, s.password), Accepted(s.token)
               PROVE  Excused(s.token)
    BY DEF OldSessionsEnd, Stale
  <2> DEFINE u == s.token.user
  <2>1. s.late \/ (mark[u] # NULL /\ s.token.iat <= mark[u].at)
    BY DEF SessionInv, StaleMarked
  <2>2. mark[u] # NULL => ~(s.token.iat < mark[u].at)
    BY DEF Accepted, BeforeMark
  <2>3. s.token.iat \in Nat /\ (mark[u] # NULL => mark[u].at \in Nat)
    BY SessionsConstants DEF SessionInv, TypeOK, Signature, Token, Time,
                             Optional, Mark
  <2> QED
    BY <2>1, <2>2, <2>3 DEF Excused
<1> QED
  BY <1>1, InvInit, InvStep, PTL DEF Spec

(* A session begun with the present password lasts as long as its token,   *)
(* unless its token was logged out or it began before the mark was set.    *)
THEOREM PresentSessionsKept == Spec => []PresentSessionsLast
<1>1. SessionInv => PresentSessionsLast
  <2> SUFFICES ASSUME SessionInv, NEW s \in issued, ~s.early,
                      s.password = password[s.token.user], s.token \notin out
               PROVE  Accepted(s.token)
    BY DEF PresentSessionsLast
  <2>1. ~Expired(s.token) /\ ~Blacklisted(s.token)
    BY DEF SessionInv, KeysLast, Blacklisted
  <2>2. ~BeforeMark(s.token)
    <3>1. /\ s.token.iat \in Nat
          /\ mark[s.token.user] # NULL => mark[s.token.user].at \in Nat
      BY SessionsConstants DEF SessionInv, TypeOK, Signature, Token, Time,
                               Optional, Mark
    <3> QED
      BY <3>1 DEF SessionInv, PresentKept, BeforeMark
  <2> QED
    BY <2>1, <2>2 DEF Accepted
<1> QED
  BY <1>1, InvInit, InvStep, PTL DEF Spec

(* A token that was logged out is not accepted again while Redis is up, and*)
(* a link that wrote a password is deleted, about to be, or was kept by a  *)
(* handler that failed.                                                    *)
THEOREM EndedStaysEnded == Spec => []EndedForGood
<1>1. SessionInv => EndedForGood
  BY DEF SessionInv, KeysLast, LinksSpent, EndedForGood, Accepted
<1> QED
  BY <1>1, InvInit, InvStep, PTL DEF Spec
=============================================================================
