------------------------- MODULE VerificationProofs -------------------------
(***************************************************************************)
(* What holds of Verification for any number of requests, users, addresses *)
(* and codes, and every choice of faults.                                  *)
(***************************************************************************)
EXTENDS Verification, TLAPS

(* What a handler needs for the call it waits for.                         *)
Ready(h) ==
  /\ h.pc # "idle" => h.email \in Emails
  /\ h.pc \in {"check", "limit"} => h.action \in Actions
  /\ \/ h.pc = "change"
     \/ h.pc \in {"check", "limit"} /\ h.action = "update-email"
     => h.user \in Users /\ h.new \in Emails
  /\ h.pc = "clear" => h.new \in Emails
  /\ h.pc \in {"store", "verify"} => h.code \in Codes

HandlersReady == \A r \in Requests : Ready(req[r])

(* A code lies, or is held, under the address it was mailed to.            *)
CodesMailed ==
  /\ \A e \in Emails :
       /\ code[e] # NULL => mailed[code[e]] = e
       /\ owed[e] # NULL => mailed[owed[e]] = e
  /\ \A r \in Requests :
       req[r].pc \in {"store", "verify"} => mailed[req[r].code] = req[r].email

(* Limits are kept under lower-case addresses.                             *)
LimitsNormal == \A l \in limit : l[2] = Normal(l[2])

(* Only rows that exist are verified, and their addresses are in lower     *)
(* case unless the history says otherwise.                                 *)
RowsSpelled ==
  \A u \in Users :
    /\ user[u].verified => Exists(u)
    /\ Exists(u) /\ u \notin respelled => user[u].email = Normal(user[u].email)

UsersInv == VerifiedWhereMailed /\ RowsSpelled
CodesInv == CodesMailed /\ LastCodeWorks
LimitsInv == LimitsNormal /\ LimitPassedOnce

AccountInv == TypeOK /\ HandlersReady /\ UsersInv /\ CodesInv /\ LimitsInv

-----------------------------------------------------------------------------
(* Handlers                                                                *)

LEMMA IdleTyped == Idle \in Handler /\ Ready(Idle) /\ Idle.pc = "idle"
BY DEF Idle, Handler, Pc, Optional, Ready

(* Replacing one handler leaves the others as they are.                    *)
LEMMA BecomeStep ==
  ASSUME NEW r \in Requests, NEW h \in Handler, Ready(h),
         TypeOK, HandlersReady, Become(r, h)
  PROVE  /\ req' \in [Requests -> Handler] /\ HandlersReady'
         /\ req'[r] = h
         /\ \A q \in Requests \ {r} : req'[q] = req[q]
BY DEF TypeOK, HandlersReady, Become

LEMMA UsersFrame ==
  ASSUME UsersInv, UNCHANGED <<user, proven, respelled>>
  PROVE  UsersInv'
BY DEF UsersInv, VerifiedWhereMailed, RowsSpelled, Exists

(* What holds of codes does not depend on handlers that store none.        *)
LEMMA CodesFrame ==
  ASSUME CodesInv, UNCHANGED <<code, mailed, owed>>, NEW r \in Requests,
         \A q \in Requests \ {r} : req'[q] = req[q],
         ~At(r, "store"), req'[r].pc \notin {"store", "verify"}
  PROVE  CodesInv'
BY DEF CodesInv, CodesMailed, LastCodeWorks, At

(* Limits may go, and a handler that is not about to set one may move.     *)
LEMMA LimitsFrame ==
  ASSUME LimitsInv, limit' \subseteq limit, NEW r \in Requests,
         \A q \in Requests \ {r} : req'[q] = req[q],
         req'[r].pc # "limit"
  PROVE  LimitsInv'
BY DEF LimitsInv, LimitsNormal, LimitPassedOnce, At

-----------------------------------------------------------------------------
(* The invariant                                                           *)

LEMMA InvInit == Init => AccountInv
BY IdleTyped, VerificationConstants
   DEF Init, AccountInv, TypeOK, HandlersReady, UsersInv, VerifiedWhereMailed,
       RowsSpelled, CodesInv, CodesMailed, LastCodeWorks, LimitsInv,
       LimitsNormal, LimitPassedOnce, At, Exists, NoUser, User, Optional, Limits

(* A handler that only looks, and does not go where a limit or a code is.  *)
LEMMA LookStep ==
  ASSUME AccountInv, NEW r \in Requests, NEW h \in Handler, Ready(h),
         Become(r, h), ~At(r, "store"), h.pc \notin {"limit", "store", "verify"},
         UNCHANGED <<user, code, limit, mailed, histories>>
  PROVE  AccountInv'
<1> USE DEF AccountInv
<1>1. /\ req' \in [Requests -> Handler] /\ HandlersReady'
      /\ req'[r] = h /\ \A q \in Requests \ {r} : req'[q] = req[q]
  BY BecomeStep
<1>2. TypeOK'
  BY <1>1 DEF TypeOK, Exists, histories
<1> QED
  BY <1>1, <1>2, UsersFrame, CodesFrame, LimitsFrame DEF histories

LEMMA SendReadStep ==
  ASSUME AccountInv, NEW r \in Requests, NEW e \in Emails, SendRead(r, e)
  PROVE  AccountInv'
<1> DEFINE h == [Idle EXCEPT !.pc = "check", !.action = "send-code",
                             !.email = e]
<1>1. h \in Handler /\ h.pc = "check" /\ Ready(h)
  BY IdleTyped DEF Handler, Pc, Optional, Actions, Ready
<1>2. /\ Become(r, h) /\ ~At(r, "store")
      /\ UNCHANGED <<user, code, limit, mailed, histories>>
  BY DEF SendRead, At
<1> HIDE DEF h
<1> QED
  BY <1>1, <1>2, LookStep

LEMMA VerifyReadStep ==
  ASSUME AccountInv, NEW r \in Requests, NEW e \in Emails, VerifyRead(r, e)
  PROVE  AccountInv'
<1> DEFINE h == [Idle EXCEPT !.pc = "enter", !.email = e]
<1>1. h \in Handler /\ h.pc = "enter" /\ Ready(h)
  BY IdleTyped DEF Handler, Pc, Optional, Ready
<1>2. /\ Become(r, h) /\ ~At(r, "store")
      /\ UNCHANGED <<user, code, limit, mailed, histories>>
  BY DEF VerifyRead, At
<1> HIDE DEF h
<1> QED
  BY <1>1, <1>2, LookStep

LEMMA ChangeReadStep ==
  ASSUME AccountInv, NEW r \in Requests, NEW u \in Users, NEW new \in Emails,
         ChangeRead(r, u, new)
  PROVE  AccountInv'
<1> DEFINE h == [Idle EXCEPT !.pc = "check", !.action = "update-email",
                      !.email = user[u].email, !.new = new, !.user = u]
<1>1. /\ Become(r, h) /\ ~At(r, "store") /\ user[u].email # NULL
      /\ UNCHANGED <<user, code, limit, mailed, histories>>
  BY DEF ChangeRead, At, Exists
<1>2. user[u].email \in Emails
  BY <1>1 DEF AccountInv, TypeOK, User, Optional
<1>3. h \in Handler /\ h.pc = "check" /\ Ready(h)
  BY <1>2, IdleTyped DEF Handler, Pc, Optional, Actions, Ready
<1> HIDE DEF h
<1> QED
  BY <1>1, <1>3, LookStep

LEMMA RejectStep ==
  ASSUME AccountInv, NEW r \in Requests, Reject(r)
  PROVE  AccountInv'
BY IdleTyped, LookStep DEF Reject, Return, At

(* The code of the address goes with the handler.                          *)
LEMMA VerifyEnterStep ==
  ASSUME AccountInv, NEW r \in Requests, VerifyEnter(r)
  PROVE  AccountInv'
<1> USE DEF AccountInv
<1> DEFINE e == req[r].email
           h == [req[r] EXCEPT !.pc = "verify", !.code = code[e]]
<1>1. /\ Become(r, h) /\ At(r, "enter") /\ code[e] # NULL
      /\ UNCHANGED <<user, code, limit, mailed, histories>>
  BY DEF VerifyEnter
<1>2. req[r] \in Handler /\ e \in Emails
  BY <1>1 DEF TypeOK, HandlersReady, Ready, At
<1>3. code[e] \in Codes
  BY <1>1, <1>2 DEF TypeOK, Optional
<1>4. /\ h \in Handler /\ Ready(h)
      /\ h.pc = "verify" /\ h.email = e /\ h.code = code[e]
  BY <1>2, <1>3 DEF Handler, Pc, Optional, Ready
<1> HIDE DEF h
<1>5. /\ req' \in [Requests -> Handler] /\ HandlersReady'
      /\ req'[r] = h /\ \A q \in Requests \ {r} : req'[q] = req[q]
  BY <1>1, <1>4, BecomeStep
<1>6. TypeOK'
  BY <1>1, <1>5 DEF TypeOK, Exists, histories
<1>7. CodesInv'
  BY <1>1, <1>2, <1>4, <1>5 DEF CodesInv, CodesMailed, LastCodeWorks, At, histories
<1> QED
  BY <1>1, <1>4, <1>5, <1>6, <1>7, UsersFrame, LimitsFrame DEF histories

-----------------------------------------------------------------------------
(* Limits                                                                  *)

(* A limit that matches a handler's action and address is its limit.       *)
LEMMA LimitMatches ==
  ASSUME TypeOK, LimitsNormal, NEW l \in limit, NEW h \in Handler,
         l[1] = h.action, Normal(l[2]) = Normal(h.email)
  PROVE  l = LimitOf(h)
BY DEF TypeOK, Limits, LimitsNormal, LimitOf

LEMMA CheckLimitStep ==
  ASSUME AccountInv, NEW r \in Requests, CheckLimit(r)
  PROVE  AccountInv'
<1> USE DEF AccountInv
<1> DEFINE h == [req[r] EXCEPT !.pc = "limit"]
<1>1. /\ Become(r, h) /\ At(r, "check") /\ LimitOf(req[r]) \notin limit
      /\ UNCHANGED <<user, code, limit, mailed, histories>>
  BY DEF CheckLimit, Goto
<1>2. req[r] \in Handler /\ Ready(req[r])
  BY DEF TypeOK, HandlersReady
<1>3. /\ h \in Handler /\ Ready(h) /\ h.pc = "limit"
      /\ h.action = req[r].action /\ h.email = req[r].email
  BY <1>1, <1>2 DEF Handler, Pc, Ready, At
<1> HIDE DEF h
<1>4. /\ req' \in [Requests -> Handler] /\ HandlersReady'
      /\ req'[r] = h /\ \A q \in Requests \ {r} : req'[q] = req[q]
  BY <1>1, <1>3, BecomeStep
<1>5. TypeOK'
  BY <1>1, <1>4 DEF TypeOK, Exists, histories
<1>6. \A l \in limit :
        ~(l[1] = h.action /\ Normal(l[2]) = Normal(h.email))
  BY <1>1, <1>2, <1>3, LimitMatches DEF LimitsInv
<1>7. LimitsInv'
  BY <1>1, <1>4, <1>6 DEF LimitsInv, LimitsNormal, LimitPassedOnce, At
<1> QED
  BY <1>1, <1>3, <1>4, <1>5, <1>7, UsersFrame, CodesFrame DEF At, histories

(* Whoever is about to set the same limit is marked as raced.              *)
LEMMA SetLimitStep ==
  ASSUME AccountInv, NEW r \in Requests, SetLimit(r)
  PROVE  AccountInv'
<1> USE DEF AccountInv
<1>1. /\ At(r, "limit") /\ limit' = limit \cup {LimitOf(req[r])}
      /\ req' = [q \in Requests |->
                   IF q = r THEN Passed(req[r])
                   ELSE IF q \in AlsoPassing(r)
                        THEN [req[q] EXCEPT !.raced = TRUE]
                        ELSE req[q]]
      /\ UNCHANGED <<user, code, mailed, histories>>
  BY DEF SetLimit
<1>2. \A q \in Requests : req[q] \in Handler /\ Ready(req[q])
  BY DEF TypeOK, HandlersReady
<1>3. LET h == req'[r] IN
      /\ h \in Handler /\ Ready(h) /\ h.pc \in {"mail", "change"}
  <2> DEFINE h == Passed(req[r])
  <2>1. h \in Handler /\ h.pc \in {"mail", "change"}
    BY <1>1, <1>2 DEF Passed, Handler, Pc, Optional
  <2>2. Ready(h)
    BY <1>1, <1>2 DEF Passed, Handler, Ready, Actions, At
  <2>3. req'[r] = h
    BY <1>1
  <2> HIDE DEF h
  <2> QED
    BY <2>1, <2>2, <2>3
<1>4. \A q \in Requests \ {r} :
        /\ req'[q] \in Handler /\ Ready(req'[q])
        /\ req'[q].pc = req[q].pc /\ req'[q].action = req[q].action
        /\ req'[q].email = req[q].email /\ req'[q].code = req[q].code
        /\ req'[q].raced = (req[q].raced \/ q \in AlsoPassing(r))
  <2> SUFFICES ASSUME NEW q \in Requests \ {r}
      PROVE /\ req'[q] \in Handler /\ Ready(req'[q])
            /\ req'[q].pc = req[q].pc /\ req'[q].action = req[q].action
            /\ req'[q].email = req[q].email /\ req'[q].code = req[q].code
            /\ req'[q].raced = (req[q].raced \/ q \in AlsoPassing(r))
    OBVIOUS
  <2>1. CASE q \in AlsoPassing(r)
    <3>1. req'[q] = [req[q] EXCEPT !.raced = TRUE]
      BY <1>1, <2>1
    <3> QED
      BY <1>2, <2>1, <3>1 DEF Handler, Ready
  <2>2. CASE q \notin AlsoPassing(r)
    <3>1. req'[q] = req[q]
      BY <1>1, <2>2
    <3> QED
      BY <1>2, <2>2, <3>1 DEF Handler
  <2> QED
    BY <2>1, <2>2
<1>5. LimitOf(req[r]) \in Limits /\ LimitOf(req[r])[1] = req[r].action
      /\ LimitOf(req[r])[2] = Normal(req[r].email)
      /\ Normal(Normal(req[r].email)) = Normal(req[r].email)
  <2>1. req[r].action \in Actions /\ req[r].email \in Emails
    BY <1>1, <1>2 DEF Ready, At
  <2>2. Normal(req[r].email) \in Emails
    BY <2>1, VerificationConstants
  <2> QED
    BY <2>1, <2>2 DEF LimitOf, Limits, Normal
<1>6. TypeOK'
  <2>1. req' \in [Requests -> Handler]
    BY <1>1, <1>3, <1>4
  <2> QED
    BY <1>1, <1>5, <2>1 DEF TypeOK, Exists, histories
<1>7. HandlersReady'
  BY <1>3, <1>4 DEF HandlersReady
<1>8. CodesInv'
  BY <1>1, <1>3, <1>4 DEF CodesInv, CodesMailed, LastCodeWorks, At, histories
<1>9. LimitsNormal'
  BY <1>1, <1>5 DEF LimitsInv, LimitsNormal
<1>10. LimitPassedOnce'
  <2> SUFFICES ASSUME NEW q \in Requests, req'[q].pc = "limit",
                      NEW l \in limit', l[1] = req'[q].action,
                      Normal(l[2]) = Normal(req'[q].email)
               PROVE  req'[q].raced
    BY DEF LimitPassedOnce, At
  <2>1. q # r
    BY <1>3
  <2>2. /\ req[q].pc = "limit" /\ l[1] = req[q].action
        /\ Normal(l[2]) = Normal(req[q].email)
        /\ req'[q].raced = (req[q].raced \/ q \in AlsoPassing(r))
    BY <1>4, <2>1
  <2>3. CASE l \in limit
    <3>1. req[q].raced
      BY <2>2, <2>3 DEF LimitsInv, LimitPassedOnce, At
    <3> QED
      BY <2>2, <3>1
  <2>4. CASE l = LimitOf(req[r])
    <3>1. q \in AlsoPassing(r)
      BY <1>5, <2>1, <2>2, <2>4 DEF AlsoPassing, At
    <3> QED
      BY <2>2, <3>1
  <2> QED
    BY <1>1, <2>3, <2>4
<1> QED
  BY <1>1, <1>6, <1>7, <1>8, <1>9, <1>10, UsersFrame DEF LimitsInv, histories

LEMMA LimitExpiresStep ==
  ASSUME AccountInv, NEW l \in Limits, LimitExpires(l)
  PROVE  AccountInv'
<1> USE DEF AccountInv
<1>1. /\ limit' = limit \ {l}
      /\ UNCHANGED <<user, code, mailed, req, histories>>
  BY DEF LimitExpires
<1>2. TypeOK' /\ HandlersReady'
  BY <1>1 DEF TypeOK, HandlersReady, Exists, histories
<1>3. CodesInv' /\ LimitsInv'
  BY <1>1 DEF CodesInv, CodesMailed, LastCodeWorks, LimitsInv, LimitsNormal,
              LimitPassedOnce, At, histories
<1> QED
  BY <1>1, <1>2, <1>3, UsersFrame DEF histories

-----------------------------------------------------------------------------
(* Codes                                                                   *)

LEMMA SendMailStep ==
  ASSUME AccountInv, NEW r \in Requests, NEW c \in Codes, SendMail(r, c)
  PROVE  AccountInv'
<1> USE DEF AccountInv
<1> DEFINE e == req[r].email
           h == [req[r] EXCEPT !.pc = "store", !.code = c]
<1>1. /\ At(r, "mail") /\ mailed[c] = NULL /\ Become(r, h)
      /\ mailed' = [mailed EXCEPT ![c] = e]
      /\ owed' = [owed EXCEPT ![e] = c]
      /\ UNCHANGED <<user, code, limit, proven, respelled>>
  BY DEF SendMail
<1>2. req[r] \in Handler /\ e \in Emails
  BY <1>1 DEF TypeOK, HandlersReady, Ready, At
<1>3. /\ h \in Handler /\ Ready(h)
      /\ h.pc = "store" /\ h.email = e /\ h.code = c
  BY <1>2 DEF Handler, Pc, Optional, Ready
<1> HIDE DEF h
<1>4. /\ req' \in [Requests -> Handler] /\ HandlersReady'
      /\ req'[r] = h /\ \A q \in Requests \ {r} : req'[q] = req[q]
  BY <1>1, <1>3, BecomeStep
<1>5. TypeOK'
  BY <1>1, <1>2, <1>4 DEF TypeOK, Exists, Optional
<1>6. /\ mailed'[c] = e /\ owed'[e] = c
      /\ \A d \in Codes \ {c} : mailed'[d] = mailed[d]
      /\ \A f \in Emails \ {e} : owed'[f] = owed[f]
  BY <1>1, <1>2 DEF TypeOK
<1>7. CodesMailed'
  <2>1. \A f \in Emails : code[f] # NULL => mailed'[code[f]] = f
    BY <1>1, <1>6, VerificationConstants DEF CodesInv, CodesMailed, TypeOK,
       Optional
  <2>2. \A f \in Emails : owed'[f] # NULL => mailed'[owed'[f]] = f
    BY <1>1, <1>6, VerificationConstants DEF CodesInv, CodesMailed, TypeOK,
       Optional
  <2>3. \A q \in Requests : req'[q].pc \in {"store", "verify"} =>
          mailed'[req'[q].code] = req'[q].email
    <3> SUFFICES ASSUME NEW q \in Requests, req'[q].pc \in {"store", "verify"}
                 PROVE  mailed'[req'[q].code] = req'[q].email
      OBVIOUS
    <3>1. CASE q = r
      BY <1>3, <1>4, <1>6, <3>1
    <3>2. CASE q # r
      <4>1. req'[q] = req[q]
        BY <1>4, <3>2
      <4>2. /\ req[q].code \in Codes /\ req[q].email \in Emails
            /\ mailed[req[q].code] = req[q].email
        BY <4>1 DEF CodesInv, CodesMailed, HandlersReady, Ready
      <4> QED
        BY <1>1, <1>6, <4>1, <4>2, VerificationConstants
    <3> QED
      BY <3>1, <3>2
  <2> QED
    BY <1>1, <2>1, <2>2, <2>3 DEF CodesMailed
<1>8. LastCodeWorks'
  BY <1>1, <1>3, <1>4, <1>6 DEF CodesInv, LastCodeWorks, At
<1> QED
  BY <1>1, <1>3, <1>4, <1>5, <1>7, <1>8, UsersFrame, LimitsFrame DEF CodesInv

LEMMA SendMailLostStep ==
  ASSUME AccountInv, NEW r \in Requests, NEW c \in Codes, SendMailLost(r, c)
  PROVE  AccountInv'
<1> USE DEF AccountInv
<1> DEFINE e == req[r].email
<1>1. /\ At(r, "mail") /\ mailed[c] = NULL /\ Become(r, Idle)
      /\ mailed' = [mailed EXCEPT ![c] = e]
      /\ owed' = [owed EXCEPT ![e] = NULL]
      /\ UNCHANGED <<user, code, limit, proven, respelled>>
  BY DEF SendMailLost, Return
<1>2. e \in Emails
  BY <1>1 DEF HandlersReady, Ready, At
<1>4. /\ req' \in [Requests -> Handler] /\ HandlersReady'
      /\ req'[r] = Idle /\ \A q \in Requests \ {r} : req'[q] = req[q]
  BY <1>1, IdleTyped, BecomeStep
<1>5. TypeOK'
  BY <1>1, <1>2, <1>4 DEF TypeOK, Exists, Optional
<1>6. /\ owed'[e] = NULL
      /\ \A d \in Codes \ {c} : mailed'[d] = mailed[d]
      /\ \A f \in Emails \ {e} : owed'[f] = owed[f]
  BY <1>1, <1>2 DEF TypeOK
<1>7. CodesMailed'
  <2>1. \A f \in Emails : code[f] # NULL => mailed'[code[f]] = f
    BY <1>1, <1>6, VerificationConstants DEF CodesInv, CodesMailed, TypeOK,
       Optional
  <2>2. \A f \in Emails : owed'[f] # NULL => mailed'[owed'[f]] = f
    BY <1>1, <1>6, VerificationConstants DEF CodesInv, CodesMailed, TypeOK,
       Optional
  <2>3. \A q \in Requests : req'[q].pc \in {"store", "verify"} =>
          mailed'[req'[q].code] = req'[q].email
    <3> SUFFICES ASSUME NEW q \in Requests, req'[q].pc \in {"store", "verify"}
                 PROVE  mailed'[req'[q].code] = req'[q].email
      OBVIOUS
    <3>1. q # r /\ req'[q] = req[q]
      BY <1>4, IdleTyped
    <3>2. /\ req[q].code \in Codes /\ req[q].email \in Emails
          /\ mailed[req[q].code] = req[q].email
      BY <3>1 DEF CodesInv, CodesMailed, HandlersReady, Ready
    <3> QED
      BY <1>1, <1>6, <3>1, <3>2, VerificationConstants
  <2> QED
    BY <1>1, <2>1, <2>2, <2>3 DEF CodesMailed
<1>8. LastCodeWorks'
  BY <1>1, <1>4, <1>6 DEF CodesInv, LastCodeWorks, At
<1> QED
  BY <1>1, <1>4, <1>5, <1>7, <1>8, IdleTyped, UsersFrame, LimitsFrame
     DEF CodesInv

(* A store over the code of a later mail ends what was owed for that one.  *)
LEMMA SendStoreStep ==
  ASSUME AccountInv, NEW r \in Requests, SendStore(r)
  PROVE  AccountInv'
<1> USE DEF AccountInv
<1> DEFINE h == req[r]
<1>1. /\ At(r, "store") /\ code' = [code EXCEPT ![h.email] = h.code]
      /\ owed' = IF Overtaking(h) THEN [owed EXCEPT ![h.email] = NULL] ELSE owed
      /\ Become(r, Idle)
      /\ UNCHANGED <<user, limit, mailed, proven, respelled>>
  BY DEF SendStore, Return
<1>2. h \in Handler /\ h.email \in Emails /\ h.code \in Codes
      /\ mailed[h.code] = h.email
  BY <1>1 DEF TypeOK, HandlersReady, Ready, At, CodesInv, CodesMailed
<1>3. /\ req' \in [Requests -> Handler] /\ HandlersReady'
      /\ req'[r] = Idle /\ \A q \in Requests \ {r} : req'[q] = req[q]
  BY <1>1, IdleTyped, BecomeStep
<1>4. /\ code'[h.email] = h.code
      /\ \A e \in Emails \ {h.email} : code'[e] = code[e] /\ owed'[e] = owed[e]
      /\ owed'[h.email] \in {owed[h.email], NULL}
      /\ Overtaking(h) => owed'[h.email] = NULL
      /\ code' \in [Emails -> Optional(Codes)]
      /\ owed' \in [Emails -> Optional(Codes)]
  BY <1>1, <1>2 DEF TypeOK, Optional
<1>5. TypeOK'
  BY <1>1, <1>3, <1>4 DEF TypeOK, Exists
<1>6. CodesMailed'
  BY <1>1, <1>2, <1>3, <1>4, IdleTyped DEF CodesInv, CodesMailed
<1>7. LastCodeWorks'
  <2> SUFFICES ASSUME NEW e \in Emails, owed'[e] # NULL
               PROVE  \/ code'[e] = owed'[e]
                      \/ \E q \in Requests : /\ req'[q].pc = "store"
                                             /\ req'[q].code = owed'[e]
    BY DEF LastCodeWorks, At
  <2>1. owed'[e] = owed[e] /\ mailed[owed[e]] = e
    BY <1>4 DEF CodesInv, CodesMailed
  <2>2. \/ code[e] = owed[e]
        \/ \E q \in Requests : At(q, "store") /\ req[q].code = owed[e]
    BY <2>1 DEF CodesInv, LastCodeWorks
  <2>3. CASE e # h.email
    BY <1>1, <1>2, <1>3, <1>4, <2>1, <2>2, <2>3 DEF At
  <2>4. CASE e = h.email
    BY <1>1, <1>3, <1>4, <2>1, <2>2, <2>4 DEF At, Overtaking
  <2> QED
    BY <2>3, <2>4
<1> QED
  BY <1>1, <1>3, <1>5, <1>6, <1>7, IdleTyped, UsersFrame, LimitsFrame
     DEF CodesInv

(* The code of an address is deleted or expires: no code is owed there.    *)
LEMMA ForgetCodes ==
  ASSUME AccountInv, NEW e \in Emails, Forget(e), UNCHANGED mailed,
         \A q \in Requests : At(q, "store") =>
           req'[q].pc = "store" /\ req'[q].code = req[q].code,
         \A q \in Requests : req'[q].pc \in {"store", "verify"} =>
           mailed[req'[q].code] = req'[q].email
  PROVE  /\ CodesInv'
         /\ code' \in [Emails -> Optional(Codes)]
         /\ owed' \in [Emails -> Optional(Codes)]
BY DEF AccountInv, TypeOK, Forget, CodesInv, CodesMailed, LastCodeWorks, At,
       Optional

LEMMA CodeExpiresStep ==
  ASSUME AccountInv, NEW e \in Emails, CodeExpires(e)
  PROVE  AccountInv'
<1> USE DEF AccountInv
<1>1. /\ Forget(e) /\ UNCHANGED <<user, limit, mailed, req, proven, respelled>>
  BY DEF CodeExpires, Forget
<1>2. /\ CodesInv'
      /\ code' \in [Emails -> Optional(Codes)]
      /\ owed' \in [Emails -> Optional(Codes)]
  BY <1>1, ForgetCodes DEF CodesInv, CodesMailed, At
<1>3. TypeOK' /\ HandlersReady' /\ LimitsInv'
  BY <1>1, <1>2 DEF TypeOK, HandlersReady, Exists, LimitsInv, LimitsNormal,
                    LimitPassedOnce, At
<1> QED
  BY <1>1, <1>2, <1>3, UsersFrame

LEMMA VerifyForgetStep ==
  ASSUME AccountInv, NEW r \in Requests, VerifyForget(r)
  PROVE  AccountInv'
<1> USE DEF AccountInv
<1> DEFINE e == req[r].email
<1>1. /\ Forget(e) /\ At(r, "forget") /\ Become(r, Idle)
      /\ UNCHANGED <<user, limit, mailed, proven, respelled>>
  BY DEF VerifyForget, Return
<1>2. e \in Emails
  BY <1>1 DEF HandlersReady, Ready, At
<1>3. /\ req' \in [Requests -> Handler] /\ HandlersReady'
      /\ req'[r] = Idle /\ \A q \in Requests \ {r} : req'[q] = req[q]
  BY <1>1, IdleTyped, BecomeStep
<1>4. /\ CodesInv'
      /\ code' \in [Emails -> Optional(Codes)]
      /\ owed' \in [Emails -> Optional(Codes)]
  BY <1>1, <1>2, <1>3, IdleTyped, ForgetCodes DEF CodesInv, CodesMailed, At
<1>5. TypeOK'
  BY <1>1, <1>3, <1>4 DEF TypeOK, Exists
<1> QED
  BY <1>1, <1>3, <1>4, <1>5, IdleTyped, UsersFrame, LimitsFrame

LEMMA ChangeClearStep ==
  ASSUME AccountInv, NEW r \in Requests, ChangeClear(r)
  PROVE  AccountInv'
<1> USE DEF AccountInv
<1> DEFINE e == req[r].email
           h == [Idle EXCEPT !.pc = "read", !.email = req[r].new]
<1>1. /\ Forget(e) /\ At(r, "clear") /\ Become(r, h)
      /\ UNCHANGED <<user, limit, mailed, proven, respelled>>
  BY DEF ChangeClear
<1>2. e \in Emails /\ req[r].new \in Emails
  BY <1>1 DEF HandlersReady, Ready, At
<1>3. h \in Handler /\ h.pc = "read" /\ Ready(h)
  BY <1>2, IdleTyped DEF Handler, Pc, Optional, Ready
<1> HIDE DEF h
<1>4. /\ req' \in [Requests -> Handler] /\ HandlersReady'
      /\ req'[r] = h /\ \A q \in Requests \ {r} : req'[q] = req[q]
  BY <1>1, <1>3, BecomeStep
<1>5. /\ CodesInv'
      /\ code' \in [Emails -> Optional(Codes)]
      /\ owed' \in [Emails -> Optional(Codes)]
  BY <1>1, <1>2, <1>3, <1>4, ForgetCodes DEF CodesInv, CodesMailed, At
<1>6. TypeOK'
  BY <1>1, <1>4, <1>5 DEF TypeOK, Exists
<1> QED
  BY <1>1, <1>3, <1>4, <1>5, <1>6, UsersFrame, LimitsFrame

(* Handlers that end without storing what they mailed owe nothing.         *)
LEMMA EndCodes ==
  ASSUME AccountInv, NEW Q \in SUBSET Requests, owed' = Unpaid(Q),
         UNCHANGED <<user, code, limit, mailed, proven, respelled>>,
         \A q \in Q : req'[q] = Idle,
         \A q \in Requests \ Q : req'[q] = req[q],
         req' \in [Requests -> Handler]
  PROVE  AccountInv'
<1> USE DEF AccountInv
<1>1. \A e \in Emails :
        \/ owed'[e] = NULL
        \/ /\ owed'[e] = owed[e]
           /\ \A q \in Q : ~(At(q, "store") /\ req[q].code = owed[e])
  BY DEF Unpaid
<1>2. owed' \in [Emails -> Optional(Codes)]
  BY DEF Unpaid, TypeOK, Optional
<1>3. TypeOK' /\ HandlersReady'
  BY <1>2, IdleTyped DEF TypeOK, Exists, HandlersReady
<1>4. CodesInv'
  BY <1>1, IdleTyped DEF CodesInv, CodesMailed, LastCodeWorks, At
<1>5. LimitsInv'
  BY IdleTyped DEF LimitsInv, LimitsNormal, LimitPassedOnce, At
<1> QED
  BY <1>3, <1>4, <1>5, UsersFrame

LEMMA ErrorStep ==
  ASSUME AccountInv, NEW r \in Requests, Error(r)
  PROVE  AccountInv'
<1>1. /\ owed' = Unpaid({r}) /\ Become(r, Idle)
      /\ UNCHANGED <<user, code, limit, mailed, proven, respelled>>
  BY DEF Error, Return
<1>2. /\ req' \in [Requests -> Handler]
      /\ req'[r] = Idle /\ \A q \in Requests \ {r} : req'[q] = req[q]
  BY <1>1, IdleTyped, BecomeStep DEF AccountInv
<1> QED
  BY <1>1, <1>2, EndCodes

LEMMA CrashStep ==
  ASSUME AccountInv, Crash
  PROVE  AccountInv'
BY IdleTyped, EndCodes DEF Crash

-----------------------------------------------------------------------------
(* Rows                                                                    *)

(* The row a verification writes is at the address the code was mailed to. *)
LEMMA VerifyWriteStep ==
  ASSUME AccountInv, NEW r \in Requests, VerifyWrite(r)
  PROVE  AccountInv'
<1> USE DEF AccountInv
<1> DEFINE h == [req[r] EXCEPT !.pc = "forget", !.code = NULL]
<1>1. PICK u \in Users :
        /\ user[u].email = req[r].email
        /\ user' = [user EXCEPT ![u].verified = TRUE]
        /\ proven' = [proven EXCEPT ![u] = mailed[req[r].code]]
  BY DEF VerifyWrite, UsersAt
<1>2. /\ At(r, "verify") /\ Become(r, h)
      /\ UNCHANGED <<code, limit, mailed, respelled, owed>>
  BY DEF VerifyWrite
<1>3. /\ req[r] \in Handler /\ req[r].email \in Emails
      /\ mailed[req[r].code] = req[r].email
  BY <1>2 DEF TypeOK, HandlersReady, Ready, At, CodesInv, CodesMailed
<1>4. h \in Handler /\ h.pc = "forget" /\ Ready(h)
  BY <1>3 DEF Handler, Pc, Optional, Ready
<1> HIDE DEF h
<1>5. /\ req' \in [Requests -> Handler] /\ HandlersReady'
      /\ req'[r] = h /\ \A q \in Requests \ {r} : req'[q] = req[q]
  BY <1>2, <1>4, BecomeStep
<1>6. /\ user' \in [Users -> User]
      /\ user'[u].verified /\ user'[u].email = user[u].email
      /\ \A v \in Users \ {u} : user'[v] = user[v]
      /\ proven' \in [Users -> Optional(Emails)]
      /\ proven'[u] = user[u].email
      /\ \A v \in Users \ {u} : proven'[v] = proven[v]
  BY <1>1, <1>3 DEF TypeOK, User, Optional
<1>7. TypeOK'
  BY <1>2, <1>5, <1>6 DEF TypeOK, Exists
<1>8. UsersInv'
  BY <1>1, <1>2, <1>3, <1>6, VerificationConstants
     DEF UsersInv, VerifiedWhereMailed, RowsSpelled, Exists
<1> QED
  BY <1>2, <1>4, <1>5, <1>7, <1>8, CodesFrame, LimitsFrame DEF At

(* Codes and limits are not touched by writes to rows.                     *)
LEMMA RowsFrame ==
  ASSUME AccountInv, UNCHANGED <<code, limit, mailed, req, owed>>
  PROVE  HandlersReady' /\ CodesInv' /\ LimitsInv'
BY DEF AccountInv, HandlersReady, CodesInv, CodesMailed, LastCodeWorks,
       LimitsInv, LimitsNormal, LimitPassedOnce, At

LEMMA RespelledStep ==
  ASSUME NEW u \in Users, NEW e \in Emails, respelled \subseteq Users,
         Respelled(u, e)
  PROVE  /\ respelled' \subseteq Users
         /\ \A v \in Users \ {u} : v \in respelled' <=> v \in respelled
         /\ u \notin respelled' => e = Normal(e)
BY DEF Respelled

LEMMA CreateStep ==
  ASSUME AccountInv, NEW u \in Users, NEW e \in Emails, NEW byAdmin \in BOOLEAN,
         Create(u, e, byAdmin)
  PROVE  AccountInv'
<1> USE DEF AccountInv
<1> DEFINE new == Created(e, byAdmin)
<1>1. /\ user[u] = NoUser /\ Free(new.email, u)
      /\ user' = [user EXCEPT ![u] = new]
      /\ proven' = [proven EXCEPT ![u] = IF byAdmin THEN new.email ELSE NULL]
      /\ UNCHANGED <<code, limit, mailed, req, respelled, owed>>
  BY DEF Create
<1>2. /\ new \in User /\ new.email = Normal(e) /\ new.verified = byAdmin
      /\ Normal(e) \in Emails /\ Normal(Normal(e)) = Normal(e)
  BY VerificationConstants DEF Created, NoUser, User, Optional, Normal
<1> HIDE DEF new
<1>3. /\ user'[u] = new /\ user' \in [Users -> User]
      /\ \A v \in Users \ {u} : user'[v] = user[v]
      /\ proven' \in [Users -> Optional(Emails)]
      /\ byAdmin => proven'[u] = new.email
      /\ \A v \in Users \ {u} : proven'[v] = proven[v]
  BY <1>1, <1>2 DEF TypeOK, Optional
<1>4. TypeOK'
  BY <1>1, <1>2, <1>3 DEF TypeOK, Exists, Free, UsersAt
<1>5. UsersInv'
  BY <1>1, <1>2, <1>3, VerificationConstants
     DEF UsersInv, VerifiedWhereMailed, RowsSpelled, Exists
<1> QED
  BY <1>1, <1>4, <1>5, RowsFrame

LEMMA AdminUpdateStep ==
  ASSUME AccountInv, NEW u \in Users, NEW e \in Emails, AdminUpdate(u, e)
  PROVE  AccountInv'
<1> USE DEF AccountInv
<1>1. /\ Exists(u) /\ Free(e, u) /\ Respelled(u, e)
      /\ user' = [user EXCEPT ![u].email = e]
      /\ proven' = [proven EXCEPT ![u] = IF user[u].verified THEN e ELSE NULL]
      /\ UNCHANGED <<code, limit, mailed, req, owed>>
  BY DEF AdminUpdate
<1>2. /\ user' \in [Users -> User]
      /\ user'[u].email = e /\ user'[u].verified = user[u].verified
      /\ \A v \in Users \ {u} : user'[v] = user[v]
      /\ proven' \in [Users -> Optional(Emails)]
      /\ user[u].verified => proven'[u] = e
      /\ \A v \in Users \ {u} : proven'[v] = proven[v]
  BY <1>1 DEF TypeOK, User, Optional
<1>3. /\ respelled' \subseteq Users
      /\ \A v \in Users \ {u} : v \in respelled' <=> v \in respelled
      /\ u \notin respelled' => e = Normal(e)
  BY <1>1, RespelledStep DEF TypeOK
<1>4. TypeOK'
  BY <1>1, <1>2, <1>3 DEF TypeOK, Exists, Free, UsersAt
<1>5. UsersInv'
  BY <1>2, <1>3, VerificationConstants
     DEF UsersInv, VerifiedWhereMailed, RowsSpelled, Exists
<1> QED
  BY <1>1, <1>4, <1>5, RowsFrame

LEMMA RemoveStep ==
  ASSUME AccountInv, NEW u \in Users, Remove(u)
  PROVE  AccountInv'
<1> USE DEF AccountInv
<1>1. /\ user' = [user EXCEPT ![u] = Gone]
      /\ proven' = [proven EXCEPT ![u] = NULL]
      /\ respelled' = respelled \ {u}
      /\ UNCHANGED <<code, limit, mailed, req, owed>>
  BY DEF Remove
<1>2. Gone \in User /\ Gone.email = NULL /\ Gone.verified = FALSE
  BY DEF Gone, NoUser, User, Optional
<1>3. TypeOK'
  BY <1>1, <1>2 DEF TypeOK, Exists, Optional
<1>4. UsersInv'
  BY <1>1, <1>2
     DEF TypeOK, UsersInv, VerifiedWhereMailed, RowsSpelled, Exists
<1> QED
  BY <1>1, <1>3, <1>4, RowsFrame

(* The row is found by its id; whatever address it had, it has the new one *)
(* now, and is not verified.                                               *)
LEMMA ChangeWriteStep ==
  ASSUME AccountInv, NEW r \in Requests, ChangeWrite(r)
  PROVE  AccountInv'
<1> USE DEF AccountInv
<1> DEFINE u == req[r].user
           new == req[r].new
           h == [req[r] EXCEPT !.pc = "clear", !.user = NULL]
<1>1. /\ At(r, "change") /\ Exists(u) /\ Free(new, u) /\ Respelled(u, new)
      /\ user' = [user EXCEPT ![u] = Moved(u, new)]
      /\ Become(r, h)
      /\ UNCHANGED <<code, limit, mailed, proven, owed>>
  BY DEF ChangeWrite
<1>2. /\ req[r] \in Handler /\ Ready(req[r])
      /\ u \in Users /\ new \in Emails
  BY <1>1 DEF TypeOK, HandlersReady, Ready, At
<1>3. h \in Handler /\ h.pc = "clear" /\ Ready(h)
  BY <1>1, <1>2 DEF Handler, Pc, Optional, Ready, At
<1> HIDE DEF h
<1>4. /\ req' \in [Requests -> Handler] /\ HandlersReady'
      /\ req'[r] = h /\ \A q \in Requests \ {r} : req'[q] = req[q]
  BY <1>1, <1>3, BecomeStep
<1>5. /\ user' \in [Users -> User]
      /\ user'[u].email = new /\ user'[u].verified = FALSE
      /\ \A v \in Users \ {u} : user'[v] = user[v]
  <2>1. user[u] \in User
    BY <1>2 DEF TypeOK
  <2>2. /\ Moved(u, new) \in User
        /\ Moved(u, new).email = new /\ Moved(u, new).verified = FALSE
    BY <1>2, <2>1 DEF Moved, User, Optional
  <2> QED
    BY <1>1, <1>2, <2>2 DEF TypeOK
<1>6. /\ respelled' \subseteq Users
      /\ \A v \in Users \ {u} : v \in respelled' <=> v \in respelled
      /\ u \notin respelled' => new = Normal(new)
  BY <1>1, <1>2, RespelledStep DEF TypeOK
<1>7. TypeOK'
  BY <1>1, <1>2, <1>4, <1>5, <1>6 DEF TypeOK, Exists, Free, UsersAt
<1>8. UsersInv'
  BY <1>1, <1>2, <1>5, <1>6
     DEF UsersInv, VerifiedWhereMailed, RowsSpelled, Exists
<1> QED
  BY <1>1, <1>3, <1>4, <1>7, <1>8, CodesFrame, LimitsFrame DEF At

-----------------------------------------------------------------------------
(* Theorems                                                                *)

LEMMA InvStep == AccountInv /\ [Next]_vars => AccountInv'
<1> SUFFICES ASSUME AccountInv, [Next]_vars PROVE AccountInv'
  OBVIOUS
<1>1. ASSUME NEW r \in Requests, Step(r) PROVE AccountInv'
  BY <1>1, CheckLimitStep, SetLimitStep, SendReadStep, SendMailStep,
     SendMailLostStep, SendStoreStep, VerifyReadStep, VerifyEnterStep,
     VerifyWriteStep, VerifyForgetStep, ChangeReadStep, ChangeWriteStep,
     ChangeClearStep, RejectStep, ErrorStep DEF Step
<1>2. CASE UNCHANGED vars
  <2>1. UNCHANGED <<user, code, limit, mailed, req, proven, respelled, owed>>
    BY <1>2 DEF vars
  <2>2. TypeOK'
    BY <2>1 DEF AccountInv, TypeOK, Exists
  <2> QED
    BY <2>1, <2>2, UsersFrame, RowsFrame DEF AccountInv
<1> QED
  BY <1>1, <1>2, CreateStep, AdminUpdateStep, RemoveStep, LimitExpiresStep,
     CodeExpiresStep, CrashStep DEF Next

LEMMA Invariance == Spec => []AccountInv
BY InvInit, InvStep, PTL DEF Spec

(* Rows, codes, limits and handlers keep their types, and no two accounts  *)
(* have one address.                                                       *)
THEOREM TypeCorrect == Spec => []TypeOK
<1>1. AccountInv => TypeOK
  BY DEF AccountInv
<1> QED
  BY <1>1, Invariance, PTL

(* No overlap of a verification with a change of the address carries the   *)
(* verification over to an address no code was mailed to.                  *)
THEOREM VerifiedOnlyWhereMailed == Spec => []VerifiedWhereMailed
<1>1. AccountInv => VerifiedWhereMailed
  BY DEF AccountInv, UsersInv
<1> QED
  BY <1>1, Invariance, PTL

(* The code mailed last is accepted, or about to be, unless one of the     *)
(* causes the history names took it away.                                  *)
THEOREM LastCodeAccepted == Spec => []LastCodeWorks
<1>1. AccountInv => LastCodeWorks
  BY DEF AccountInv, CodesInv
<1> QED
  BY <1>1, Invariance, PTL

(* Only a handler that overlapped another's check passes a set limit.      *)
THEOREM LimitsPassedOnce == Spec => []LimitPassedOnce
<1>1. AccountInv => LimitPassedOnce
  BY DEF AccountInv, LimitsInv
<1> QED
  BY <1>1, Invariance, PTL

(* Login finds a verified account by the address it was given, unless the  *)
(* address was written as typed.                                           *)
THEOREM LoginFinds == Spec => []LoginFindsAccount
<1>1. AccountInv => LoginFindsAccount
  <2> SUFFICES ASSUME AccountInv, NEW u \in Users,
                      user[u].verified, u \notin respelled
               PROVE  FoundByLogin(user[u].email) = {u}
    BY DEF LoginFindsAccount
  <2>1. Exists(u) /\ user[u].email = Normal(user[u].email)
    BY DEF AccountInv, UsersInv, RowsSpelled
  <2>2. \A v \in Users : user[u].email = user[v].email => u = v
    BY <2>1 DEF AccountInv, TypeOK
  <2> QED
    BY <2>1, <2>2 DEF FoundByLogin, UsersAt
<1> QED
  BY <1>1, Invariance, PTL
=============================================================================
