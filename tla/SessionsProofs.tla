---------------------------- MODULE SessionsProofs ----------------------------
(***************************************************************************)
(* What holds of sessions for any numbers of accounts, tokens, requests    *)
(* and disturbances and any lives of the two kinds of token.               *)
(***************************************************************************)
EXTENDS Sessions, TLAPS

LEMMA InitInv == Init => IInv
<1> SUFFICES ASSUME Init PROVE IInv
    OBVIOUS
<1> USE NamesAssumption, TimesAssumption DEF Init
<1>1. TypeOK
  BY DEF TypeOK, Role, Jwt, NoJwt
<1>2. RequestInv /\ TokenInv
  BY DEF RequestInv, TokenInv
<1>3. OneTokenPerSession /\ UseInv /\ SurvivalInv
  BY DEF OneTokenPerSession, UseInv, SurvivalInv
<1>4. RoleInv
  BY DEF RoleInv
<1> QED
  BY <1>1, <1>2, <1>3, <1>4 DEF IInv

------------------------------------------------------------------------------
(* Types and requests *)

\* One step per action.
LEMMA TypeStep == IInv /\ [Next]_vars => TypeOK'
<1> SUFFICES ASSUME IInv, [Next]_vars PROVE TypeOK'
    OBVIOUS
<1> USE NamesAssumption, TimesAssumption
<1> USE DEF IInv, TypeOK, RequestInv, Disturbance, Begin, Goto, rowVars, historyVars, requestVars
<1>1. ASSUME NEW q \in Requests, NEW u \in Users, FindAccount(q, u) PROVE TypeOK'
  BY <1>1 DEF FindAccount
<1>2. ASSUME NEW q \in Requests, NEW u \in Users, SignUp(q, u) PROVE TypeOK'
  BY <1>2 DEF SignUp, Sign, Role, Jwt
<1>3. ASSUME NEW q \in Requests, NEW u \in Users, NEW a \in access, AdminRequest(q, a, u)
      PROVE  TypeOK'
  BY <1>3 DEF AdminRequest
<1>4. ASSUME NEW t \in Tokens, SignOut(t) PROVE TypeOK'
  BY <1>4 DEF SignOut, Present, deleteByToken
<1>5. ASSUME NEW t \in Tokens, NEW q \in Requests, Refresh(q, t) PROVE TypeOK'
  BY <1>5 DEF Refresh, Present
<1>6. ASSUME NEW q \in Requests, Compare(q) PROVE TypeOK'
  BY <1>6 DEF Compare, Sign, Answer, Role, Jwt
<1>7. ASSUME NEW q \in Requests, Store(q) PROVE TypeOK'
  BY <1>7 DEF Store, Answer, Role
<1>8. ASSUME NEW q \in Requests, FindUser(q) PROVE TypeOK'
  BY <1>8 DEF FindUser, Answer, Role
<1>9. ASSUME NEW q \in Requests, DeleteOld(q) PROVE TypeOK'
  BY <1>9 DEF DeleteOld, Sign, deleteByToken, Jwt
<1>10. ASSUME NEW q \in Requests, DeleteExpired(q) PROVE TypeOK'
  BY <1>10 DEF DeleteExpired, Answer, deleteByToken, Role
<1>11. ASSUME NEW q \in Requests, SetRole(q) PROVE TypeOK'
  BY <1>11 DEF SetRole, Answer, Role
<1>12. ASSUME NEW q \in Requests, Remove(q) PROVE TypeOK'
  BY <1>12 DEF Remove, Answer, Cascade, Role
<1>13. ASSUME NEW q \in Requests, Fails(q) PROVE TypeOK'
  BY <1>13 DEF Fails, Answer, Role
<1>14. ASSUME NEW u \in Users, Promote(u) PROVE TypeOK'
  BY <1>14 DEF Promote, Role
<1>15. CASE Cleanup
  BY <1>15 DEF Cleanup
<1>16. CASE Tick
  BY <1>16 DEF Tick
<1>17. CASE UNCHANGED vars
  BY <1>17 DEF vars
<1> QED
  BY <1>1, <1>2, <1>3, <1>4, <1>5, <1>6, <1>7, <1>8, <1>9, <1>10, <1>11, <1>12, <1>13,
     <1>14, <1>15, <1>16, <1>17 DEF Next

\* The steps of a request keep what it relies on later; the other steps leave its
\* user, its token and the owner of that token alone.
LEMMA RequestStep == IInv /\ [Next]_vars => RequestInv' /\ TokenInv'
<1> SUFFICES ASSUME IInv, [Next]_vars PROVE RequestInv' /\ TokenInv'
    OBVIOUS
<1> USE NamesAssumption, TimesAssumption
<1> USE DEF IInv, TypeOK, RequestInv, TokenInv, Disturbance, Begin, Goto, rowVars,
        historyVars, requestVars
<1>1. ASSUME NEW q \in Requests, NEW u \in Users, FindAccount(q, u)
      PROVE  RequestInv' /\ TokenInv'
  BY <1>1 DEF FindAccount
<1>2. ASSUME NEW q \in Requests, NEW u \in Users, SignUp(q, u)
      PROVE  RequestInv' /\ TokenInv'
  BY <1>2 DEF SignUp, Sign, Role, Jwt
<1>3. ASSUME NEW q \in Requests, NEW u \in Users, NEW a \in access, AdminRequest(q, a, u)
      PROVE  RequestInv' /\ TokenInv'
  BY <1>3 DEF AdminRequest
<1>4. ASSUME NEW t \in Tokens, SignOut(t) PROVE RequestInv' /\ TokenInv'
  BY <1>4 DEF SignOut, Present
<1>5. ASSUME NEW t \in Tokens, NEW q \in Requests, Refresh(q, t)
      PROVE  RequestInv' /\ TokenInv'
  BY <1>5 DEF Refresh, Present
<1>6. ASSUME NEW q \in Requests, Compare(q) PROVE RequestInv' /\ TokenInv'
  BY <1>6 DEF Compare, Sign, Answer, Jwt
<1>7. ASSUME NEW q \in Requests, Store(q) PROVE RequestInv' /\ TokenInv'
  BY <1>7 DEF Store, Answer
<1>8. ASSUME NEW q \in Requests, FindUser(q) PROVE RequestInv' /\ TokenInv'
  BY <1>8 DEF FindUser, Answer
<1>9. ASSUME NEW q \in Requests, DeleteOld(q) PROVE RequestInv' /\ TokenInv'
  BY <1>9 DEF DeleteOld, Sign, Jwt
<1>10. ASSUME NEW q \in Requests, DeleteExpired(q) \/ SetRole(q) \/ Remove(q) \/ Fails(q)
       PROVE  RequestInv' /\ TokenInv'
  BY <1>10 DEF DeleteExpired, SetRole, Remove, Fails, Answer
<1>11. ASSUME NEW u \in Users, Promote(u) PROVE RequestInv' /\ TokenInv'
  BY <1>11 DEF Promote
<1>12. CASE Cleanup
  BY <1>12 DEF Cleanup
<1>13. CASE Tick
  BY <1>13 DEF Tick
<1>14. CASE UNCHANGED vars
  BY <1>14 DEF vars
<1> QED
  BY <1>1, <1>2, <1>3, <1>4, <1>5, <1>6, <1>7, <1>8, <1>9, <1>10, <1>11, <1>12, <1>13,
     <1>14 DEF Next

------------------------------------------------------------------------------
(* One token per session *)

\* What a session has of tokens and requests, and what OneTokenPerSession and UseInv
\* say of one session.
SessionInv(s) ==
    /\ \A t, r \in Live(s) : t = r
    /\ \A p, q \in Using(s) : p = q
    /\ Renewing(s) # {} => Live(s) = {}
    /\ s \in signedOut => Live(s) = {} /\ Using(s) = {}
    /\ \A q \in Using(s) : Live(s) \subseteq {token[q]}

\* A session that gets no token, no request and no sign-out keeps what it has.
LEMMA Shrinks ==
    ASSUME NEW s, SessionInv(s),
           Live(s)' \subseteq Live(s), Using(s)' \subseteq Using(s),
           Renewing(s)' \subseteq Renewing(s),
           s \in signedOut' => s \in signedOut,
           \A q \in Using(s)' : token'[q] = token[q]
    PROVE  SessionInv(s)'
BY DEF SessionInv

\* The steps that only take from a session, then those that give it a request
\* (Refresh), end it (SignOut) and renew it (DeleteOld, Store).
LEMMA SessionStep == IInv /\ [Next]_vars => OneTokenPerSession' /\ UseInv'
<1> SUFFICES ASSUME IInv, [Next]_vars, NEW s \in issued' \ overlapped' PROVE SessionInv(s)'
    BY DEF OneTokenPerSession, UseInv, SessionInv
<1> USE NamesAssumption, TimesAssumption
<1> USE DEF Disturbance, Begin, Goto, rowVars, historyVars, requestVars
<1>0. TypeOK /\ RequestInv /\ (s \in issued \ overlapped => SessionInv(s))
  BY DEF IInv, OneTokenPerSession, UseInv, SessionInv
<1>1. ASSUME issued' = issued, session' = session, overlapped' = overlapped,
             signedOut' = signedOut, rows' \subseteq rows,
             \A q \in Requests : token'[q] # NoToken =>
                 token'[q] = token[q] /\ (pc'[q] = "store" => pc[q] = "store")
      PROVE  SessionInv(s)'
  <2>1. Live(s)' \subseteq Live(s)
    BY <1>1 DEF Live
  <2>2. Using(s)' \subseteq Using(s) /\ \A q \in Using(s)' : token'[q] = token[q]
    BY <1>1 DEF Using
  <2>3. Renewing(s)' \subseteq Renewing(s)
    BY <1>1, <2>2 DEF Renewing, Using
  <2> QED
    BY <1>0, <1>1, <2>1, <2>2, <2>3, Shrinks
<1>2. ASSUME NEW q \in Requests, NEW u \in Users,
             \/ FindAccount(q, u) \/ SignUp(q, u) \/ \E a \in access : AdminRequest(q, a, u)
      PROVE  SessionInv(s)'
  BY <1>0, <1>1, <1>2 DEF FindAccount, SignUp, AdminRequest, TypeOK, RequestInv
<1>3. ASSUME NEW q \in Requests,
             \/ Compare(q) \/ FindUser(q) \/ DeleteExpired(q)
             \/ SetRole(q) \/ Remove(q) \/ Fails(q)
      PROVE  SessionInv(s)'
  BY <1>0, <1>1, <1>3 DEF Compare, FindUser, DeleteExpired, SetRole, Remove, Fails, Answer,
     deleteByToken, Cascade, TypeOK, RequestInv
<1>4. ASSUME \/ \E u \in Users : Promote(u)
             \/ Cleanup \/ Tick \/ UNCHANGED vars
      PROVE  SessionInv(s)'
  BY <1>1, <1>4 DEF Promote, Cleanup, Tick, vars
<1>5. ASSUME NEW t \in Tokens, NEW q \in Requests, Refresh(q, t) PROVE SessionInv(s)'
  <2> USE <1>5 DEF Refresh, Present
  <2>1. Live(s)' = Live(s) /\ Renewing(s)' \subseteq Renewing(s)
    BY <1>0 DEF Live, Renewing, Using, TypeOK, RequestInv
  <2>2. CASE session[t] # s
    <3>1. Using(s)' \subseteq Using(s) /\ \A p \in Using(s)' : token'[p] = token[p]
      BY <1>0, <2>2 DEF Using, TypeOK
    <3> QED
      BY <1>0, <2>1, <3>1, Shrinks
  <2>3. CASE session[t] = s
    <3>1. t \in Live(s) /\ s \in issued \ overlapped
      BY <1>0, <2>3 DEF Live, TypeOK
    <3>2. \A p \in Requests : token[p] # t
      BY <3>1, <2>3
    <3>3. Using(s) = {}
      BY <1>0, <3>1, <3>2 DEF SessionInv, Using
    <3>4. Using(s)' = {q} /\ token'[q] = t
      BY <1>0, <2>3, <3>1, <3>3 DEF Using, TypeOK
    <3>5. Renewing(s)' = {}
      BY <2>1, <3>3 DEF Renewing
    <3> QED
      BY <1>0, <2>1, <3>1, <3>4, <3>5 DEF SessionInv
  <2> QED
    BY <2>2, <2>3
<1>6. ASSUME NEW t \in Tokens, SignOut(t) PROVE SessionInv(s)'
  <2> USE <1>6 DEF SignOut, Present, deleteByToken
  <2>1. Live(s)' = Live(s) \ {t} /\ Using(s)' = Using(s) /\ Renewing(s)' = Renewing(s)
    BY DEF Live, Using, Renewing
  <2>2. CASE session[t] # s
    BY <1>0, <2>1, <2>2, Shrinks
  <2>3. CASE session[t] = s
    <3>1. t \in Live(s) /\ s \in issued \ overlapped
      BY <1>0, <2>3 DEF Live, TypeOK
    <3>2. \A p \in Requests : token[p] # t
      BY <3>1, <2>3
    <3>3. Using(s) = {}
      BY <1>0, <3>1, <3>2 DEF SessionInv, Using
    <3>4. Live(s)' = {} /\ Using(s)' = {} /\ Renewing(s)' = {}
      BY <1>0, <2>1, <3>1, <3>3 DEF SessionInv, Renewing
    <3> QED
      BY <3>4 DEF SessionInv
  <2> QED
    BY <2>2, <2>3
<1>7. ASSUME NEW q \in Requests, DeleteOld(q) PROVE SessionInv(s)'
  <2> USE <1>7 DEF DeleteOld, deleteByToken
  <2>1. Live(s)' = Live(s) \ {token[q]} /\ Using(s)' = Using(s) /\ token' = token
    BY DEF Live, Using
  <2>2. CASE q \notin Using(s)
    <3>1. Renewing(s)' = Renewing(s)
      BY <1>0, <2>2 DEF Renewing, Using, TypeOK
    <3> QED
      BY <1>0, <2>1, <3>1, Shrinks
  <2>3. CASE q \in Using(s)
    BY <1>0, <2>1, <2>3 DEF SessionInv
  <2> QED
    BY <2>2, <2>3
<1>8. ASSUME NEW q \in Requests, Store(q) PROVE SessionInv(s)'
  <2> USE <1>8 DEF Store, Answer
  <2>1. CASE user[q] \notin users
    BY <1>0, <1>1, <2>1 DEF TypeOK
  <2>2. CASE user[q] \in users
    <3>1. PICK t \in Tokens \ issued :
              /\ issued' = issued \cup {t}
              /\ rows' = rows \cup {t}
              /\ session' = [session EXCEPT ![t] = IF token[q] = NoToken THEN t
                                                   ELSE session[token[q]]]
      BY <2>2
    <3>2. \A r \in issued : session'[r] = session[r]
      BY <1>0, <3>1 DEF TypeOK
    <3>3. Using(s)' = Using(s) \ {q} /\ Renewing(s)' = Renewing(s) \ {q}
      BY <1>0, <3>2 DEF Using, Renewing, TypeOK
    <3>4. \A p \in Using(s)' : token'[p] = token[p]
      BY <1>0, <3>3 DEF Using, TypeOK
    <3>5. CASE session'[t] # s
      <4>1. Live(s)' = Live(s)
        BY <1>0, <3>1, <3>2, <3>5 DEF Live, TypeOK
      <4>2. CASE s \in issued
        BY <1>0, <3>3, <3>4, <4>1, <4>2, Shrinks
      <4>3. CASE s = t
        <5>1. Live(s)' = {} /\ Using(s)' = {} /\ s \notin signedOut
          BY <1>0, <3>3, <4>1, <4>3 DEF Live, Using, TypeOK
        <5> QED
          BY <5>1 DEF SessionInv, Renewing
      <4> QED
        BY <3>1, <4>2, <4>3
    <3>6. CASE session'[t] = s /\ token[q] = NoToken
      <4>1. s = t /\ Live(s)' = {t} /\ Using(s)' = {} /\ s \notin signedOut
        BY <1>0, <3>1, <3>2, <3>6 DEF Live, Using, TypeOK
      <4> QED
        BY <4>1 DEF SessionInv, Renewing
    <3>7. CASE session'[t] = s /\ token[q] # NoToken
      <4>1. s \in issued /\ q \in Using(s) /\ q \in Renewing(s)
        BY <1>0, <3>1, <3>7 DEF Using, Renewing, TypeOK
      <4>2. Live(s) = {} /\ Using(s) = {q} /\ s \notin signedOut
        BY <1>0, <4>1 DEF SessionInv
      <4>3. Live(s)' = {t} /\ Using(s)' = {}
        BY <1>0, <3>1, <3>2, <3>3, <3>7, <4>2 DEF Live, TypeOK
      <4> QED
        BY <4>2, <4>3 DEF SessionInv, Renewing
    <3> QED
      BY <3>5, <3>6, <3>7
  <2> QED
    BY <2>1, <2>2
<1> QED
  BY <1>2, <1>3, <1>4, <1>5, <1>6, <1>7, <1>8 DEF Next

------------------------------------------------------------------------------
(* What keeps a session alive *)

AllExpired(s) == \A r \in issued : session[r] = s => expiresAt[r] < now

Survives(s) ==
    \/ Renewing(s) # {} \/ Lost(s)
    \/ \E t \in Live(s) : IsLast(t, s)
    \/ AllExpired(s)

\* A step that takes no row and no request keeps a session.
LEMMA Kept ==
    ASSUME NEW s, Survives(s), issued' = issued, session' = session,
           expiresAt' = expiresAt, owner' = owner, deleted \subseteq deleted',
           signedOut \subseteq signedOut', broken \subseteq broken',
           Renewing(s) \subseteq Renewing(s)', rows \subseteq rows', now \in Int,
           now' = now \/ (now' = now + 1 /\ expiresAt \in [Tokens -> Int] /\ issued \subseteq Tokens)
    PROVE  Survives(s)'
BY DEF Survives, Lost, Live, IsLast, AllExpired

\* One case for the steps that take neither rows nor renewals, then one per step that
\* does.
LEMMA SurvivalStep == IInv /\ [Next]_vars => SurvivalInv'
<1> SUFFICES ASSUME IInv, [Next]_vars, NEW s \in issued' PROVE Survives(s)'
    BY DEF SurvivalInv, Survives, AllExpired
<1> USE NamesAssumption, TimesAssumption
<1> USE DEF Disturbance, Begin, Goto, rowVars, historyVars, requestVars
<1>0. TypeOK /\ RequestInv /\ TokenInv /\ (s \in issued => Survives(s))
  BY DEF IInv, SurvivalInv, Survives, AllExpired
<1>1. ASSUME issued' = issued, session' = session, expiresAt' = expiresAt, owner' = owner,
             deleted' = deleted, signedOut' = signedOut, broken' = broken, rows \subseteq rows',
             now' \in {now, now + 1},
             \A q \in Requests : pc[q] = "store" => pc'[q] = "store" /\ token'[q] = token[q]
      PROVE  Survives(s)'
  <2>1. Renewing(s) \subseteq Renewing(s)'
    BY <1>1 DEF Renewing, Using
  <2> QED
    BY <1>0, <1>1, <2>1, Kept DEF TypeOK
<1>2. ASSUME NEW q \in Requests, NEW u \in Users,
             \/ FindAccount(q, u) \/ SignUp(q, u) \/ \E a \in access : AdminRequest(q, a, u)
      PROVE  Survives(s)'
  BY <1>0, <1>1, <1>2 DEF FindAccount, SignUp, AdminRequest, TypeOK
<1>3. ASSUME NEW q \in Requests, NEW t \in Tokens, Refresh(q, t) PROVE Survives(s)'
  BY <1>0, <1>1, <1>3 DEF Refresh, TypeOK
<1>4. ASSUME NEW q \in Requests, Compare(q) \/ FindUser(q) \/ SetRole(q) PROVE Survives(s)'
  BY <1>0, <1>1, <1>4 DEF Compare, FindUser, SetRole, Answer, TypeOK
<1>5. ASSUME (\E u \in Users : Promote(u)) \/ Tick \/ UNCHANGED vars PROVE Survives(s)'
  BY <1>0, <1>1, <1>5 DEF Promote, Tick, vars, TypeOK
<1>6. ASSUME NEW t \in Tokens, SignOut(t) PROVE Survives(s)'
  <2> USE <1>6 DEF SignOut, Present, deleteByToken
  <2>1. CASE session[t] = s
    BY <2>1 DEF Survives, Lost
  <2>2. CASE session[t] # s
    <3>1. Live(s)' = Live(s) /\ Renewing(s)' = Renewing(s)
      BY <2>2 DEF Live, Renewing, Using
    <3> QED
      BY <1>0, <3>1 DEF Survives, Lost, IsLast, AllExpired
  <2> QED
    BY <2>1, <2>2
<1>7. ASSUME NEW q \in Requests, DeleteOld(q) PROVE Survives(s)'
  <2> USE <1>7 DEF DeleteOld, deleteByToken
  <2>1. CASE session[token[q]] = s
    <3>1. q \in Renewing(s)'
      BY <1>0, <2>1 DEF Renewing, Using, TypeOK, RequestInv
    <3> QED
      BY <3>1 DEF Survives
  <2>2. CASE session[token[q]] # s
    <3>1. Live(s)' = Live(s) /\ Renewing(s) \subseteq Renewing(s)'
      BY <1>0, <2>2 DEF Live, Renewing, Using, TypeOK
    <3> QED
      BY <1>0, <3>1 DEF Survives, Lost, IsLast, AllExpired
  <2> QED
    BY <2>1, <2>2
<1>8. ASSUME NEW q \in Requests, DeleteExpired(q) PROVE Survives(s)'
  <2> USE <1>8 DEF DeleteExpired, deleteByToken, Answer
  <2>1. Renewing(s) \subseteq Renewing(s)' /\ Live(s)' = Live(s) \ {token[q]}
    BY <1>0 DEF Live, Renewing, Using, TypeOK
  <2>2. CASE token[q] \in Live(s) /\ IsLast(token[q], s)
    <3>1. expiresAt[token[q]] < now
      BY <1>0 DEF RequestInv
    <3>2. AllExpired(s)
      BY <1>0, <2>2, <3>1 DEF AllExpired, IsLast, TypeOK, RequestInv
    <3> QED
      BY <3>2 DEF Survives, AllExpired
  <2>3. CASE ~(token[q] \in Live(s) /\ IsLast(token[q], s))
    BY <1>0, <2>1, <2>3 DEF Survives, Lost, IsLast, AllExpired
  <2> QED
    BY <2>2, <2>3
<1>9. ASSUME NEW q \in Requests, Remove(q) PROVE Survives(s)'
  <2> USE <1>9 DEF Remove, Cascade, Answer
  <2>1. Renewing(s) \subseteq Renewing(s)' /\ deleted \subseteq deleted'
    BY <1>0 DEF Renewing, Using, TypeOK
  <2>2. CASE rows' = rows
    BY <1>0, <2>1, <2>2, Kept DEF TypeOK
  <2>3. CASE rows' # rows /\ owner[s] = user[q]
    BY <2>3 DEF Survives, Lost
  <2>4. CASE rows' # rows /\ owner[s] # user[q]
    <3>1. Live(s)' = Live(s)
      BY <1>0, <2>4 DEF Live, TokenInv, TypeOK
    <3> QED
      BY <1>0, <2>1, <3>1 DEF Survives, Lost, IsLast, AllExpired
  <2> QED
    BY <2>2, <2>3, <2>4
<1>10. ASSUME NEW q \in Requests, Fails(q) PROVE Survives(s)'
  <2> USE <1>10 DEF Fails, Answer
  <2>1. CASE q \in Renewing(s)
    BY <2>1 DEF Survives, Lost, Renewing, Using
  <2>2. CASE q \notin Renewing(s)
    <3>1. Renewing(s) \subseteq Renewing(s)' /\ Live(s)' = Live(s)
      BY <1>0, <2>2 DEF Live, Renewing, Using, TypeOK
    <3> QED
      BY <1>0, <3>1 DEF Survives, Lost, IsLast, AllExpired
  <2> QED
    BY <2>1, <2>2
<1>11. CASE Cleanup
  <2> USE <1>11 DEF Cleanup, expired
  <2>1. Renewing(s)' = Renewing(s) /\ Live(s)' = {t \in Live(s) : ~expired(t)}
    BY DEF Live, Renewing, Using
  <2>2. CASE \E t \in Live(s) : IsLast(t, s) /\ expired(t)
    <3>1. AllExpired(s)
      BY <1>0, <2>2 DEF AllExpired, IsLast, TypeOK, Live
    <3> QED
      BY <3>1 DEF Survives, AllExpired
  <2>3. CASE ~\E t \in Live(s) : IsLast(t, s) /\ expired(t)
    BY <1>0, <2>1, <2>3 DEF Survives, Lost, IsLast, AllExpired
  <2> QED
    BY <2>2, <2>3
<1>12. ASSUME NEW q \in Requests, Store(q) PROVE Survives(s)'
  <2> USE <1>12 DEF Store, Answer
  <2>1. CASE user[q] \notin users
    <3>1. CASE q \in Renewing(s)
      BY <2>1, <3>1 DEF Survives, Lost, Renewing, Using
    <3>2. CASE q \notin Renewing(s)
      <4>1. Renewing(s) \subseteq Renewing(s)' /\ Live(s)' = Live(s)
        BY <1>0, <2>1, <3>2 DEF Live, Renewing, Using, TypeOK
      <4> QED
        BY <1>0, <2>1, <4>1 DEF Survives, Lost, IsLast, AllExpired
    <3> QED
      BY <3>1, <3>2
  <2>2. CASE user[q] \in users
    <3>1. PICK t \in Tokens \ issued :
              /\ issued' = issued \cup {t}
              /\ rows' = rows \cup {t}
              /\ owner' = [owner EXCEPT ![t] = user[q]]
              /\ expiresAt' = [expiresAt EXCEPT ![t] = now + RefreshLife]
              /\ session' = [session EXCEPT ![t] = IF token[q] = NoToken THEN t
                                                   ELSE session[token[q]]]
      BY <2>2
    <3>2. \A r \in issued : /\ session'[r] = session[r] /\ owner'[r] = owner[r]
                            /\ expiresAt'[r] = expiresAt[r]
      BY <1>0, <3>1 DEF TypeOK
    <3>3. CASE session'[t] = s
      <4>1. t \in Live(s)'
        BY <3>1, <3>3 DEF Live
      <4>2. IsLast(t, s)'
        BY <1>0, <3>1, <3>2 DEF IsLast, TokenInv, TypeOK
      <4> QED
        BY <4>1, <4>2 DEF Survives
    <3>4. CASE session'[t] # s /\ s = t
      <4>1. AllExpired(s)'
        BY <1>0, <3>1, <3>2, <3>4 DEF AllExpired, TypeOK
      <4> QED
        BY <4>1 DEF Survives
    <3>5. CASE session'[t] # s /\ s # t
      <4>1. s \in issued /\ Live(s)' = Live(s)
        BY <1>0, <3>1, <3>2, <3>5 DEF Live, TypeOK
      <4>2. Renewing(s) \subseteq Renewing(s)'
        BY <1>0, <2>2, <3>1, <3>2, <3>5 DEF Renewing, Using, TypeOK
      <4>3. AllExpired(s) => AllExpired(s)'
        BY <3>1, <3>2, <3>5 DEF AllExpired
      <4>4. \A r \in Live(s) : IsLast(r, s) => IsLast(r, s)'
        BY <1>0, <3>1, <3>2, <3>5 DEF IsLast, Live, TypeOK
      <4>5. Lost(s) => Lost(s)'
        BY <2>2, <3>2, <4>1 DEF Lost
      <4> QED
        BY <1>0, <4>1, <4>2, <4>3, <4>4, <4>5 DEF Survives
    <3> QED
      BY <3>3, <3>4, <3>5
  <2> QED
    BY <2>1, <2>2
<1> QED
  BY <1>2, <1>3, <1>4, <1>5, <1>6, <1>7, <1>8, <1>9, <1>10, <1>11, <1>12 DEF Next

------------------------------------------------------------------------------
(* Roles that were read or signed *)

SignedInv(q) == pc[q] = "store" => GoodJwt(jwt[q])

SeenInv(q) == Agrees(user[q], seen[q]) \/ since[user[q]] >= (IF q \in old THEN now - 1 ELSE now)

\* What was signed stays good when the roles do, or when their change is remembered.
LEMMA Remembered ==
    ASSUME TypeOK, RoleInv, NEW a \in Jwt, GoodJwt(a),
           now' \in Int, now' >= now, since' \in [Users -> Int],
           \A u \in Users :
               \/ since'[u] >= since[u] /\ (u \in users => u \in users') /\ role'[u] = role[u]
               \/ since'[u] = now
    PROVE  GoodJwt(a)'
BY TimesAssumption DEF TypeOK, RoleInv, GoodJwt, Agrees, Jwt

\* One step per group of actions: those that change no account, those that change
\* one, those that sign, and the clock.
LEMMA RoleStep == IInv /\ [Next]_vars => RoleInv'
<1> SUFFICES ASSUME IInv, [Next]_vars PROVE RoleInv'
    OBVIOUS
<1> USE NamesAssumption, TimesAssumption
<1> USE DEF Disturbance, Begin, Goto, rowVars, historyVars, requestVars
<1>0. TypeOK /\ RequestInv /\ RoleInv
  BY DEF IInv
<1>1. /\ access \subseteq Jwt
      /\ \A q \in Requests : pc[q] = "store" => jwt[q] \in Jwt
      /\ since \in [Users -> Int] /\ now \in Int
  BY <1>0 DEF TypeOK, RequestInv
<1>2. ASSUME NEW q \in Requests, NEW u \in Users, FindAccount(q, u) PROVE RoleInv'
  BY <1>0, <1>2 DEF FindAccount, RoleInv, GoodJwt, Agrees, TypeOK
<1>3. ASSUME NEW q \in Requests, NEW u \in Users, SignUp(q, u) PROVE RoleInv'
  <2> USE <1>3 DEF SignUp
  <2>1. \A a \in Jwt : GoodJwt(a) => GoodJwt(a)'
    BY <1>0, <1>1, Remembered DEF TypeOK, RoleInv
  <2>2. SignedInv(q)'
    <3>1. CASE Begin(q, "store", u, NoToken) /\ Sign(q, u, "USER")
      BY <1>0, <1>1, <3>1 DEF SignedInv, Sign, GoodJwt, TypeOK
    <3>2. CASE pc[q] = "idle" /\ UNCHANGED <<pc, user, token, jwt>>
      BY <3>2 DEF SignedInv
    <3> QED
      BY <3>1, <3>2
  <2>3. \A p \in Requests \ {q} : SignedInv(p)'
    BY <1>0, <1>1, <2>1 DEF SignedInv, RoleInv, Sign, TypeOK
  <2>4. \A p \in Requests : pc'[p] \in {"compare", "delete"} => SeenInv(p)'
    BY <1>0, <1>1 DEF RoleInv, SeenInv, Agrees, TypeOK, RequestInv
  <2>5. \A v \in Users : since'[v] <= now'
    BY <1>0, <1>1 DEF RoleInv, TypeOK
  <2> QED
    BY <1>0, <1>1, <2>1, <2>2, <2>3, <2>4, <2>5 DEF RoleInv, SignedInv, SeenInv
<1>4. ASSUME NEW q \in Requests, NEW u \in Users, NEW a \in access, AdminRequest(q, a, u)
      PROVE  RoleInv'
  BY <1>0, <1>4 DEF AdminRequest, RoleInv, GoodJwt, Agrees, TypeOK
<1>5. ASSUME NEW t \in Tokens, SignOut(t) PROVE RoleInv'
  BY <1>0, <1>5 DEF SignOut, RoleInv, GoodJwt, Agrees
<1>6. ASSUME NEW t \in Tokens, NEW q \in Requests, Refresh(q, t) PROVE RoleInv'
  BY <1>0, <1>6 DEF Refresh, RoleInv, GoodJwt, Agrees, TypeOK
<1>7. ASSUME NEW q \in Requests, Compare(q) \/ DeleteOld(q) PROVE RoleInv'
  <2> USE <1>7 DEF Compare, DeleteOld, Answer
  <2>1. \A a \in Jwt : GoodJwt(a) => GoodJwt(a)'
    BY <1>0, <1>1 DEF GoodJwt, Agrees
  <2>2. CASE Sign(q, user[q], seen[q]) /\ pc' = [pc EXCEPT ![q] = "store"]
    <3>1. SeenInv(q) /\ user[q] \in Users
      BY <1>0, <2>2 DEF RoleInv, SeenInv, RequestInv
    <3>2. /\ jwt'[q] = [sub |-> user[q], role |-> seen[q], exp |-> now + AccessLife]
          /\ \A p \in Requests \ {q} : jwt'[p] = jwt[p] /\ pc'[p] = pc[p]
          /\ pc'[q] = "store"
      BY <1>0, <2>2 DEF Sign, TypeOK
    <3>3. SignedInv(q)'
      BY <1>0, <1>1, <3>1, <3>2 DEF SignedInv, RoleInv, GoodJwt, SeenInv, Agrees, TypeOK
    <3>4. \A p \in Requests : SignedInv(p)'
      BY <1>0, <1>1, <2>1, <3>2, <3>3 DEF RoleInv, SignedInv
    <3>5. \A p \in Requests : pc'[p] \in {"compare", "delete"} => SeenInv(p)'
      BY <1>0, <3>2 DEF RoleInv, SeenInv, Agrees, TypeOK
    <3> QED
      BY <1>0, <1>1, <2>1, <3>4, <3>5 DEF RoleInv, SignedInv, SeenInv
  <2>3. CASE Compare(q) /\ Answer(q)
    BY <1>0, <1>1, <2>1, <2>3 DEF RoleInv, Agrees, TypeOK
  <2> QED
    BY <1>7, <2>2, <2>3
<1>8. ASSUME NEW q \in Requests, Store(q) PROVE RoleInv'
  <2> USE <1>8 DEF Store, Answer
  <2>1. \A a \in Jwt : GoodJwt(a) => GoodJwt(a)'
    BY <1>0, <1>1 DEF GoodJwt, Agrees
  <2>2. \A a \in access' : GoodJwt(a)'
    BY <1>0, <1>1, <2>1 DEF RoleInv
  <2> QED
    BY <1>0, <1>1, <2>1, <2>2 DEF RoleInv, Agrees, TypeOK
<1>9. ASSUME NEW q \in Requests, FindUser(q) PROVE RoleInv'
  <2> USE <1>9 DEF FindUser, Answer
  <2>1. \A a \in Jwt : GoodJwt(a) => GoodJwt(a)'
    BY <1>0, <1>1 DEF GoodJwt, Agrees
  <2> QED
    BY <1>0, <1>1, <2>1 DEF RoleInv, Agrees, TypeOK
<1>10. ASSUME NEW q \in Requests, DeleteExpired(q) \/ Fails(q) PROVE RoleInv'
  <2> USE <1>10 DEF DeleteExpired, Fails, Answer
  <2>1. \A a \in Jwt : GoodJwt(a) => GoodJwt(a)'
    BY <1>0, <1>1 DEF GoodJwt, Agrees
  <2> QED
    BY <1>0, <1>1, <2>1 DEF RoleInv, Agrees, TypeOK
<1>11. ASSUME NEW q \in Requests, SetRole(q) \/ Remove(q) PROVE RoleInv'
  <2> USE <1>11 DEF SetRole, Remove, Answer
  <2>1. \A a \in Jwt : GoodJwt(a) => GoodJwt(a)'
    BY <1>0, <1>1, Remembered DEF TypeOK, RoleInv
  <2>2. \A p \in Requests : pc'[p] = "store" => pc[p] = "store" /\ jwt'[p] = jwt[p]
    BY <1>0 DEF TypeOK
  <2>3. \A p \in Requests : pc'[p] \in {"compare", "delete"} => SeenInv(p)'
    BY <1>0, <1>1 DEF RoleInv, SeenInv, Agrees, TypeOK, RequestInv
  <2>4. \A v \in Users : since'[v] <= now'
    BY <1>0, <1>1 DEF RoleInv, TypeOK
  <2> QED
    BY <1>0, <1>1, <2>1, <2>2, <2>3, <2>4 DEF RoleInv, SeenInv
<1>12. ASSUME NEW u \in Users, Promote(u) PROVE RoleInv'
  <2> USE <1>12 DEF Promote
  <2>1. \A a \in Jwt : GoodJwt(a) => GoodJwt(a)'
    BY <1>0, <1>1, Remembered DEF TypeOK, RoleInv
  <2> QED
    BY <1>0, <1>1, <2>1 DEF RoleInv, Agrees, TypeOK, RequestInv
<1>13. CASE Cleanup
  BY <1>0, <1>13 DEF Cleanup, RoleInv, GoodJwt, Agrees
<1>14. CASE Tick
  <2> USE <1>14 DEF Tick
  <2>1. \A a \in Jwt : GoodJwt(a) => GoodJwt(a)'
    BY <1>0, <1>1 DEF GoodJwt, Agrees, Jwt
  <2>2. \A p \in Requests : pc'[p] \in {"compare", "delete"} => SeenInv(p)'
    BY <1>0, <1>1 DEF RoleInv, SeenInv, Agrees, RequestInv
  <2> QED
    BY <1>0, <1>1, <2>1, <2>2 DEF RoleInv, SeenInv
<1>15. CASE UNCHANGED vars
  BY <1>0, <1>15 DEF vars, RoleInv, GoodJwt, Agrees
<1> QED
  BY <1>2, <1>3, <1>4, <1>5, <1>6, <1>7, <1>8, <1>9, <1>10, <1>11, <1>12, <1>13, <1>14,
     <1>15 DEF Next

------------------------------------------------------------------------------
(* Theorems *)

\* The inductive invariant: what a request read is still its own, the tokens of a
\* session follow one another, and a role is believed only shortly after it changed.
THEOREM Invariance == Spec => []IInv
<1>1. IInv /\ [Next]_vars => IInv'
  BY TypeStep, RequestStep, SessionStep, SurvivalStep, RoleStep DEF IInv
<1> QED
  BY InitInv, <1>1, PTL DEF Spec

\* The state of sessions has its types; in particular a refresh token whose row exists
\* belongs to an account that exists (ON DELETE CASCADE).
THEOREM TypeCorrect == Spec => []TypeOK
<1>1. IInv => TypeOK
  BY DEF IInv
<1> QED
  BY <1>1, Invariance, PTL

\* AuthService.refresh and signout: a session has at most one good token, and none
\* after a sign-out, unless two requests used one token at once.
THEOREM OneToken == Spec => []OneTokenPerSession
<1>1. IInv => OneTokenPerSession
  BY DEF IInv
<1> QED
  BY <1>1, Invariance, PTL

\* AuthService.refresh and the clean-up cron: a session ends only by a sign-out, its
\* expiry, the deletion of the account or a failed insert.
THEOREM Survival == Spec => []SessionSurvives
<1>1. IInv => SessionSurvives
  BY DEF IInv, SurvivalInv, SessionSurvives, Lost
<1> QED
  BY <1>1, Invariance, PTL

\* AuthGuard and RolesGuard: a role that the row contradicts is believed for at most
\* the life of an access token after the change.
THEOREM StaleRole == Spec => []StaleRoleEnds
<1>1. IInv => StaleRoleEnds
  BY TimesAssumption DEF IInv, TypeOK, RoleInv, GoodJwt, Agrees, StaleRoleEnds, verify, Jwt
<1> QED
  BY <1>1, Invariance, PTL
==============================================================================
