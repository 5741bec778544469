------------------------------ MODULE Sessions ------------------------------
(***************************************************************************)
(* Sign-in, refresh and sign-out of AuthService, the access tokens they    *)
(* hand out, and the administrator's requests that change a role or remove *)
(* an account while those tokens are in use.                               *)
(*                                                                         *)
(* One step per awaited call.  Time advances in ticks, and a request sees  *)
(* at most one.  Addresses and passwords are left out: a sign-in is for    *)
(* the account it finds, and the password is right or wrong.               *)
(***************************************************************************)
EXTENDS Integers, FiniteSets

CONSTANTS
    Users, NoUser,
    Tokens, NoToken,         \* the uuids of refresh tokens
    Requests,                \* HTTP requests that can be in progress at once
    AccessLife, RefreshLife, \* 14 minutes and 7 days, in ticks
    MaxTime,                 \* ticks
    MaxDisturbances          \* rejected database calls, role changes and removals

Role == {"USER", "ADMINISTRATOR"}

ASSUME NamesAssumption == NoUser \notin Users /\ NoToken \notin Tokens
ASSUME TimesAssumption ==
    AccessLife \in Nat /\ RefreshLife \in Nat /\ MaxTime \in Nat /\ MaxDisturbances \in Nat

VARIABLES
    \* Postgres
    users, deleted, role, \* accounts that exist; that existed
    rows,                \* refresh_tokens: the tokens whose row exists
    owner, expiresAt,    \* of every token that was issued
    \* the requests
    pc,
    user, token, seen,   \* whom and what a request is about; the role it read
    jwt,                 \* the access token a request signed
    old,                 \* requests that saw a tick
    \* clients and time
    issued,              \* refresh tokens that were ever stored
    access,              \* access tokens that clients received
    now, disturbances,
    \* history
    session,             \* the token a chain of refreshes began with
    since,               \* when an account last changed its role or was deleted
    signedOut, broken,   \* sessions that were signed out; whose pair was lost
    overlapped           \* sessions of a token that two requests used at once

rowVars == <<users, deleted, role, rows, owner, expiresAt>>
requestVars == <<pc, user, token, seen, jwt, old>>
historyVars == <<session, since, signedOut, broken, overlapped>>
vars == <<rowVars, requestVars, issued, access, now, disturbances, historyVars>>

Jwt == [sub : Users, role : Role, exp : Int]
NoJwt == [sub |-> NoUser, role |-> "USER", exp |-> 0]

TypeOK ==
    /\ users \subseteq Users /\ deleted \subseteq Users \ users
    /\ role \in [Users -> Role]
    /\ rows \subseteq issued
    /\ issued \subseteq Tokens
    /\ owner \in [Tokens -> Users \cup {NoUser}]
    /\ \A t \in issued : owner[t] \in Users /\ session[t] \in issued
    /\ \A t \in rows : owner[t] \in users
    /\ expiresAt \in [Tokens -> Int]
    /\ pc \in [Requests -> {"idle", "compare", "deleteExpired", "findUser",
                            "delete", "store", "setRole", "remove"}]
    /\ user \in [Requests -> Users \cup {NoUser}]
    /\ token \in [Requests -> Tokens \cup {NoToken}]
    /\ \A q \in Requests : token[q] # NoToken => token[q] \in issued
    /\ seen \in [Requests -> Role]
    /\ jwt \in [Requests -> Jwt \cup {NoJwt}]
    /\ old \subseteq {q \in Requests : pc[q] # "idle"}
    /\ access \subseteq Jwt
    /\ now \in 0..MaxTime
    /\ disturbances \in 0..MaxDisturbances
    /\ session \in [Tokens -> Tokens \cup {NoToken}]
    /\ since \in [Users -> Int]
    /\ signedOut \subseteq issued /\ broken \subseteq issued /\ overlapped \subseteq issued

\* Accounts exist and were never changed; one may be an administrator's.
Init ==
    /\ users \in SUBSET Users
    /\ role \in [Users -> Role]
    /\ \A u \in Users \ users : role[u] = "USER"
    /\ deleted = {}
    /\ rows = {} /\ issued = {} /\ access = {}
    /\ owner = [t \in Tokens |-> NoUser]
    /\ expiresAt = [t \in Tokens |-> 0]
    /\ pc = [q \in Requests |-> "idle"]
    /\ user = [q \in Requests |-> NoUser]
    /\ token = [q \in Requests |-> NoToken]
    /\ seen = [q \in Requests |-> "USER"]
    /\ jwt = [q \in Requests |-> NoJwt]
    /\ old = {}
    /\ now = 0 /\ disturbances = 0
    /\ session = [t \in Tokens |-> NoToken]
    /\ since = [u \in Users |-> 0]
    /\ signedOut = {} /\ broken = {} /\ overlapped = {}

------------------------------------------------------------------------------
(* Requests *)

Disturbance == disturbances < MaxDisturbances /\ disturbances' = disturbances + 1

Begin(q, label, u, t) ==
    /\ pc[q] = "idle"
    /\ pc' = [pc EXCEPT ![q] = label]
    /\ user' = [user EXCEPT ![q] = u]
    /\ token' = [token EXCEPT ![q] = t]

Goto(q, label) == pc' = [pc EXCEPT ![q] = label] /\ UNCHANGED <<user, token, old>>

Answer(q) ==
    /\ pc' = [pc EXCEPT ![q] = "idle"]
    /\ user' = [user EXCEPT ![q] = NoUser]
    /\ token' = [token EXCEPT ![q] = NoToken]
    /\ seen' = [seen EXCEPT ![q] = "USER"]
    /\ jwt' = [jwt EXCEPT ![q] = NoJwt]
    /\ old' = old \ {q}

\* The access token expires AccessLife after it is signed.
Sign(q, u, r) ==
    jwt' = [jwt EXCEPT ![q] = [sub |-> u, role |-> r, exp |-> now + AccessLife]]

------------------------------------------------------------------------------
(* Sign-in *)

\* findByEmail, or findByGoogleId: the account as the request will use it.
FindAccount(q, u) ==
    /\ u \in users
    /\ Begin(q, "compare", u, NoToken)
    /\ seen' = [seen EXCEPT ![q] = role[u]]
    /\ UNCHANGED <<rowVars, jwt, old, issued, access, now, disturbances, historyVars>>

\* A wrong password is a 401; Google needs no password.
Compare(q) ==
    /\ pc[q] = "compare"
    /\ \/ Goto(q, "store") /\ Sign(q, user[q], seen[q]) /\ UNCHANGED seen
       \/ Answer(q)
    /\ UNCHANGED <<rowVars, issued, access, now, disturbances, historyVars>>

\* A sign-up, by form or by Google, inserts the account.  What billing makes of a
\* paid plan is in Billing; when it throws, the account stays without a session.
SignUp(q, u) ==
    /\ u \notin users \cup deleted
    /\ users' = users \cup {u}
    /\ since' = [since EXCEPT ![u] = now]
    /\ \/ Begin(q, "store", u, NoToken) /\ Sign(q, u, "USER")
       \/ pc[q] = "idle" /\ UNCHANGED <<pc, user, token, jwt>>
    /\ UNCHANGED <<deleted, role, rows, owner, expiresAt, seen, old, issued, access, now, disturbances,
                   session, signedOut, broken, overlapped>>

\* refreshTokensRepository.create: the row refers to the account, which must exist.
Store(q) ==
    LET u == user[q]
        t0 == token[q]
    IN
    /\ pc[q] = "store"
    /\ \/ /\ u \in users
          /\ \E t \in Tokens \ issued :
                 /\ issued' = issued \cup {t}
                 /\ rows' = rows \cup {t}
                 /\ owner' = [owner EXCEPT ![t] = u]
                 /\ expiresAt' = [expiresAt EXCEPT ![t] = now + RefreshLife]
                 /\ session' = [session EXCEPT ![t] = IF t0 = NoToken THEN t ELSE session[t0]]
          /\ access' = access \cup {jwt[q]}
          /\ UNCHANGED broken
       \/ /\ u \notin users
          /\ broken' = IF t0 = NoToken THEN broken ELSE broken \cup {session[t0]}
          /\ UNCHANGED <<issued, rows, owner, expiresAt, session, access>>
    /\ Answer(q)
    /\ UNCHANGED <<users, deleted, role, now, disturbances, since, signedOut, overlapped>>

------------------------------------------------------------------------------
(* Refresh and sign-out *)

\* A client presents a token it was given; another request may be using it.
Present(t) ==
    /\ t \in issued
    /\ overlapped' = IF \E p \in Requests : token[p] = t
                     THEN overlapped \cup {session[t]} ELSE overlapped

\* refresh, findByToken: a token without a row is a 401.
Refresh(q, t) ==
    /\ t \in rows
    /\ Present(t)
    /\ Begin(q, IF expiresAt[t] < now THEN "deleteExpired" ELSE "findUser", NoUser, t)
    /\ UNCHANGED <<rowVars, seen, jwt, old, issued, access, now, disturbances, session, since,
                   signedOut, broken>>

\* refreshToken.userId, as the row said.
FindUser(q) ==
    LET u == owner[token[q]] IN
    /\ pc[q] = "findUser"
    /\ \/ u \notin users /\ Answer(q)
       \/ /\ u \in users
          /\ pc' = [pc EXCEPT ![q] = "delete"]
          /\ user' = [user EXCEPT ![q] = u]
          /\ seen' = [seen EXCEPT ![q] = role[u]]
          /\ UNCHANGED <<token, jwt, old>>
    /\ UNCHANGED <<rowVars, issued, access, now, disturbances, historyVars>>

\* Faulty variant: every session of the user is deleted.
deleteByTokenOwner(t) == rows' = {r \in rows : owner[r] # owner[t]}

\* Faulty variant: nothing is deleted.
deleteByTokenForgotten(t) == UNCHANGED rows

\* deleteMany: no error when the row is gone.
deleteByToken(t) == rows' = rows \ {t}

\* The old token is deleted; generateTokens signs at once, then stores.
DeleteOld(q) ==
    /\ pc[q] = "delete"
    /\ deleteByToken(token[q])
    /\ Goto(q, "store")
    /\ Sign(q, user[q], seen[q])
    /\ UNCHANGED <<users, deleted, role, owner, expiresAt, seen, issued, access, now, disturbances,
                   historyVars>>

DeleteExpired(q) ==
    /\ pc[q] = "deleteExpired"
    /\ deleteByToken(token[q])
    /\ Answer(q)
    /\ UNCHANGED <<users, deleted, role, owner, expiresAt, issued, access, now, disturbances, historyVars>>

\* signout; deleteMany without a row is no error.
SignOut(t) ==
    /\ Present(t)
    /\ t \in rows
    /\ signedOut' = signedOut \cup {session[t]}
    /\ deleteByToken(t)
    /\ UNCHANGED <<users, deleted, role, owner, expiresAt, requestVars, issued, access, now,
                   disturbances, session, since, broken>>

------------------------------------------------------------------------------
(* The guards and what an administrator does behind them *)

\* Faulty variant: a token is good at its expiry.
verifyAtExpiry(a) == now <= a.exp

\* jwtService.verifyAsync
verify(a) == now < a.exp

\* AuthGuard and RolesGuard trust the role in the token; the row is not read.
canActivate(a) == verify(a) /\ a.role = "ADMINISTRATOR"

\* findById comes next and only answers 404 sooner than the write would.
AdminRequest(q, a, u) ==
    /\ canActivate(a)
    /\ \E label \in {"setRole", "remove"} : Begin(q, label, u, NoToken)
    /\ UNCHANGED <<rowVars, seen, jwt, old, issued, access, now, disturbances, historyVars>>

SetRole(q) ==
    LET u == user[q] IN
    /\ pc[q] = "setRole"
    /\ \/ \E r \in Role \ {role[u]} :
              /\ u \in users
              /\ Disturbance
              /\ role' = [role EXCEPT ![u] = r]
              /\ since' = [since EXCEPT ![u] = now]
       \/ UNCHANGED <<disturbances, role, since>> \* the same role, or no account
    /\ Answer(q)
    /\ UNCHANGED <<users, deleted, rows, owner, expiresAt, issued, access, now, session,
                   signedOut, broken, overlapped>>

\* Faulty variant: the rows stay.
CascadeForgotten(u) == UNCHANGED rows

\* ON DELETE CASCADE: the refresh tokens go with the account.
Cascade(u) == rows' = {t \in rows : owner[t] # u}

Remove(q) ==
    LET u == user[q] IN
    /\ pc[q] = "remove"
    /\ \/ /\ u \in users
          /\ Disturbance
          /\ users' = users \ {u}
          /\ deleted' = deleted \cup {u}
          /\ Cascade(u)
          /\ since' = [since EXCEPT ![u] = now]
       \/ u \notin users /\ UNCHANGED <<users, deleted, rows, since, disturbances>>
    /\ Answer(q)
    /\ UNCHANGED <<role, owner, expiresAt, issued, access, now, session, signedOut, broken,
                   overlapped>>

\* promoteToAdmin, the script that makes the first administrator.
Promote(u) ==
    /\ u \in users
    /\ role[u] # "ADMINISTRATOR"
    /\ Disturbance
    /\ role' = [role EXCEPT ![u] = "ADMINISTRATOR"]
    /\ since' = [since EXCEPT ![u] = now]
    /\ UNCHANGED <<users, deleted, rows, owner, expiresAt, requestVars, issued, access, now,
                   session, signedOut, broken, overlapped>>

------------------------------------------------------------------------------
(* Faults, the cron and time *)

\* The awaited database call is rejected: a 500, and what was done stays done.
Fails(q) ==
    /\ pc[q] \notin {"idle", "compare"}
    /\ Disturbance
    /\ broken' = IF pc[q] = "store" /\ token[q] # NoToken
                 THEN broken \cup {session[token[q]]} ELSE broken
    /\ Answer(q)
    /\ UNCHANGED <<rowVars, issued, access, now, session, since, signedOut, overlapped>>

expired(t) == expiresAt[t] < now

\* RefreshTokensCleanupJob, daily.
Cleanup ==
    /\ \E t \in rows : expired(t)
    /\ rows' = {t \in rows : ~expired(t)}
    /\ UNCHANGED <<users, deleted, role, owner, expiresAt, requestVars, issued, access, now, disturbances,
                   historyVars>>

\* No request lives to see two ticks.
Tick ==
    /\ now < MaxTime
    /\ old = {}
    /\ now' = now + 1
    /\ old' = {q \in Requests : pc[q] # "idle"}
    /\ access' = {a \in access : now <= a.exp}
    /\ UNCHANGED <<rowVars, pc, user, token, seen, jwt, issued, disturbances, historyVars>>

Next ==
    \/ \E q \in Requests, u \in Users :
           \/ FindAccount(q, u) \/ SignUp(q, u)
           \/ \E a \in access : AdminRequest(q, a, u)
    \/ \E t \in Tokens : SignOut(t) \/ \E q \in Requests : Refresh(q, t)
    \/ \E q \in Requests :
           \/ Compare(q) \/ Store(q) \/ FindUser(q) \/ DeleteOld(q)
           \/ DeleteExpired(q) \/ SetRole(q)
           \/ Remove(q) \/ Fails(q)
    \/ \E u \in Users : Promote(u)
    \/ Cleanup
    \/ Tick

Spec == Init /\ [][Next]_vars

------------------------------------------------------------------------------
(* Properties *)

\* The tokens of a session that are good, the requests that use one of its tokens,
\* and those that will store the next.
Live(s) == {t \in rows : session[t] = s}
Using(s) == {q \in Requests : token[q] # NoToken /\ session[token[q]] = s}
Renewing(s) == {q \in Using(s) : pc[q] = "store"}

\* A session has one token at a time, and none once it was signed out, unless
\* two requests used the same token at once ("issues a new pair and deletes the
\* old token"): a copy of an old token is worth nothing.
OneTokenPerSession ==
    \A s \in issued \ overlapped :
        /\ \A t, r \in Live(s) : t = r
        /\ \A p, q \in Using(s) : p = q
        /\ Renewing(s) # {} => Live(s) = {}
        /\ s \in signedOut => Live(s) = {} /\ Using(s) = {}

\* Nobody is signed out by anything but a sign-out, the expiry of all the
\* session's tokens, the deletion of the account, or a failed insert: neither the
\* clean-up nor another session of the user takes a token in use.
SessionSurvives ==
    \A s \in issued :
        \/ Live(s) # {} \/ Renewing(s) # {}
        \/ s \in signedOut \cup broken
        \/ owner[s] \in deleted
        \/ \A t \in issued : session[t] = s => expiresAt[t] < now

\* The guards believe the role in the token, which the row may contradict only
\* for the life of an access token after the change, even when the change came
\* between a request's reading of the role and its signing.
StaleRoleEnds ==
    \A a \in access : verify(a) =>
        \/ a.sub \in users /\ role[a.sub] = a.role
        \/ now - since[a.sub] <= AccessLife

------------------------------------------------------------------------------
(* The inductive invariant *)

\* What a request read and presented, at the step where it relies on it.
RequestInv ==
    \A q \in Requests :
        /\ pc[q] \in {"idle", "compare", "setRole", "remove"} => token[q] = NoToken
        /\ pc[q] \in {"findUser", "delete", "deleteExpired"} => token[q] \in issued
        /\ pc[q] \in {"compare", "delete", "store"} => user[q] \in Users
        /\ pc[q] \in {"delete", "store"} /\ token[q] # NoToken => user[q] = owner[token[q]]
        /\ pc[q] = "deleteExpired" => expiresAt[token[q]] < now
        /\ pc[q] = "store" => jwt[q] \in Jwt

\* The tokens of a session are one user's.
TokenInv ==
    \A t \in issued : owner[session[t]] = owner[t] /\ expiresAt[t] <= now + RefreshLife

\* A request that uses a token of a session leaves it no other token.
UseInv ==
    \A s \in issued \ overlapped : \A q \in Using(s) : Live(s) \subseteq {token[q]}

Lost(s) == s \in signedOut \cup broken \/ owner[s] \in deleted

\* No token of s expires later than t.
IsLast(t, s) == \A r \in issued : session[r] = s => expiresAt[r] <= expiresAt[t]

\* The good token that keeps a session alive is the last of its tokens to expire.
SurvivalInv ==
    \A s \in issued :
        \/ Renewing(s) # {} \/ Lost(s)
        \/ \E t \in Live(s) : IsLast(t, s)
        \/ \A r \in issued : session[r] = s => expiresAt[r] < now

Agrees(u, r) == u \in users /\ role[u] = r

\* A role that was read, or signed, was the row's shortly before it changed.
GoodJwt(a) ==
    /\ a.exp <= now + AccessLife
    /\ Agrees(a.sub, a.role) \/ a.exp <= since[a.sub] + AccessLife + 1

RoleInv ==
    /\ \A u \in Users : since[u] <= now
    /\ \A a \in access : GoodJwt(a)
    /\ \A q \in Requests :
           /\ pc[q] = "store" => GoodJwt(jwt[q])
           /\ pc[q] \in {"compare", "delete"} =>
                  \/ Agrees(user[q], seen[q])
                  \/ since[user[q]] >= (IF q \in old THEN now - 1 ELSE now)

IInv ==
    /\ TypeOK /\ RequestInv /\ TokenInv /\ OneTokenPerSession /\ UseInv /\ SurvivalInv
    /\ RoleInv
=============================================================================
