-------------------------- MODULE EmailChangeProofs --------------------------
(***************************************************************************)
(* What holds of accounts and their addresses for any numbers of accounts, *)
(* addresses, links and requests, and any life of a link.                  *)
(***************************************************************************)
EXTENDS EmailChange, TLAPS

LEMMA InitInv == Init => IInv
<1> SUFFICES ASSUME Init PROVE IInv
    OBVIOUS
<1> USE AccountNamesAssumption DEF Init, Queue!Init
<1>1. TypeOK
  BY DEF TypeOK, NotAsked
<1>2. RequestInv /\ PendingInv /\ MailInv /\ FollowInv
  BY DEF RequestInv, PendingInv, MailInv, FollowInv
<1>3. AddressesAreUnique /\ LinkStaysGood
  BY DEF AddressesAreUnique, LinkStaysGood
<1> QED
  BY <1>1, <1>2, <1>3 DEF IInv

------------------------------------------------------------------------------
(* Types *)

\* One step per action.
LEMMA TypeStep == IInv /\ [Next]_vars => TypeOK'
<1> SUFFICES ASSUME IInv, [Next]_vars PROVE TypeOK'
    OBVIOUS
<1> USE AccountNamesAssumption
<1> USE DEF IInv, TypeOK, RequestInv, NotAsked, userVars, requestVars, mailVars, Begin, Answer,
        Rest, OnlyRequest, Rejected
<1>0. 0 \in 0..MaxTime + LinkLife /\ now + LinkLife \in 0..MaxTime + LinkLife
  OBVIOUS
<1>1. ASSUME NEW q \in Requests, NEW a \in Addresses, SignUp(q, a) PROVE TypeOK'
  BY <1>1 DEF SignUp
<1>2. ASSUME NEW q \in Requests, NEW g \in Identities, GoogleAuth(q, g) PROVE TypeOK'
  BY <1>2 DEF GoogleAuth
<1>3. ASSUME NEW q \in Requests, NEW u \in Users, NEW a \in Addresses,
             RequestEmailChange(q, u, a)
      PROVE  TypeOK'
  BY <1>3 DEF RequestEmailChange
<1>4. ASSUME NEW q \in Requests, NEW u \in Users, NEW a \in Addresses \cup {NoAddress},
             Administer(q, "setEmail", u, a) \/ Administer(q, "remove", u, a)
      PROVE  TypeOK'
  BY <1>4 DEF Administer
<1>5. ASSUME NEW q \in Requests, NEW m \in Mail, NEW u \in Users, ConfirmEmailChange(q, m, u)
      PROVE  TypeOK'
  BY <1>5 DEF ConfirmEmailChange, Mail
<1>6. ASSUME NEW q \in Requests, FindByEmail(q) PROVE TypeOK'
  BY <1>6 DEF FindByEmail, FoundByEmail
<1>7. ASSUME NEW q \in Requests, Create(q) PROVE TypeOK'
  BY <1>7 DEF Create
<1>8. ASSUME NEW q \in Requests, LinkGoogle(q) PROVE TypeOK'
  BY <1>8 DEF LinkGoogle
<1>9. ASSUME NEW q \in Requests, SetEmail(q) PROVE TypeOK'
  BY <1>9 DEF SetEmail
<1>10. ASSUME NEW q \in Requests, RemoveAccount(q) PROVE TypeOK'
  <2> USE <1>10 DEF RemoveAccount, ClearPending
  <2>1. \A u \in Users : (emailToken'[u] = NoLink) <=> (pendingEmail'[u] = NoAddress)
    OBVIOUS
  <2>2. /\ emailToken' \in [Users -> Links \cup {NoLink}]
        /\ pendingEmail' \in [Users -> Addresses \cup {NoAddress}]
        /\ emailTokenExpiresAt' \in [Users -> 0..MaxTime + LinkLife]
    BY <1>0
  <2>3. excused' \subseteq Links
    OBVIOUS
  <2> QED
    BY <2>1, <2>2, <2>3
<1>11. ASSUME NEW q \in Requests, SetPending(q) PROVE TypeOK'
  <2> USE <1>11 DEF SetPending
  <2>1. CASE Rejected(q)
    BY <2>1
  <2>2. CASE ~Rejected(q)
    <3>1. PICK k \in Links :
              /\ pendingEmail' = [pendingEmail EXCEPT ![user[q]] = address[q]]
              /\ emailToken' = [emailToken EXCEPT ![user[q]] = k]
              /\ emailTokenExpiresAt' = [emailTokenExpiresAt EXCEPT ![user[q]] = now + LinkLife]
              /\ asked' = [asked EXCEPT ![k] = [user |-> user[q], address |-> address[q]]]
              /\ excused' \subseteq excused \cup Links
              /\ pc' = [pc EXCEPT ![q] = "queueLink"]
              /\ link' = [link EXCEPT ![q] = k]
              /\ UNCHANGED <<users, created, email, googleId, user, address, identity>>
      BY <2>2
    <3>2. user[q] \in Users /\ address[q] \in Addresses
      OBVIOUS
    <3>3. /\ pendingEmail' \in [Users -> Addresses \cup {NoAddress}]
          /\ emailToken' \in [Users -> Links \cup {NoLink}]
          /\ \A u \in Users : (emailToken'[u] = NoLink) <=> (pendingEmail'[u] = NoAddress)
      BY <3>1, <3>2
    <3>4. emailTokenExpiresAt' \in [Users -> 0..MaxTime + LinkLife]
      BY <1>0, <3>1
    <3>5. asked' \in [Links -> [user : Users, address : Addresses] \cup {NotAsked}]
      BY <3>1, <3>2
    <3> QED
      BY <3>1, <3>3, <3>4, <3>5
  <2> QED
    BY <2>1, <2>2
<1>12. ASSUME NEW q \in Requests, QueueMail(q) PROVE TypeOK'
  BY <1>12 DEF QueueMail, Queue!Post
<1>13. ASSUME NEW q \in Requests, ApplyChange(q) PROVE TypeOK'
  <2> USE <1>13 DEF ApplyChange, ClearPending, confirmed
  <2>1. \A u \in Users : (emailToken'[u] = NoLink) <=> (pendingEmail'[u] = NoAddress)
    OBVIOUS
  <2>2. /\ emailToken' \in [Users -> Links \cup {NoLink}]
        /\ pendingEmail' \in [Users -> Addresses \cup {NoAddress}]
        /\ emailTokenExpiresAt' \in [Users -> 0..MaxTime + LinkLife]
    BY <1>0
  <2>3. excused' \subseteq Links /\ email' \in [Users -> Addresses \cup {NoAddress}]
    OBVIOUS
  <2> QED
    BY <2>1, <2>2, <2>3
<1>14. ASSUME NEW u \in Users, NEW a \in Addresses, AdminCreate(u, a) PROVE TypeOK'
  BY <1>14 DEF AdminCreate
<1>15. ASSUME NEW m \in Mail, Deliver(m) PROVE TypeOK'
  BY <1>15 DEF Deliver, Queue!Deliver
<1>16. CASE Tick
  BY <1>16 DEF Tick
<1>17. CASE UNCHANGED vars
  BY <1>17 DEF vars
<1> QED
  BY <1>1, <1>2, <1>3, <1>4, <1>5, <1>6, <1>7, <1>8, <1>9, <1>10, <1>11, <1>12, <1>13,
     <1>14, <1>15, <1>16, <1>17 DEF Next, Arrive, Serve

\* An address is only written where the unique index lets it.
LEMMA UniqueStep == IInv /\ [Next]_vars => AddressesAreUnique'
<1> SUFFICES ASSUME IInv, [Next]_vars PROVE AddressesAreUnique'
    OBVIOUS
<1> USE AccountNamesAssumption
<1> USE DEF AddressesAreUnique, FoundByEmail, userVars, Rest, OnlyRequest, Rejected
<1>0. TypeOK /\ AddressesAreUnique
  BY DEF IInv
<1>1. ASSUME users' = users, email' = email PROVE AddressesAreUnique'
  BY <1>0, <1>1
<1>2. ASSUME NEW u \in Users, NEW a, UniqueEmail(u, a), users' \subseteq users \cup {u},
             email' = [email EXCEPT ![u] = a]
      PROVE  AddressesAreUnique'
  BY <1>0, <1>2 DEF UniqueEmail, TypeOK
<1>3. ASSUME NEW q \in Requests, Arrive(q) PROVE AddressesAreUnique'
  BY <1>1, <1>3 DEF Arrive, SignUp, GoogleAuth, RequestEmailChange, Administer,
     ConfirmEmailChange
<1>4. ASSUME NEW q \in Requests, FindByEmail(q) \/ LinkGoogle(q) \/ SetPending(q) \/ QueueMail(q)
      PROVE  AddressesAreUnique'
  BY <1>1, <1>4 DEF FindByEmail, LinkGoogle, SetPending, QueueMail
<1>5. ASSUME NEW q \in Requests, Create(q) PROVE AddressesAreUnique'
  BY <1>0, <1>1, <1>2, <1>5 DEF Create, TypeOK
<1>6. ASSUME NEW q \in Requests, SetEmail(q) \/ ApplyChange(q) PROVE AddressesAreUnique'
  BY <1>0, <1>1, <1>2, <1>6 DEF SetEmail, ApplyChange, TypeOK
<1>7. ASSUME NEW q \in Requests, RemoveAccount(q) PROVE AddressesAreUnique'
  BY <1>0, <1>7 DEF RemoveAccount, TypeOK
<1>8. ASSUME NEW u \in Users, NEW a \in Addresses, AdminCreate(u, a) PROVE AddressesAreUnique'
  BY <1>2, <1>8 DEF AdminCreate
<1>9. CASE (\E m \in Mail : Deliver(m)) \/ Tick \/ UNCHANGED vars
  BY <1>1, <1>9 DEF Deliver, Tick, vars
<1> QED
  BY <1>3, <1>4, <1>5, <1>6, <1>7, <1>8, <1>9 DEF Next, Serve

------------------------------------------------------------------------------
(* Links *)

\* Once asked for, a link is never asked for again: AskedBy is stable.
LEMMA AskedStays ==
    ASSUME IInv, [Next]_vars, NEW k \in Links, asked[k] # NotAsked
    PROVE  asked'[k] = asked[k]
<1> USE DEF IInv, TypeOK, userVars, requestVars, mailVars, OnlyRequest, Rejected
<1>1. ASSUME NEW q \in Requests, Arrive(q) PROVE asked' = asked
  BY <1>1 DEF Arrive, SignUp, GoogleAuth, RequestEmailChange, Administer, ConfirmEmailChange
<1>2. ASSUME NEW q \in Requests, Serve(q) PROVE asked'[k] = asked[k]
  BY <1>2 DEF Serve, FindByEmail, Create, LinkGoogle, SetEmail, RemoveAccount, SetPending,
     QueueMail, ApplyChange
<1>3. ASSUME \/ \E u \in Users, a \in Addresses : AdminCreate(u, a)
             \/ \E m \in Mail : Deliver(m)
             \/ Tick \/ UNCHANGED vars
      PROVE  asked' = asked
  BY <1>3 DEF AdminCreate, Deliver, Tick, vars
<1> QED
  BY <1>1, <1>2, <1>3 DEF Next

\* A link goes to the address it was asked for.
LEMMA MailStep == IInv /\ [Next]_vars => MailInv'
<1> SUFFICES ASSUME IInv, [Next]_vars PROVE MailInv'
    OBVIOUS
<1> USE AccountNamesAssumption DEF MailInv
<1> USE DEF userVars, requestVars, mailVars, Rest, OnlyRequest, Rejected
<1>0. TypeOK /\ RequestInv /\ MailInv
  BY DEF IInv
<1>1. \A k \in Links : asked[k] # NotAsked => asked'[k] = asked[k]
  BY AskedStays
<1>2. ASSUME mailVars' = mailVars PROVE MailInv'
  BY <1>0, <1>1, <1>2 DEF Mail
<1>3. ASSUME NEW q \in Requests, Arrive(q) PROVE MailInv'
  BY <1>2, <1>3 DEF Arrive, SignUp, GoogleAuth, RequestEmailChange, Administer,
     ConfirmEmailChange
<1>4. ASSUME NEW q \in Requests,
             \/ FindByEmail(q) \/ Create(q) \/ LinkGoogle(q) \/ SetEmail(q)
             \/ RemoveAccount(q) \/ SetPending(q) \/ ApplyChange(q)
      PROVE  MailInv'
  BY <1>2, <1>4 DEF FindByEmail, Create, LinkGoogle, SetEmail, RemoveAccount, SetPending,
     ApplyChange
<1>5. ASSUME NEW q \in Requests, QueueMail(q) PROVE MailInv'
  <2> USE <1>5 DEF QueueMail, receiver
  <2>1. CASE UNCHANGED mailVars
    BY <1>2, <2>1
  <2>2. CASE Queue!Post([to |-> address[q], link |-> link[q]])
    <3>1. [to |-> address[q], link |-> link[q]] \in Mail
      BY <1>0 DEF RequestInv, Mail
    <3>2. link[q] = NoLink \/ (AskedBy(link[q], user[q], address[q]) /\ user[q] \in Users)
      BY <1>0 DEF RequestInv
    <3>3. link[q] = NoLink \/ (asked[link[q]] # NotAsked /\ asked[link[q]].address = address[q])
      BY <3>2 DEF AskedBy, NotAsked
    <3> QED
      BY <1>0, <2>2, <3>1, <3>3 DEF Queue!Post, TypeOK
  <2> QED
    BY <2>1, <2>2
<1>6. ASSUME NEW m \in Mail, Deliver(m) PROVE MailInv'
  BY <1>0, <1>6 DEF Deliver, Queue!Deliver
<1>7. ASSUME \/ \E u \in Users, a \in Addresses : AdminCreate(u, a)
             \/ Tick \/ UNCHANGED vars
      PROVE  MailInv'
  BY <1>2, <1>7 DEF AdminCreate, Tick, vars
<1> QED
  BY <1>3, <1>4, <1>5, <1>6, <1>7 DEF Next, Serve

\* What a request has in hand, and what is pending for an account.
LEMMA RequestStep == IInv /\ [Next]_vars => RequestInv' /\ PendingInv'
<1> SUFFICES ASSUME IInv, [Next]_vars PROVE RequestInv' /\ PendingInv'
    OBVIOUS
<1> USE AccountNamesAssumption DEF RequestInv, PendingInv
<1> USE DEF userVars, requestVars, mailVars, Rest, OnlyRequest, Rejected, Begin, Answer
<1>0. TypeOK /\ RequestInv /\ PendingInv /\ MailInv
  BY DEF IInv
<1>1. ASSUME NEW k \in Links, NEW u \in Users, NEW a, AskedBy(k, u, a) PROVE AskedBy(k, u, a)'
  <2>1. asked[k] # NotAsked
    BY <1>1 DEF AskedBy, NotAsked
  <2> QED
    BY <1>1, <2>1, AskedStays DEF AskedBy
<1>2. \A m \in delivered : m \in delivered'
  <2>1. ASSUME NEW q \in Requests, Arrive(q) PROVE delivered' = delivered
    BY <2>1 DEF Arrive, SignUp, GoogleAuth, RequestEmailChange, Administer, ConfirmEmailChange
  <2>2. ASSUME NEW q \in Requests, Serve(q) PROVE delivered' = delivered
    BY <2>2 DEF Serve, FindByEmail, Create, LinkGoogle, SetEmail, RemoveAccount, SetPending,
       QueueMail, Queue!Post, ApplyChange
  <2>3. ASSUME NEW m \in Mail, Deliver(m) PROVE delivered \subseteq delivered'
    BY <2>3 DEF Deliver, Queue!Deliver
  <2> QED
    BY <2>1, <2>2, <2>3 DEF Next, AdminCreate, Tick, vars
<1>3. ASSUME NEW u \in Users, emailToken'[u] = emailToken[u], pendingEmail'[u] = pendingEmail[u],
             emailToken'[u] # NoLink
      PROVE  AskedBy(emailToken[u], u, pendingEmail[u])'
  BY <1>0, <1>1, <1>3 DEF TypeOK, AskedBy
<1>4. ASSUME NEW q \in Requests, pc'[q] = pc[q], user'[q] = user[q], address'[q] = address[q],
             link'[q] = link[q]
      PROVE  RequestInv!(q)'
  BY <1>0, <1>1, <1>2, <1>4 DEF AskedBy
\* A step that touches no pending address only has its own request to answer for.
<1>5. ASSUME UNCHANGED <<emailToken, pendingEmail>>, NEW q \in Requests, RequestInv!(q)',
             \A p \in Requests \ {q} : /\ pc'[p] = pc[p] /\ user'[p] = user[p]
                                       /\ address'[p] = address[p] /\ link'[p] = link[p]
      PROVE  RequestInv' /\ PendingInv'
  BY <1>3, <1>4, <1>5
<1>6. ASSUME NEW q \in Requests, Arrive(q) PROVE RequestInv' /\ PendingInv'
  <2>1. ASSUME NEW m \in Mail, NEW u \in Users, ConfirmEmailChange(q, m, u)
        PROVE  RequestInv!(q)'
    <3>1. AskedBy(m.link, u, pendingEmail[u]) /\ m.link \in Links /\ m \in delivered
      BY <1>0, <2>1 DEF ConfirmEmailChange, usable, Mail
    <3>2. pendingEmail[u] \in Addresses /\ m = [to |-> pendingEmail[u], link |-> m.link]
      BY <1>0, <2>1, <3>1 DEF ConfirmEmailChange, usable, TypeOK, MailInv, AskedBy, NotAsked, Mail
    <3>3. AskedBy(m.link, u, pendingEmail[u])' /\ m \in delivered'
      BY <1>1, <1>2, <2>1, <3>1 DEF ConfirmEmailChange, AskedBy
    <3>4. /\ pc'[q] = "applyChange" /\ user'[q] = u /\ address'[q] = pendingEmail[u]
          /\ link'[q] = m.link /\ pendingEmail' = pendingEmail
      BY <1>0, <2>1 DEF ConfirmEmailChange, TypeOK
    <3> QED
      BY <3>1, <3>2, <3>3, <3>4 DEF AskedBy
  <2>2. RequestInv!(q)'
    BY <1>0, <1>6, <2>1 DEF Arrive, SignUp, GoogleAuth, RequestEmailChange, Administer, TypeOK
  <2>3. UNCHANGED <<emailToken, pendingEmail>>
    BY <1>6 DEF Arrive, SignUp, GoogleAuth, RequestEmailChange, Administer, ConfirmEmailChange
  <2>4. \A p \in Requests \ {q} : /\ pc'[p] = pc[p] /\ user'[p] = user[p]
                                  /\ address'[p] = address[p] /\ link'[p] = link[p]
    BY <1>0, <1>6 DEF Arrive, SignUp, GoogleAuth, RequestEmailChange, Administer,
       ConfirmEmailChange, TypeOK
  <2> QED
    BY <1>5, <2>2, <2>3, <2>4
<1>7. ASSUME NEW q \in Requests,
             \/ FindByEmail(q) \/ Create(q) \/ LinkGoogle(q) \/ SetEmail(q) \/ QueueMail(q)
      PROVE  RequestInv' /\ PendingInv'
  <2> USE <1>7 DEF FindByEmail, Create, LinkGoogle, SetEmail, QueueMail
  <2>1. RequestInv!(q)'
    BY <1>0 DEF TypeOK
  <2> QED
    BY <1>0, <1>5, <2>1 DEF TypeOK
<1>8. ASSUME NEW q \in Requests, RemoveAccount(q) \/ ApplyChange(q)
      PROVE  RequestInv' /\ PendingInv'
  <2> USE <1>8 DEF RemoveAccount, ApplyChange, ClearPending
  <2>1. RequestInv!(q)'
    BY <1>0 DEF TypeOK
  <2>2. \A p \in Requests \ {q} : RequestInv!(p)'
    BY <1>0, <1>4 DEF TypeOK
  <2>3. PendingInv'
    BY <1>0, <1>3 DEF TypeOK
  <2> QED
    BY <2>1, <2>2, <2>3
<1>9. ASSUME NEW q \in Requests, SetPending(q) PROVE RequestInv' /\ PendingInv'
  <2> USE <1>9 DEF SetPending
  <2>1. CASE Rejected(q)
    <3>1. RequestInv!(q)'
      BY <1>0, <2>1 DEF TypeOK
    <3> QED
      BY <1>0, <1>5, <2>1, <3>1 DEF TypeOK
  <2>2. CASE ~Rejected(q)
    <3>1. PICK k \in Links :
              /\ pendingEmail' = [pendingEmail EXCEPT ![user[q]] = address[q]]
              /\ emailToken' = [emailToken EXCEPT ![user[q]] = k]
              /\ asked' = [asked EXCEPT ![k] = [user |-> user[q], address |-> address[q]]]
              /\ pc' = [pc EXCEPT ![q] = "queueLink"]
              /\ link' = [link EXCEPT ![q] = k]
              /\ UNCHANGED <<user, address>>
      BY <2>2
    <3>2. user[q] \in Users /\ address[q] \in Addresses
      BY <1>0
    <3>3. AskedBy(k, user[q], address[q])'
      BY <1>0, <3>1 DEF AskedBy, TypeOK
    <3>4. RequestInv!(q)'
      BY <1>0, <3>1, <3>2, <3>3 DEF AskedBy, TypeOK
    <3>5. \A p \in Requests \ {q} : RequestInv!(p)'
      BY <1>0, <1>4, <3>1 DEF TypeOK
    <3>6. PendingInv'
      BY <1>0, <1>3, <3>1, <3>2, <3>3 DEF AskedBy, TypeOK
    <3> QED
      BY <3>4, <3>5, <3>6
  <2> QED
    BY <2>1, <2>2
<1>10. ASSUME \/ \E u \in Users, a \in Addresses : AdminCreate(u, a)
              \/ \E m \in Mail : Deliver(m)
              \/ Tick \/ UNCHANGED vars
       PROVE  RequestInv' /\ PendingInv'
  <2>1. UNCHANGED <<pc, user, address, link, emailToken, pendingEmail>>
    BY <1>10 DEF AdminCreate, Deliver, Tick, vars
  <2> QED
    BY <1>3, <1>4, <2>1
<1> QED
  BY <1>6, <1>7, <1>8, <1>9, <1>10 DEF Next, Serve

\* A link that must stay good is the pending one of its account.
LEMMA LinkStep == IInv /\ [Next]_vars => LinkStaysGood' /\ FollowInv'
<1> SUFFICES ASSUME IInv, [Next]_vars PROVE LinkStaysGood' /\ FollowInv'
    OBVIOUS
<1> USE AccountNamesAssumption DEF LinkStaysGood, FollowInv
<1> USE DEF userVars, requestVars, mailVars, Rest, OnlyRequest, Rejected, Begin, Answer
<1>0. TypeOK /\ RequestInv /\ PendingInv /\ LinkStaysGood /\ FollowInv
  BY DEF IInv
<1>1. ASSUME UNCHANGED <<emailToken, pendingEmail, asked, excused>>,
             \A q \in Requests : pc'[q] = "applyChange" =>
                 pc[q] = "applyChange" /\ user'[q] = user[q] /\ link'[q] = link[q]
      PROVE  LinkStaysGood' /\ FollowInv'
  BY <1>0, <1>1
<1>2. ASSUME NEW q \in Requests, Arrive(q) PROVE LinkStaysGood' /\ FollowInv'
  <2>1. CASE \E m \in Mail, u \in Users : ConfirmEmailChange(q, m, u)
    <3>1. PICK m \in Mail, u \in Users : ConfirmEmailChange(q, m, u)
      BY <2>1
    <3>2. LinkStaysGood'
      BY <1>0, <3>1 DEF ConfirmEmailChange
    <3>3. \A k \in Links : asked[k] # NotAsked /\ asked[k].user = u /\ k \notin excused => k = m.link
      BY <1>0, <3>1 DEF ConfirmEmailChange, usable
    <3>4. FollowInv'
      BY <1>0, <3>1, <3>3 DEF ConfirmEmailChange, TypeOK
    <3> QED
      BY <3>2, <3>4
  <2>2. CASE ~\E m \in Mail, u \in Users : ConfirmEmailChange(q, m, u)
    BY <1>0, <1>1, <1>2, <2>2 DEF Arrive, SignUp, GoogleAuth, RequestEmailChange, Administer,
       TypeOK
  <2> QED
    BY <2>1, <2>2
<1>3. ASSUME NEW q \in Requests,
             \/ FindByEmail(q) \/ Create(q) \/ LinkGoogle(q) \/ SetEmail(q) \/ QueueMail(q)
      PROVE  LinkStaysGood' /\ FollowInv'
  BY <1>0, <1>1, <1>3 DEF FindByEmail, Create, LinkGoogle, SetEmail, QueueMail, TypeOK
<1>4. ASSUME NEW q \in Requests, RemoveAccount(q) PROVE LinkStaysGood' /\ FollowInv'
  <2> USE <1>4 DEF RemoveAccount, ClearPending
  <2>1. \A k \in Links : asked[k] # NotAsked /\ k \notin excused' =>
            k \notin excused /\ asked[k].user # user[q]
    BY <1>0
  <2>2. LinkStaysGood'
    BY <1>0, <2>1 DEF TypeOK
  <2>3. FollowInv'
    BY <1>0 DEF TypeOK
  <2> QED
    BY <2>2, <2>3
<1>5. ASSUME NEW q \in Requests, ApplyChange(q) PROVE LinkStaysGood' /\ FollowInv'
  <2> USE <1>5 DEF ApplyChange, ClearPending
  <2>1. CASE Rejected(q)
    BY <1>0, <1>1, <2>1 DEF TypeOK
  <2>2. CASE ~Rejected(q)
    <3>1. \A k \in Links : asked[k] # NotAsked /\ k \notin excused' =>
              k \notin excused /\ asked[k].user # user[q]
      BY <1>0, <2>2
    <3>2. LinkStaysGood'
      BY <1>0, <2>2, <3>1 DEF TypeOK
    <3>3. FollowInv'
      BY <1>0, <2>2 DEF TypeOK
    <3> QED
      BY <3>2, <3>3
  <2> QED
    BY <2>1, <2>2
<1>6. ASSUME NEW q \in Requests, SetPending(q) PROVE LinkStaysGood' /\ FollowInv'
  <2> USE <1>6 DEF SetPending
  <2>1. CASE Rejected(q)
    BY <1>0, <1>1, <2>1 DEF TypeOK
  <2>2. CASE ~Rejected(q)
    <3> DEFINE u == user[q]
    <3>1. PICK k \in Links :
              /\ asked[k] = NotAsked
              /\ pendingEmail' = [pendingEmail EXCEPT ![u] = address[q]]
              /\ emailToken' = [emailToken EXCEPT ![u] = k]
              /\ asked' = [asked EXCEPT ![k] = [user |-> u, address |-> address[q]]]
              /\ excused' = excused \cup ({emailToken[u]} \cap Links)
                                    \cup (IF Applying(u) = {} THEN {} ELSE {k})
              /\ pc' = [pc EXCEPT ![q] = "queueLink"]
              /\ link' = [link EXCEPT ![q] = k]
              /\ UNCHANGED <<user, address>>
      BY <2>2
    <3>2. u \in Users /\ address[q] \in Addresses
      BY <1>0 DEF RequestInv
    <3>3. \A j \in Links \ {k} : asked'[j] = asked[j]
      BY <1>0, <3>1 DEF TypeOK
    <3>4. \A j \in Links \ {k} : asked[j] # NotAsked /\ j \notin excused' =>
              j \notin excused /\ asked[j].user # u
      BY <1>0, <3>1
    <3>5. LinkStaysGood'
      <4>1. /\ asked'[k].user = u /\ asked'[k].address = address[q]
            /\ emailToken'[u] = k /\ pendingEmail'[u] = address[q]
        BY <1>0, <3>1, <3>2 DEF TypeOK
      <4>2. \A j \in Links \ {k} : asked[j] # NotAsked /\ j \notin excused' =>
                /\ emailToken'[asked[j].user] = j
                /\ pendingEmail'[asked[j].user] = asked[j].address
        BY <1>0, <3>1, <3>4 DEF TypeOK
      <4> QED
        BY <3>3, <4>1, <4>2
    <3>6. FollowInv'
      <4>1. \A p \in Requests : pc'[p] = "applyChange" =>
                pc[p] = "applyChange" /\ user'[p] = user[p] /\ link'[p] = link[p]
        BY <1>0, <3>1 DEF TypeOK
      <4>2. \A p \in Requests : pc[p] = "applyChange" /\ user[p] = u => k \in excused'
        BY <3>1 DEF Applying
      <4>3. asked'[k].user = u
        BY <1>0, <3>1 DEF TypeOK
      <4> QED
        BY <1>0, <3>1, <3>3, <4>1, <4>2, <4>3
    <3> QED
      BY <3>5, <3>6
  <2> QED
    BY <2>1, <2>2
<1>7. ASSUME \/ \E u \in Users, a \in Addresses : AdminCreate(u, a)
             \/ \E m \in Mail : Deliver(m)
             \/ Tick \/ UNCHANGED vars
      PROVE  LinkStaysGood' /\ FollowInv'
  BY <1>1, <1>7 DEF AdminCreate, Deliver, Tick, vars
<1> QED
  BY <1>2, <1>3, <1>4, <1>5, <1>6, <1>7 DEF Next, Serve

------------------------------------------------------------------------------
(* Theorems *)

\* The inductive invariant: what is pending for an account, what its link was asked
\* for, where the link was mailed to and what a request holds of it agree.
THEOREM Invariance == Spec => []IInv
<1>1. IInv /\ [Next]_vars => IInv'
  BY TypeStep, UniqueStep, MailStep, RequestStep, LinkStep DEF IInv
<1> QED
  BY InitInv, <1>1, PTL DEF Spec

\* The state of accounts has its types; a pending address always comes with a link.
THEOREM TypeCorrect == Spec => []TypeOK
<1>1. IInv => TypeOK
  BY DEF IInv
<1> QED
  BY <1>1, Invariance, PTL

\* No two accounts have one address, although every write follows a look that may be
\* stale by then.
THEOREM UniqueAddresses == Spec => []AddressesAreUnique
<1>1. IInv => AddressesAreUnique
  BY DEF IInv
<1> QED
  BY <1>1, Invariance, PTL

\* UsersService.confirmEmailChange: a link stays good until it is followed or replaced.
THEOREM GoodLink == Spec => []LinkStaysGood
<1>1. IInv => LinkStaysGood
  BY DEF IInv
<1> QED
  BY <1>1, Invariance, PTL

\* UsersService.confirmEmailChange: an account only gets the address that it asked for
\* with the link that was followed, and to which that link was mailed.
THEOREM ProvedAddress == Spec => AddressIsProved
<1> DEFINE Proved ==
        \A q \in Requests, u \in Users :
            pc[q] = "applyChange" /\ pc'[q] = "idle" /\ user[q] = u /\ email'[u] # email[u] =>
                /\ asked[link[q]] = [user |-> u, address |-> email'[u]]
                /\ [to |-> email'[u], link |-> link[q]] \in delivered
<1>1. IInv /\ [Next]_vars => [Proved]_vars
  <2> SUFFICES ASSUME IInv, [Next]_vars, NEW q \in Requests, NEW u \in Users,
                      pc[q] = "applyChange", pc'[q] = "idle", user[q] = u,
                      email'[u] # email[u]
               PROVE  /\ asked[link[q]] = [user |-> u, address |-> email'[u]]
                      /\ [to |-> email'[u], link |-> link[q]] \in delivered
    OBVIOUS
  <2> USE DEF userVars, requestVars, mailVars, Rest, OnlyRequest, Rejected, Begin, Answer
  <2>0. TypeOK /\ RequestInv
    BY DEF IInv
  <2>1. ASSUME NEW p \in Requests, p # q, Arrive(p) \/ Serve(p) PROVE FALSE
    BY <2>0, <2>1 DEF Arrive, SignUp, GoogleAuth, RequestEmailChange, Administer,
       ConfirmEmailChange, Serve, FindByEmail, Create, LinkGoogle, SetEmail, RemoveAccount,
       SetPending, QueueMail, ApplyChange, TypeOK
  <2>2. ~Arrive(q)
    BY DEF Arrive, SignUp, GoogleAuth, RequestEmailChange, Administer, ConfirmEmailChange
  <2>3. CASE Serve(q)
    <3>1. ApplyChange(q)
      BY <2>3 DEF Serve, FindByEmail, Create, LinkGoogle, SetEmail, RemoveAccount, SetPending,
         QueueMail
    <3>2. email'[u] = address[q]
      BY <2>0, <3>1 DEF ApplyChange, confirmed, TypeOK
    <3> QED
      BY <2>0, <3>2 DEF RequestInv, AskedBy
  <2>4. CASE (\E v \in Users, a \in Addresses : AdminCreate(v, a)) \/ (\E m \in Mail : Deliver(m)) \/ Tick
    BY <2>4 DEF AdminCreate, Deliver, Tick
  <2> QED
    BY <2>1, <2>2, <2>3, <2>4 DEF Next, vars
<1> QED
  BY <1>1, Invariance, PTL DEF Spec, AddressIsProved
==============================================================================
