----------------------------- MODULE EmailChange -----------------------------
(***************************************************************************)
(* Who has which address: sign-up by form and with Google, the change of   *)
(* an address through a link that is mailed to it, the administrator's     *)
(* changes and the removal of accounts.  What the mail queue does with the *)
(* mails is what Mailbox says of it.                                       *)
(*                                                                         *)
(* One step per awaited call; a request whose first call refuses it        *)
(* changes nothing and is no step.  Names, passwords, plans and sessions   *)
(* are left out.                                                           *)
(***************************************************************************)
EXTENDS Integers

CONSTANTS
    Users, NoUser,
    Addresses, NoAddress,
    Identities, NoIdentity, \* Google accounts
    GoogleAddress,          \* their addresses
    Links, NoLink,          \* the uuids of e-mail tokens
    Requests,
    LinkLife,               \* one hour, in ticks
    MaxTime

ASSUME AccountNamesAssumption ==
    /\ NoUser \notin Users /\ NoAddress \notin Addresses
    /\ NoIdentity \notin Identities /\ NoLink \notin Links
    /\ GoogleAddress \in [Identities -> Addresses]
    /\ LinkLife \in Nat /\ MaxTime \in Nat

VARIABLES
    \* Postgres
    users, created,         \* accounts that exist; ids that were given out
    email, googleId,
    pendingEmail, emailToken, emailTokenExpiresAt,
    \* the requests
    pc, user, address, identity, link,
    box, delivered,         \* the mail queue
    now,
    \* history
    asked,                  \* per link: who asked for it and for which address
    excused                 \* links that were followed, replaced, or overlapped

userVars == <<users, created, email, googleId, pendingEmail, emailToken, emailTokenExpiresAt>>
requestVars == <<pc, user, address, identity, link>>
mailVars == <<box, delivered>>
vars == <<userVars, requestVars, mailVars, now, asked, excused>>

\* A mail: its receiver and the link in it, which a welcome does not have.
Mail == [to : Addresses, link : Links \cup {NoLink}]

Queue == INSTANCE Mailbox WITH Mails <- Mail

NotAsked == [user |-> NoUser, address |-> NoAddress]

TypeOK ==
    /\ users \subseteq created /\ created \subseteq Users
    /\ email \in [Users -> Addresses \cup {NoAddress}]
    /\ googleId \in [Users -> Identities \cup {NoIdentity}]
    /\ pendingEmail \in [Users -> Addresses \cup {NoAddress}]
    /\ emailToken \in [Users -> Links \cup {NoLink}]
    /\ \A u \in Users : (emailToken[u] = NoLink) <=> (pendingEmail[u] = NoAddress)
    /\ emailTokenExpiresAt \in [Users -> 0..MaxTime + LinkLife]
    /\ pc \in [Requests -> {"idle", "create", "findByEmail", "linkGoogle", "setPending",
                            "queueWelcome", "queueLink", "applyChange", "setEmail", "remove"}]
    /\ user \in [Requests -> Users \cup {NoUser}]
    /\ address \in [Requests -> Addresses \cup {NoAddress}]
    /\ identity \in [Requests -> Identities \cup {NoIdentity}]
    /\ link \in [Requests -> Links \cup {NoLink}]
    /\ box \in [Mail -> {"none", "posted", "completed", "failed"}]
    /\ delivered \subseteq Mail
    /\ now \in 0..MaxTime
    /\ asked \in [Links -> [user : Users, address : Addresses] \cup {NotAsked}]
    /\ excused \subseteq Links

Init ==
    /\ Queue!Init
    /\ users = {} /\ created = {}
    /\ email = [u \in Users |-> NoAddress]
    /\ googleId = [u \in Users |-> NoIdentity]
    /\ pendingEmail = [u \in Users |-> NoAddress]
    /\ emailToken = [u \in Users |-> NoLink]
    /\ emailTokenExpiresAt = [u \in Users |-> 0]
    /\ pc = [q \in Requests |-> "idle"]
    /\ user = [q \in Requests |-> NoUser]
    /\ address = [q \in Requests |-> NoAddress]
    /\ identity = [q \in Requests |-> NoIdentity]
    /\ link = [q \in Requests |-> NoLink]
    /\ now = 0
    /\ asked = [k \in Links |-> NotAsked]
    /\ excused = {}

------------------------------------------------------------------------------
(* Helpers *)

Begin(q, label, u, a, g, k) ==
    /\ pc[q] = "idle"
    /\ pc' = [pc EXCEPT ![q] = label]
    /\ user' = [user EXCEPT ![q] = u]
    /\ address' = [address EXCEPT ![q] = a]
    /\ identity' = [identity EXCEPT ![q] = g]
    /\ link' = [link EXCEPT ![q] = k]

Answer(q) ==
    /\ pc' = [pc EXCEPT ![q] = "idle"]
    /\ user' = [user EXCEPT ![q] = NoUser]
    /\ address' = [address EXCEPT ![q] = NoAddress]
    /\ identity' = [identity EXCEPT ![q] = NoIdentity]
    /\ link' = [link EXCEPT ![q] = NoLink]

Rest == UNCHANGED <<mailVars, now>>
OnlyRequest == UNCHANGED <<userVars, asked, excused>> /\ Rest

FoundByEmail(a) == {u \in users : email[u] = a}
FoundByGoogleId(g) == {u \in users : googleId[u] = g}

\* Faulty variant: without the unique index.
UniqueEmailUnchecked(u, a) == TRUE

\* The unique index on email, for a write to the row of u.
UniqueEmail(u, a) == FoundByEmail(a) \subseteq {u}

\* Faulty variant: the new address is set and the link kept.
ClearPendingKeepsLink(u) ==
    /\ pendingEmail' = [pendingEmail EXCEPT ![u] = NoAddress]
    /\ UNCHANGED <<emailToken, emailTokenExpiresAt>>

ClearPending(u) ==
    /\ pendingEmail' = [pendingEmail EXCEPT ![u] = NoAddress]
    /\ emailToken' = [emailToken EXCEPT ![u] = NoLink]
    /\ emailTokenExpiresAt' = [emailTokenExpiresAt EXCEPT ![u] = 0]

\* Faulty variant: the link is cleared by a write of its own before the one that
\* may be rejected.
RejectedCleared(q) ==
    /\ Answer(q)
    /\ IF pc[q] = "applyChange" /\ user[q] \in users THEN ClearPending(user[q])
       ELSE UNCHANGED <<pendingEmail, emailToken, emailTokenExpiresAt>>
    /\ UNCHANGED <<users, created, email, googleId, asked, excused>>

\* The write is rejected and the request ends with an error.
Rejected(q) == Answer(q) /\ UNCHANGED <<userVars, asked, excused>>

------------------------------------------------------------------------------
(* Accounts: AuthService.signup and googleAuth, the administrator's requests *)

SignUp(q, a) ==
    /\ FoundByEmail(a) = {}
    /\ Begin(q, "create", NoUser, a, NoIdentity, NoLink)
    /\ OnlyRequest

\* The account of a known identity is found by it and only gets tokens.
GoogleAuth(q, g) ==
    /\ FoundByGoogleId(g) = {}
    /\ Begin(q, "findByEmail", NoUser, GoogleAddress[g], g, NoLink)
    /\ OnlyRequest

FindByEmail(q) ==
    LET found == FoundByEmail(address[q]) IN
    /\ pc[q] = "findByEmail"
    /\ \/ /\ found = {}
          /\ pc' = [pc EXCEPT ![q] = "create"]
          /\ UNCHANGED user
       \/ /\ pc' = [pc EXCEPT ![q] = "linkGoogle"]
          /\ \E u \in found : user' = [user EXCEPT ![q] = u]
    /\ UNCHANGED <<address, identity, link>>
    /\ OnlyRequest

Create(q) ==
    LET a == address[q]
        g == identity[q]
    IN
    /\ pc[q] = "create"
    /\ \/ \E u \in Users \ created :
              /\ UniqueEmail(u, a)
              /\ g # NoIdentity => FoundByGoogleId(g) = {}
              /\ users' = users \cup {u}
              /\ created' = created \cup {u}
              /\ email' = [email EXCEPT ![u] = a]
              /\ googleId' = [googleId EXCEPT ![u] = g]
              /\ pc' = [pc EXCEPT ![q] = "queueWelcome"]
              /\ UNCHANGED <<pendingEmail, emailToken, emailTokenExpiresAt, user, address,
                             identity, link, asked, excused>>
       \/ Rejected(q)
    /\ Rest

\* An administrator's create: no look before the write, and no mail after it.
AdminCreate(u, a) ==
    /\ u \notin created
    /\ UniqueEmail(u, a)
    /\ users' = users \cup {u}
    /\ created' = created \cup {u}
    /\ email' = [email EXCEPT ![u] = a]
    /\ UNCHANGED <<googleId, pendingEmail, emailToken, emailTokenExpiresAt, requestVars, asked,
                   excused>>
    /\ Rest

LinkGoogle(q) ==
    LET u == user[q] IN
    /\ pc[q] = "linkGoogle"
    /\ \/ /\ u \in users
          /\ FoundByGoogleId(identity[q]) \subseteq {u}
          /\ googleId' = [googleId EXCEPT ![u] = identity[q]]
          /\ Answer(q)
          /\ UNCHANGED <<users, created, email, pendingEmail, emailToken, emailTokenExpiresAt,
                         asked, excused>>
       \/ Rejected(q)
    /\ Rest

\* An administrator's request, once findById found the account.
Administer(q, label, u, a) ==
    /\ u \in users
    /\ Begin(q, label, u, a, NoIdentity, NoLink)
    /\ OnlyRequest

SetEmail(q) ==
    LET u == user[q] IN
    /\ pc[q] = "setEmail"
    /\ \/ /\ u \in users
          /\ UniqueEmail(u, address[q])
          /\ email' = [email EXCEPT ![u] = address[q]]
          /\ Answer(q)
          /\ UNCHANGED <<users, created, googleId, pendingEmail, emailToken,
                         emailTokenExpiresAt, asked, excused>>
       \/ Rejected(q)
    /\ Rest

RemoveAccount(q) ==
    LET u == user[q] IN
    /\ pc[q] = "remove"
    /\ users' = users \ {u}
    /\ email' = [email EXCEPT ![u] = NoAddress]
    /\ googleId' = [googleId EXCEPT ![u] = NoIdentity]
    /\ ClearPending(u)
    /\ excused' = excused \cup ({emailToken[u]} \cap Links)
    /\ Answer(q)
    /\ UNCHANGED <<created, asked>>
    /\ Rest

------------------------------------------------------------------------------
(* UsersService.requestEmailChange and confirmEmailChange *)

RequestEmailChange(q, u, a) ==
    /\ u \in created
    /\ FoundByEmail(a) = {}
    /\ Begin(q, "setPending", u, a, NoIdentity, NoLink)
    /\ OnlyRequest

\* Requests that found a link and will write what they read with it.
Applying(u) == {q \in Requests : pc[q] = "applyChange" /\ user[q] = u}

\* The address and its link are one write; a link that was pending is replaced.
SetPending(q) ==
    LET u == user[q]
        a == address[q]
    IN
    /\ pc[q] = "setPending"
    /\ \/ \E k \in Links :
              /\ asked[k] = NotAsked
              /\ u \in users
              /\ pendingEmail' = [pendingEmail EXCEPT ![u] = a]
              /\ emailToken' = [emailToken EXCEPT ![u] = k]
              /\ emailTokenExpiresAt' = [emailTokenExpiresAt EXCEPT ![u] = now + LinkLife]
              /\ asked' = [asked EXCEPT ![k] = [user |-> u, address |-> a]]
              /\ excused' = excused \cup ({emailToken[u]} \cap Links)
                                    \cup (IF Applying(u) = {} THEN {} ELSE {k})
              /\ pc' = [pc EXCEPT ![q] = "queueLink"]
              /\ link' = [link EXCEPT ![q] = k]
              /\ UNCHANGED <<users, created, email, googleId, user, address, identity>>
       \/ Rejected(q)
    /\ Rest

\* "To the new address: confirming it proves the user controls it."
receiver(q) == address[q]

\* queueWelcome and queueEmailChangeConfirmation: neither says whether the mail was
\* queued.
QueueMail(q) ==
    LET m == [to |-> receiver(q), link |-> link[q]] IN
    /\ pc[q] \in {"queueWelcome", "queueLink"}
    /\ Queue!Post(m) \/ UNCHANGED mailVars
    /\ Answer(q)
    /\ UNCHANGED <<userVars, now, asked, excused>>

usable(u, k) == emailToken[u] = k /\ emailTokenExpiresAt[u] >= now

\* Somebody follows the link of a mail that was delivered.  The request keeps the pending
\* address it read with the token.
ConfirmEmailChange(q, m, u) ==
    /\ m \in delivered /\ m.link # NoLink
    /\ u \in users
    /\ usable(u, m.link)
    /\ Begin(q, "applyChange", u, pendingEmail[u], NoIdentity, m.link)
    /\ OnlyRequest

\* Faulty variant: the pending address is taken from the row as it is now.
confirmedRead(q) == pendingEmail[user[q]]

confirmed(q) == address[q]

\* Written by the id of the account, whatever is pending now.
ApplyChange(q) ==
    LET u == user[q] IN
    /\ pc[q] = "applyChange"
    /\ \/ /\ u \in users
          /\ UniqueEmail(u, confirmed(q))
          /\ email' = [email EXCEPT ![u] = confirmed(q)]
          /\ ClearPending(u)
          /\ excused' = excused \cup {link[q]}
          /\ Answer(q)
          /\ UNCHANGED <<users, created, googleId, asked>>
       \/ Rejected(q)
    /\ Rest

Tick ==
    /\ now < MaxTime
    /\ now' = now + 1
    /\ UNCHANGED <<userVars, requestVars, mailVars, asked, excused>>

------------------------------------------------------------------------------

\* Neither the arrival of a welcome nor the end of a job makes a difference here.
Deliver(m) ==
    /\ m.link # NoLink
    /\ m \notin delivered
    /\ Queue!Deliver(m)
    /\ UNCHANGED <<userVars, requestVars, now, asked, excused>>

Arrive(q) ==
    \/ \E a \in Addresses : SignUp(q, a)
    \/ \E g \in Identities : GoogleAuth(q, g)
    \/ \E u \in Users, a \in Addresses :
           RequestEmailChange(q, u, a) \/ Administer(q, "setEmail", u, a)
    \/ \E u \in Users : Administer(q, "remove", u, NoAddress)
    \/ \E m \in Mail, u \in Users : ConfirmEmailChange(q, m, u)

Serve(q) ==
    \/ FindByEmail(q) \/ Create(q) \/ LinkGoogle(q) \/ SetEmail(q) \/ RemoveAccount(q)
    \/ SetPending(q) \/ QueueMail(q) \/ ApplyChange(q)

Next ==
    \/ \E q \in Requests : Arrive(q) \/ Serve(q)
    \/ \E u \in Users, a \in Addresses : AdminCreate(u, a)
    \/ \E m \in Mail : Deliver(m)
    \/ Tick

Spec == Init /\ [][Next]_vars

------------------------------------------------------------------------------
(* Properties *)

\* Two accounts never have one address, however sign-ups, confirmations and an
\* administrator race for it.
AddressesAreUnique == \A u, v \in users : email[u] = email[v] => u = v

\* Following a link gives an account no address but the one the account asked for
\* with that link and the link was mailed to, even when the account asked for
\* another one while the request was under way.
AddressIsProved ==
    [][\A q \in Requests, u \in Users :
           pc[q] = "applyChange" /\ pc'[q] = "idle" /\ user[q] = u /\ email'[u] # email[u] =>
               /\ asked[link[q]] = [user |-> u, address |-> email'[u]]
               /\ [to |-> email'[u], link |-> link[q]] \in delivered
      ]_vars

\* The link of a request stays good until it is followed or the user asks again,
\* unless an earlier link was being followed when it was asked for: the write of a
\* confirmation erases what is pending by then.
LinkStaysGood ==
    \A k \in Links : asked[k] # NotAsked /\ k \notin excused =>
        /\ emailToken[asked[k].user] = k
        /\ pendingEmail[asked[k].user] = asked[k].address

------------------------------------------------------------------------------
(* The inductive invariant *)

AskedBy(k, u, a) == asked[k] = [user |-> u, address |-> a]

\* What a request that is about to write or to post a mail has in hand.
RequestInv ==
    \A q \in Requests :
        /\ pc[q] = "setPending" => user[q] \in Users /\ address[q] \in Addresses
        /\ pc[q] = "queueWelcome" => address[q] \in Addresses /\ link[q] = NoLink
        /\ pc[q] \in {"queueLink", "applyChange"} =>
               /\ user[q] \in Users /\ address[q] \in Addresses /\ link[q] \in Links
               /\ AskedBy(link[q], user[q], address[q])
        /\ pc[q] = "applyChange" => [to |-> address[q], link |-> link[q]] \in delivered
        /\ pc[q] \in {"create", "findByEmail"} => address[q] \in Addresses /\ link[q] = NoLink

\* A pending address is the one its link was asked for.
PendingInv ==
    \A u \in Users : emailToken[u] # NoLink => AskedBy(emailToken[u], u, pendingEmail[u])

\* A link only ever goes to the address it was asked for.
MailInv ==
    /\ delivered \subseteq {m \in Mail : box[m] # "none"}
    /\ \A m \in Mail : box[m] # "none" /\ m.link # NoLink =>
           asked[m.link] # NotAsked /\ asked[m.link].address = m.to

\* While a link is being followed, its account has no other link that must stay good.
FollowInv ==
    \A q \in Requests, k \in Links :
        pc[q] = "applyChange" /\ asked[k] # NotAsked /\ asked[k].user = user[q]
            /\ k \notin excused => k = link[q]

IInv ==
    /\ TypeOK /\ RequestInv /\ PendingInv /\ MailInv /\ FollowInv
    /\ AddressesAreUnique /\ LinkStaysGood
=============================================================================
