---------------------------- MODULE TenancyProofs ----------------------------
(***************************************************************************)
(* Proofs about accounts, tenants, invites, administration and endpoints,   *)
(* for any number of concurrent requests, addresses, Google accounts and    *)
(* failures.  The first half proves AInv (module TenancyInvariant), from    *)
(* which sign-ins agree and no invite is wasted; the second proves OInv on  *)
(* top of it: types and keys, the audit log, and what a success has left.   *)
(* Both say what a request may rely on at each await: rows are only added,  *)
(* or changed in columns that the rest of the request does not look at.     *)
(***************************************************************************)
EXTENDS TenancyInvariant, TLAPS

\* Labels about which RequestOK says nothing.
Free == {"refused", "ok", "error", "insertInvite", "beginChange", "findTenant",
         "viewTenant", "findActive", "softDelete", "inviteTenant",
         "saveStatus", "updateStatus", "auditSame", "auditChanged", "commitSame", "commitChanged",
         "auditView", "readTenant", "createOne", "commitEndpoint", "commitRemoval"}

\* Accounts, invites and memberships stay, up to a provider link that displaces
\* another and to accepted_at; so does what a request was asked.
Kept ==
    /\ \A u \in users : \E w \in users' :
         w.id = u.id /\ w.email = u.email /\ (u.sub \in {NoOne} \cup displaced' \/ w.sub = u.sub)
    /\ \A i \in invites : \E j \in invites' :
         j.id = i.id /\ j.tenant = i.tenant /\ j.email = i.email /\ j.role = i.role
    /\ memberships \subseteq memberships'
    /\ displaced \subseteq displaced'
    /\ \A q \in Request : pc[q] # "idle" => pc'[q] # "idle" /\ in'[q] = in[q]

-----------------------------------------------------------------------------

\* The seeds.
LEMMA AInvInit == Init => AInv
  <1> SUFFICES ASSUME Init PROVE AInv
    OBVIOUS
  <1>0. PICK s \in Slug, e \in Email, to \in Email, role \in Role :
          /\ users = {[id |-> Seed, email |-> e, password |-> TRUE, sub |-> NoOne]}
          /\ invites = {[id |-> Seed, tenant |-> Seed, email |-> toLowerCase[to],
                         role |-> role, accepted |-> FALSE]}
    BY Zenon DEF Init
  <1>1. Shape /\ Known
    BY DEF Init, Shape, Known
  <1>2. UsersOK
    BY <1>0, IdAssumption DEF UsersOK
  <1>3. InvitesOK
    BY <1>0, IdAssumption DEF InvitesOK
  <1>4. InviteNotWasted
    BY <1>0 DEF InviteNotWasted
  <1>5. \A r \in Request : RequestOK(r)
    BY DEF Init, RequestOK
  <1> QED
    BY <1>1, <1>2, <1>3, <1>4, <1>5 DEF AInv

\* The addresses a Google account has come with are not forgotten.
LEMMA CameKept ==
    ASSUME Kept, NEW s, NEW e, Came(s, e)
    PROVE  \E q \in Request : /\ pc'[q] # "idle" /\ in'[q].kind = "google" /\ in'[q].sub = s
                              /\ in'[q].verified /\ in'[q].email = e
  BY DEF Kept, Came

\* The account of a sign-in remains its account.
LEMMA OwnedKept ==
    ASSUME Kept, NEW id, NEW e, NEW s, Owned(id, e, s)
    PROVE  \E u \in users' :
             /\ u.id = id
             /\ \/ u.email = e
                \/ \E q \in Request : /\ pc'[q] # "idle" /\ in'[q].kind = "google"
                                       /\ in'[q].sub = s /\ in'[q].verified
                                       /\ in'[q].email = u.email
             /\ s \in {NoOne} \cup displaced' \/ u.sub = s
  <1>1. PICK u \in users : /\ u.id = id
                           /\ u.email = e \/ Came(s, u.email)
                           /\ s \in {NoOne} \cup displaced \/ u.sub = s
    BY DEF Owned
  <1>2. PICK w \in users' :
          w.id = u.id /\ w.email = u.email /\ (u.sub \in {NoOne} \cup displaced' \/ w.sub = u.sub)
    BY DEF Kept
  <1>3. s \in {NoOne} \cup displaced' \/ w.sub = s
    BY <1>1, <1>2 DEF Kept
  <1>4. CASE u.email = e
    BY <1>1, <1>2, <1>3, <1>4
  <1>5. CASE Came(s, u.email)
    <2>1. \E q \in Request : /\ pc'[q] # "idle" /\ in'[q].kind = "google" /\ in'[q].sub = s
                             /\ in'[q].verified /\ in'[q].email = u.email
      BY <1>5, CameKept
    <2> QED
      BY <1>1, <1>2, <1>3, <2>1
  <1> QED
    BY <1>1, <1>4, <1>5

\* What a request relies on outlives the steps of the others.
LEMMA OthersOK ==
    ASSUME AInv, Kept, NEW q \in Request,
           pc'[q] = pc[q], in'[q] = in[q], user'[q] = user[q]
    PROVE  RequestOK(q)'
  <1>1. RequestOK(q)
    BY DEF AInv
  <1>2. (Google(q) => Google(q)') /\ (Verified(q) => Verified(q)')
    BY DEF Google, Verified
  <1>3. Resolved(q) => Resolved(q)'
    BY DEF Kept, Resolved
  <1>6. Owned(user[q], in[q].email, GoogleAccount(q)) =>
          Owned(user[q], in[q].email, GoogleAccount(q))'
    BY OwnedKept DEF Owned, Came, GoogleAccount
  <1>4. in[q].user \in Ids(users) => in'[q].user \in Ids(users')
    BY DEF Kept, Ids
  <1>5. ASSUME Joining(q) PROVE Joining(q)'
    <2>1. PICK i \in invites, u \in users :
            /\ i.id = in[q].token /\ u.id = in[q].user /\ i.email = toLowerCase[u.email]
            /\ pc[q] = "mark" =>
                 [user |-> u.id, tenant |-> i.tenant, role |-> i.role] \in memberships
      BY <1>5 DEF Joining
    <2>2. PICK j \in invites' :
            j.id = i.id /\ j.tenant = i.tenant /\ j.email = i.email /\ j.role = i.role
      BY DEF Kept
    <2>3. PICK w \in users' : w.id = u.id /\ w.email = u.email
      BY DEF Kept
    <2>4. pc'[q] = "mark" => [user |-> w.id, tenant |-> j.tenant, role |-> j.role] \in memberships'
      BY <2>1, <2>2, <2>3 DEF Kept
    <2>5. j.id = in'[q].token /\ w.id = in'[q].user /\ j.email = toLowerCase[w.email]
      BY <2>1, <2>2, <2>3
    <2> QED
      BY <2>4, <2>5 DEF Joining
  <1> QED
    BY <1>1, <1>2, <1>3, <1>4, <1>5, <1>6 DEF RequestOK

\* Consumed invites and begun sessions outlive every such step.
LEMMA OldRowsOK ==
    ASSUME AInv, Kept
    PROVE  /\ signed' = signed => Known'
           /\ \A i \in invites : i.accepted => \E u \in users' :
                /\ toLowerCase[u.email] = i.email
                /\ [user |-> u.id, tenant |-> i.tenant, role |-> i.role] \in memberships'
  <1>1. ASSUME signed' = signed PROVE Known'
    <2> SUFFICES ASSUME NEW a \in signed PROVE Owned(a.user, a.email, a.sub)'
      BY <1>1 DEF Known
    <2>1. Owned(a.user, a.email, a.sub)
      BY DEF AInv, Known
    <2>2. \E u \in users' :
            /\ u.id = a.user
            /\ \/ u.email = a.email
               \/ \E q \in Request : /\ pc'[q] # "idle" /\ in'[q].kind = "google"
                                      /\ in'[q].sub = a.sub /\ in'[q].verified
                                      /\ in'[q].email = u.email
            /\ a.sub \in {NoOne} \cup displaced' \/ u.sub = a.sub
      BY <2>1, OwnedKept
    <2> QED
      BY <2>2 DEF Owned, Came
  <1>2. ASSUME NEW i \in invites, i.accepted
        PROVE  \E u \in users' :
                 /\ toLowerCase[u.email] = i.email
                 /\ [user |-> u.id, tenant |-> i.tenant, role |-> i.role] \in memberships'
    <2>1. PICK u \in users :
            /\ toLowerCase[u.email] = i.email
            /\ [user |-> u.id, tenant |-> i.tenant, role |-> i.role] \in memberships
      BY <1>2 DEF AInv, InviteNotWasted
    <2>2. PICK w \in users' : w.id = u.id /\ w.email = u.email
      BY DEF Kept
    <2> QED
      BY <2>1, <2>2 DEF Kept
  <1> QED
    BY <1>1, <1>2

\* The accounts are as before.
LEMMA SameUsers ==
    ASSUME AInv, Kept, users' = users, NEW r \in Request,
           \A q \in Request \ {r} : pc'[q] = pc[q],
           pc'[r] \in {"ok", "error"} \/ pc[r] \notin {"session", "ok", "error"}
    PROVE  UsersOK'
  <1>1. \A u \in users : u.sub # NoOne => Came(u.sub, u.email)
    BY DEF AInv, UsersOK
  <1>2. \A u \in users' : u.sub # NoOne => Came(u.sub, u.email)'
    BY <1>1, CameKept DEF Came
  <1>3. \A u \in users' : u.id \in Request => pc'[u.id] \in {"session", "ok", "error"}
    BY DEF AInv, UsersOK
  <1> QED
    BY <1>2, <1>3 DEF AInv, UsersOK

\* A step of r that changes no account, no invite and begins no session.
LEMMA PlainStep ==
    ASSUME AInv, NEW r \in Request, NEW p, pc' = [pc EXCEPT ![r] = p],
           users' = users, invites' = invites, signed' = signed, displaced' = displaced,
           memberships \subseteq memberships',
           Shape', \A q \in Request \ {r} : in'[q] = in[q] /\ user'[q] = user[q],
           p # "idle", pc[r] = "idle" \/ in'[r] = in[r],
           p \in {"ok", "error"} \/ pc[r] \notin {"session", "inviteTenant", "ok", "error"},
           RequestOK(r)'
    PROVE  AInv'
  <1>1. pc'[r] = p /\ \A q \in Request \ {r} : pc'[q] = pc[q]
    BY DEF AInv, Shape
  <1>2. Kept
    BY <1>1 DEF Kept
  <1>3. \A q \in Request : RequestOK(q)'
    BY <1>1, <1>2, OthersOK
  <1>4. UsersOK'
    BY <1>1, <1>2, SameUsers
  <1>5. InvitesOK'
    BY <1>1 DEF AInv, InvitesOK
  <1>6. Known' /\ InviteNotWasted'
    BY <1>2, OldRowsOK DEF InviteNotWasted
  <1> QED
    BY <1>3, <1>4, <1>5, <1>6 DEF AInv

\* A plain step to a label that promises nothing.
LEMMA FreeStep ==
    ASSUME AInv, NEW r \in Request, NEW p \in Free, pc' = [pc EXCEPT ![r] = p],
           users' = users, invites' = invites, signed' = signed, displaced' = displaced,
           memberships \subseteq memberships', in' = in, user' = user,
           p \in {"ok", "error"} \/ pc[r] \notin {"session", "inviteTenant", "ok", "error"}
    PROVE  AInv'
  <1>1. pc'[r] = p /\ Shape'
    BY DEF AInv, Shape
  <1>2. RequestOK(r)'
    BY <1>1 DEF RequestOK, Free
  <1>3. p # "idle"
    BY DEF Free
  <1> QED
    BY <1>1, <1>2, <1>3, PlainStep

-----------------------------------------------------------------------------
(* Arrival and sign-in. *)

LEMMA AInvArrive ==
    ASSUME AInv, NEW r \in Request, Arrive(r)
    PROVE  AInv'
  <1>1. PICK i \in Inputs :
          /\ in' = [in EXCEPT ![r] = i]
          /\ pc' = [pc EXCEPT ![r] = IF TurnedAway(i) THEN "refused" ELSE FirstStep(i.kind)]
    BY DEF Arrive, Goto
  <1> DEFINE p == IF TurnedAway(i) THEN "refused" ELSE FirstStep(i.kind)
  <1>2. /\ i.kind \in {"register", "login", "google", "onboard", "invite", "accept", "suspend",
                       "reactivate", "view", "endpoint", "remove"}
        /\ i.kind = "google" => i.sub \in Sub
        /\ i.kind = "accept" => i.user \in Ids(users)
    BY DEF Inputs, Change
  <1>3. p \in Free \/ (p = "byAccount" /\ i.kind = "google")
          \/ (p = "findInvite" /\ i.kind = "accept")
          \/ (p = "byEmail" /\ i.kind = "register") \/ (p = "login" /\ i.kind = "login")
          \/ (p = "insertTenant" /\ i.kind = "onboard")
    BY <1>2 DEF FirstStep, Free, Change
  <1>4. pc' = [pc EXCEPT ![r] = p]
    BY <1>1
  <1> HIDE DEF p
  <1>5. pc'[r] = p /\ in'[r] = i /\ \A q \in Request \ {r} : in'[q] = in[q]
    BY <1>1, <1>4 DEF AInv, Shape
  <1>6. /\ users' = users /\ invites' = invites /\ signed' = signed /\ displaced' = displaced
        /\ memberships' = memberships /\ user' = user
    BY DEF Arrive, tables, history
  <1>7. Shape'
    BY <1>1, <1>4, <1>6 DEF AInv, Shape
  <1>8. RequestOK(r)'
    BY <1>2, <1>3, <1>5, <1>6 DEF RequestOK, Google, Free, Ids
  <1>9. pc[r] = "idle" /\ p # "idle"
    BY <1>3 DEF Arrive, Free
  <1> QED
    BY <1>4, <1>5, <1>6, <1>7, <1>8, <1>9, PlainStep

\* The sign-in steps that only read.
LEMMA AInvSignIn ==
    ASSUME AInv, NEW r \in Request,
           FindByEmail(r) \/ Login(r) \/ FindByProviderAccount(r) \/ FindGoogleEmail(r)
    PROVE  AInv'
  <1>1. /\ users' = users /\ invites' = invites /\ signed' = signed /\ displaced' = displaced
        /\ memberships' = memberships /\ in' = in
    BY DEF FindByEmail, Login, FindByProviderAccount, FindGoogleEmail, tables, history
  <1>2. RequestOK(r)
    BY DEF AInv
  <1>a. pc[r] \in {"byEmail", "login", "byAccount", "googleEmail"}
    BY DEF FindByEmail, Login, FindByProviderAccount, FindGoogleEmail
  <1>3. /\ pc[r] = "byEmail" => in[r].kind = "register"
        /\ pc[r] = "login" => in[r].kind = "login"
        /\ pc[r] = "byAccount" => Google(r)
        /\ pc[r] = "googleEmail" => Verified(r)
    BY <1>2 DEF RequestOK
  <1>4. CASE pc' = [pc EXCEPT ![r] = "refused"] /\ user' = user
    BY <1>1, <1>4, <1>a, FreeStep DEF Free
  <1>5. ASSUME user' = user, NEW p \in {"createUser", "googleEmail"},
               pc' = [pc EXCEPT ![r] = p],
               in[r].kind = "register" \/ Verified(r), p = "googleEmail" => Verified(r)
        PROVE  AInv'
    <2>1. pc'[r] = p /\ Shape'
      BY <1>1, <1>5 DEF AInv, Shape
    <2>2. RequestOK(r)'
      BY <1>1, <1>5, <2>1 DEF RequestOK, Google, Verified
    <2> QED
      BY <1>1, <1>5, <1>a, <2>1, <2>2, PlainStep
  <1>6. ASSUME NEW u \in users, user' = [user EXCEPT ![r] = u.id],
               NEW p \in {"link", "session"}, pc' = [pc EXCEPT ![r] = p],
               p = "link" => Verified(r) /\ u.email = in[r].email,
               p = "session" => /\ u.email = in[r].email \/ Came(GoogleAccount(r), u.email)
                                /\ GoogleAccount(r) = NoOne \/ u.sub = GoogleAccount(r)
        PROVE  AInv'
    <2>1. pc'[r] = p /\ user'[r] = u.id /\ Shape' /\ \A q \in Request \ {r} : user'[q] = user[q]
      BY <1>1, <1>6 DEF AInv, Shape
    <2>2. p = "link" => Resolved(r)' /\ Verified(r)'
      BY <1>1, <1>6, <2>1 DEF Resolved, Google, Verified
    <2>4. p = "session" => Owned(user[r], in[r].email, GoogleAccount(r))'
      <3>1. \A q \in Request : pc[q] # "idle" => pc'[q] # "idle"
        BY <1>6, <2>1 DEF AInv, Shape
      <3> QED
        BY <1>1, <1>6, <2>1, <3>1 DEF Owned, Came, GoogleAccount
    <2>3. RequestOK(r)'
      BY <1>6, <2>1, <2>2, <2>4 DEF RequestOK
    <2> QED
      BY <1>1, <1>6, <1>a, <2>1, <2>3, PlainStep
  <1>7. CASE FindByEmail(r)
    <2>1. pc[r] = "byEmail" /\ user' = user
      BY <1>7 DEF FindByEmail
    <2>2. pc' = [pc EXCEPT ![r] = "refused"] \/ pc' = [pc EXCEPT ![r] = "createUser"]
      BY <1>7 DEF FindByEmail, Goto
    <2> QED
      BY <1>3, <1>4, <1>5, <2>1, <2>2
  <1>8. CASE Login(r)
    <2>1. CASE pc' = [pc EXCEPT ![r] = "refused"] /\ user' = user
      BY <1>4, <2>1
    <2>2. ASSUME NEW u \in WithEmail(in[r].email), user' = [user EXCEPT ![r] = u.id],
                 pc' = [pc EXCEPT ![r] = "session"]
          PROVE  AInv'
      <3>1. u \in users /\ u.email = in[r].email
        BY DEF WithEmail
      <3>2. GoogleAccount(r) = NoOne
        BY <1>3, <1>8 DEF Login, GoogleAccount
      <3> QED
        BY <1>6, <2>2, <3>1, <3>2
    <2> QED
      BY <1>8, <2>1, <2>2 DEF Login, Goto, Resolve
  <1>9. CASE FindByProviderAccount(r)
    <2>0. Google(r)
      BY <1>3, <1>9 DEF FindByProviderAccount
    <2>1. CASE pc' = [pc EXCEPT ![r] = "refused"] /\ user' = user
      BY <1>4, <2>1
    <2>2. CASE in[r].verified /\ pc' = [pc EXCEPT ![r] = "googleEmail"] /\ user' = user
      BY <1>5, <2>0, <2>2 DEF Verified
    <2>3. ASSUME NEW u \in WithAccount(in[r].sub), user' = [user EXCEPT ![r] = u.id],
                 pc' = [pc EXCEPT ![r] = "session"]
          PROVE  AInv'
      <3>1. u \in users /\ u.sub = in[r].sub
        BY DEF WithAccount
      <3>2. GoogleAccount(r) = in[r].sub /\ Came(GoogleAccount(r), u.email)
        BY <2>0, <3>1, IdAssumption DEF Google, GoogleAccount, AInv, UsersOK
      <3> QED
        BY <1>6, <2>3, <3>1, <3>2
    <2> QED
      BY <1>9, <2>1, <2>2, <2>3 DEF FindByProviderAccount, Goto, Resolve
  <1>10. CASE FindGoogleEmail(r)
    <2>0. Verified(r)
      BY <1>3, <1>10 DEF FindGoogleEmail
    <2>1. CASE pc' = [pc EXCEPT ![r] = "createUser"] /\ user' = user
      BY <1>5, <2>0, <2>1
    <2>2. ASSUME NEW u \in WithEmail(in[r].email), user' = [user EXCEPT ![r] = u.id],
                 pc' = [pc EXCEPT ![r] = "link"]
          PROVE  AInv'
      <3>1. u \in users /\ u.email = in[r].email
        BY DEF WithEmail
      <3> QED
        BY <1>6, <2>0, <2>2, <3>1
    <2> QED
      BY <1>10, <2>1, <2>2 DEF FindGoogleEmail, Goto, Resolve
  <1> QED
    BY <1>7, <1>8, <1>9, <1>10

\* A new account: no row has its id, and the indexes keep its address apart.
LEMMA AInvCreateUser ==
    ASSUME AInv, NEW r \in Request, CreateUser(r)
    PROVE  AInv'
  <1> DEFINE sub == GoogleAccount(r)
             new == [id |-> r, email |-> in[r].email, password |-> in[r].kind = "register",
                     sub |-> sub]
  <1>1. pc[r] = "createUser" /\ invites' = invites /\ memberships' = memberships
        /\ signed' = signed /\ displaced' = displaced /\ in' = in
    BY DEF CreateUser, history
  <1>2. CASE pc' = [pc EXCEPT ![r] = "error"] /\ users' = users /\ user' = user
    BY <1>1, <1>2, FreeStep DEF Free
  <1>3. CASE /\ WithEmail(in[r].email) = {} /\ (sub = NoOne \/ WithAccount(sub) = {})
             /\ users' = users \cup {new}
             /\ user' = [user EXCEPT ![r] = r] /\ pc' = [pc EXCEPT ![r] = "session"]
    <2>1. /\ pc'[r] = "session" /\ user'[r] = r /\ Shape'
          /\ \A q \in Request \ {r} : pc'[q] = pc[q] /\ user'[q] = user[q]
      BY <1>1, <1>3 DEF AInv, Shape
    <2>2. new.id = r /\ new.email = in[r].email /\ new.sub = sub
      OBVIOUS
    <2>3. sub # NoOne => Came(sub, in[r].email)
      <3>1. in[r].kind = "register" \/ Verified(r)
        BY <1>1 DEF AInv, RequestOK
      <3> QED
        BY <1>1, <3>1 DEF Google, Verified, GoogleAccount, Came
    <2>4. new = [id |-> new.id, email |-> new.email, password |-> new.password, sub |-> new.sub]
      OBVIOUS
    <2>5. \A u \in users : u.id # r /\ u.email # in[r].email /\ (sub = NoOne \/ u.sub # sub)
      BY <1>1, <1>3 DEF AInv, UsersOK, WithEmail, WithAccount
    <2>13. sub = GoogleAccount(r) /\ sub = GoogleAccount(r)'
      BY <1>1 DEF GoogleAccount
    <2> HIDE DEF new, sub
    <2>8. Kept
      BY <1>1, <1>3, <2>1 DEF Kept
    <2>6. UsersOK'
      <3>1. \A u \in users' :
              u = [id |-> u.id, email |-> u.email, password |-> u.password, sub |-> u.sub]
        BY <1>3, <2>4 DEF AInv, UsersOK
      <3>2. \A u, v \in users' : u.id = v.id \/ u.email = v.email => u = v
        BY <1>3, <2>2, <2>5 DEF AInv, UsersOK
      <3>3. \A u \in users' : u.sub # NoOne => Came(u.sub, u.email)'
        <4> SUFFICES ASSUME NEW u \in users', u.sub # NoOne PROVE Came(u.sub, u.email)'
          OBVIOUS
        <4>1. Came(u.sub, u.email)
          BY <1>3, <2>2, <2>3 DEF AInv, UsersOK
        <4>2. \E q \in Request : /\ pc'[q] # "idle" /\ in'[q].kind = "google"
                                 /\ in'[q].sub = u.sub /\ in'[q].verified
                                 /\ in'[q].email = u.email
          BY <2>8, <4>1, CameKept
        <4> QED
          BY <4>2 DEF Came
      <3>4. \A u \in users' : u.id \in Request => pc'[u.id] \in {"session", "ok", "error"}
        BY <1>3, <2>1, <2>2 DEF AInv, UsersOK
      <3>5. \A u, v \in users' : u.sub = v.sub /\ u.sub # NoOne => u = v
        BY <1>3, <2>2, <2>5 DEF AInv, UsersOK
      <3> QED
        BY <3>1, <3>2, <3>3, <3>4, <3>5 DEF UsersOK
    <2>7. InvitesOK'
      BY <1>1, <2>1 DEF AInv, InvitesOK
    <2>9. Owned(user[r], in[r].email, GoogleAccount(r))'
      BY <1>1, <1>3, <2>1, <2>2, <2>13 DEF Owned
    <2>10. RequestOK(r)'
      BY <2>1, <2>9 DEF RequestOK
    <2>11. \A q \in Request : RequestOK(q)'
      BY <1>1, <2>1, <2>8, <2>10, OthersOK
    <2>12. Known' /\ InviteNotWasted'
      BY <1>1, <2>8, OldRowsOK DEF InviteNotWasted
    <2> QED
      BY <2>1, <2>6, <2>7, <2>11, <2>12 DEF AInv
  <1> QED
    BY <1>2, <1>3, Zenon DEF CreateUser, Goto, Resolve

\* A link changes the provider's account of one row.
LEMMA AInvLinkProvider ==
    ASSUME AInv, NEW r \in Request, LinkProvider(r)
    PROVE  AInv'
  <1> DEFINE taken == \E u \in WithAccount(in[r].sub) : u.id # user[r]
             img(u) == IF u.id = user[r] THEN [u EXCEPT !.sub = in[r].sub] ELSE u
  <1>1. pc[r] = "link" /\ invites' = invites /\ memberships' = memberships
        /\ signed' = signed /\ in' = in /\ user' = user
    BY DEF LinkProvider, history
  <1>2. CASE taken
    <2>1. users' = users /\ displaced' = displaced /\ pc' = [pc EXCEPT ![r] = "error"]
      BY <1>2 DEF LinkProvider, Goto
    <2> QED
      BY <1>1, <2>1, FreeStep DEF Free
  <1>3. CASE ~taken
    <2>1. users' = {img(u) : u \in users} /\ pc' = [pc EXCEPT ![r] = "session"]
      BY <1>3 DEF LinkProvider, Goto
    <2>12. /\ displaced \subseteq displaced'
           /\ \A u \in users : u.id = user[r] => u.sub \in {NoOne, in[r].sub} \cup displaced'
      BY <1>3 DEF LinkProvider
    <2>2. /\ pc'[r] = "session" /\ Shape'
          /\ \A q \in Request \ {r} : pc'[q] = pc[q]
      BY <1>1, <2>1 DEF AInv, Shape
    <2>3. /\ Verified(r) /\ Resolved(r) /\ GoogleAccount(r) = in[r].sub
          /\ in[r].sub \in Sub /\ Came(in[r].sub, in[r].email)
      <3>1. Verified(r) /\ Resolved(r)
        BY <1>1 DEF AInv, RequestOK
      <3> QED
        BY <1>1, <3>1 DEF Google, Verified, GoogleAccount, Came
    <2>4. ASSUME NEW u \in users
          PROVE  /\ img(u).id = u.id /\ img(u).email = u.email
                 /\ img(u) = [id |-> img(u).id, email |-> img(u).email,
                              password |-> img(u).password, sub |-> img(u).sub]
                 /\ img(u).sub # NoOne => Came(img(u).sub, img(u).email)
                 /\ u.id = user[r] => img(u).sub = in[r].sub
                 /\ u.id # user[r] => img(u).sub = u.sub
      <3>1. u = [id |-> u.id, email |-> u.email, password |-> u.password, sub |-> u.sub]
        BY DEF AInv, UsersOK
      <3>2. u.sub # NoOne => Came(u.sub, u.email)
        BY DEF AInv, UsersOK
      <3>3. CASE u.id = user[r]
        <4>1. u.email = in[r].email
          BY <2>3, <3>3 DEF Resolved, AInv, UsersOK
        <4>2. img(u) = [id |-> u.id, email |-> u.email, password |-> u.password,
                        sub |-> in[r].sub]
          BY <3>1, <3>3
        <4> QED
          BY <2>3, <3>3, <4>1, <4>2
      <3>4. CASE u.id # user[r]
        BY <3>1, <3>2, <3>4
      <3> QED
        BY <3>3, <3>4
    <2>13. \A u \in users : u.id # user[r] => u.sub # in[r].sub
      BY <1>3 DEF WithAccount
    <2> HIDE DEF img, taken
    <2>7. Kept
      <3>1. \A u \in users : \E w \in users' :
              w.id = u.id /\ w.email = u.email
                /\ (u.sub \in {NoOne} \cup displaced' \/ w.sub = u.sub)
        <4> SUFFICES ASSUME NEW u \in users
                     PROVE  /\ img(u) \in users' /\ img(u).id = u.id /\ img(u).email = u.email
                            /\ u.sub \in {NoOne} \cup displaced' \/ img(u).sub = u.sub
          OBVIOUS
        <4> QED
          BY <2>1, <2>4, <2>12
      <3> QED
        BY <1>1, <2>2, <2>12, <3>1 DEF Kept
    <2>5. UsersOK'
      <3>1. \A u \in users' :
              u = [id |-> u.id, email |-> u.email, password |-> u.password, sub |-> u.sub]
        BY <2>1, <2>4
      <3>2. ASSUME NEW u \in users', NEW v \in users', u.id = v.id \/ u.email = v.email
            PROVE  u = v
        <4>1. PICK x \in users : u = img(x)
          BY <2>1
        <4>2. PICK y \in users : v = img(y)
          BY <2>1
        <4>3. x.id = y.id \/ x.email = y.email
          BY <2>4, <3>2, <4>1, <4>2
        <4>4. x = y
          BY <4>3 DEF AInv, UsersOK
        <4> QED
          BY <4>1, <4>2, <4>4
      <3>3. \A u \in users' : u.sub # NoOne => Came(u.sub, u.email)'
        <4> SUFFICES ASSUME NEW u \in users', u.sub # NoOne PROVE Came(u.sub, u.email)'
          OBVIOUS
        <4>1. Came(u.sub, u.email)
          BY <2>1, <2>4
        <4>2. \E q \in Request : /\ pc'[q] # "idle" /\ in'[q].kind = "google"
                                 /\ in'[q].sub = u.sub /\ in'[q].verified
                                 /\ in'[q].email = u.email
          BY <2>7, <4>1, CameKept
        <4> QED
          BY <4>2 DEF Came
      <3>5. ASSUME NEW u \in users', NEW v \in users', u.sub = v.sub, u.sub # NoOne
            PROVE  u = v
        <4>1. PICK x \in users : u = img(x)
          BY <2>1
        <4>2. PICK y \in users : v = img(y)
          BY <2>1
        <4>3. x.id = user[r] <=> y.id = user[r]
          BY <2>4, <2>13, <3>5, <4>1, <4>2
        <4>4. x = y
          BY <2>4, <3>5, <4>1, <4>2, <4>3 DEF AInv, UsersOK
        <4> QED
          BY <4>1, <4>2, <4>4
      <3>4. \A u \in users' : u.id \in Request => pc'[u.id] \in {"session", "ok", "error"}
        BY <2>1, <2>2, <2>4 DEF AInv, UsersOK
      <3> QED
        BY <3>1, <3>2, <3>3, <3>4, <3>5 DEF UsersOK
    <2>6. InvitesOK'
      BY <1>1, <2>2 DEF AInv, InvitesOK
    <2>8. Owned(user[r], in[r].email, GoogleAccount(r))'
      <3>1. PICK u \in users : u.id = user[r] /\ u.email = in[r].email
        BY <2>3 DEF Resolved
      <3>2. /\ img(u) \in users' /\ img(u).id = user[r] /\ img(u).email = in[r].email
            /\ img(u).sub = in[r].sub
        BY <2>1, <2>4, <3>1
      <3>3. user'[r] = user[r] /\ in'[r] = in[r] /\ GoogleAccount(r)' = in[r].sub
        BY <1>1, <2>3 DEF GoogleAccount
      <3> QED
        BY <3>2, <3>3 DEF Owned
    <2>9. RequestOK(r)'
      BY <2>2, <2>8 DEF RequestOK
    <2>10. \A q \in Request : RequestOK(q)'
      BY <1>1, <2>2, <2>7, <2>9, OthersOK
    <2>11. Known' /\ InviteNotWasted'
      BY <1>1, <2>7, OldRowsOK DEF InviteNotWasted
    <2> QED
      BY <2>2, <2>5, <2>6, <2>10, <2>11 DEF AInv
  <1> QED
    BY <1>2, <1>3

\* A session is begun for the account that was found.
LEMMA AInvIssueSession ==
    ASSUME AInv, NEW r \in Request, IssueSession(r)
    PROVE  AInv'
  <1>1. /\ pc[r] = "session" /\ pc' = [pc EXCEPT ![r] = "ok"]
        /\ users' = users /\ invites' = invites /\ memberships' = memberships
        /\ in' = in /\ user' = user /\ displaced' = displaced
    BY DEF IssueSession, Goto, tables
  <1>2. pc'[r] = "ok" /\ Shape' /\ \A q \in Request \ {r} : pc'[q] = pc[q]
    BY <1>1 DEF AInv, Shape
  <1>3. Kept
    BY <1>1, <1>2 DEF Kept
  <1>4. RequestOK(r)'
    BY <1>2 DEF RequestOK
  <1>5. \A q \in Request : RequestOK(q)'
    BY <1>1, <1>2, <1>3, <1>4, OthersOK
  <1>6. InviteNotWasted'
    BY <1>1, <1>3, OldRowsOK DEF InviteNotWasted
  <1>7. Known'
    <2>1. CASE signed' = signed
      BY <1>3, <2>1, OldRowsOK
    <2>2. CASE /\ in[r].kind # "onboard"
               /\ signed' = signed \cup {[email |-> in[r].email, sub |-> GoogleAccount(r),
                                          user |-> user[r]]}
      <3>1. Owned(user[r], in[r].email, GoogleAccount(r))
        BY <1>1, <2>2 DEF AInv, RequestOK
      <3>2. \A a \in signed' : Owned(a.user, a.email, a.sub)
        BY <2>2, <3>1 DEF AInv, Known
      <3> QED
        BY <1>3, <3>2, OwnedKept DEF Known, Owned, Came
    <2> QED
      BY <2>1, <2>2 DEF IssueSession
  <1>8. UsersOK' /\ InvitesOK'
    BY <1>1, <1>2, <1>3, SameUsers DEF AInv, InvitesOK
  <1> QED
    BY <1>2, <1>5, <1>6, <1>7, <1>8 DEF AInv

-----------------------------------------------------------------------------
(* Onboarding and invites. *)

LEMMA AInvOnboard ==
    ASSUME AInv, NEW r \in Request, InsertTenant(r) \/ InsertOwner(r) \/ CommitTenant(r)
    PROVE  AInv'
  <1>1. /\ users' = users /\ invites' = invites /\ signed' = signed /\ in' = in
        /\ memberships \subseteq memberships' /\ displaced' = displaced
    BY DEF InsertTenant, InsertOwner, CommitTenant, tables, history
  <1>2. pc[r] \in {"insertTenant", "insertOwner", "commitTenant"}
    BY DEF InsertTenant, InsertOwner, CommitTenant
  <1>3. in[r].kind = "onboard"
    BY <1>2 DEF AInv, RequestOK
  <1>4. \E p \in {"refused", "insertOwner", "commitTenant", "session"} : pc' = [pc EXCEPT ![r] = p]
    BY DEF InsertTenant, InsertOwner, CommitTenant, Goto
  <1>5. Shape' /\ \A q \in Request \ {r} : in'[q] = in[q] /\ user'[q] = user[q]
    BY <1>1, <1>4 DEF AInv, Shape, InsertTenant, InsertOwner, CommitTenant, Resolve
  <1>6. PICK p \in {"refused", "insertOwner", "commitTenant", "session"} :
          pc' = [pc EXCEPT ![r] = p]
    BY <1>4
  <1>7. pc'[r] = p
    BY <1>6 DEF AInv, Shape
  <1>8. RequestOK(r)'
    BY <1>1, <1>3, <1>7 DEF RequestOK
  <1> QED
    BY <1>1, <1>2, <1>5, <1>6, <1>8, PlainStep

LEMMA AInvInsertInvite ==
    ASSUME AInv, NEW r \in Request, InsertInvite(r)
    PROVE  AInv'
  <1> DEFINE new == [id |-> r, tenant |-> in[r].tenant, role |-> in[r].role,
                     email |-> toLowerCase[in[r].email], accepted |-> FALSE]
  <1>1. /\ pc[r] = "insertInvite" /\ pc' = [pc EXCEPT ![r] = "inviteTenant"]
        /\ users' = users /\ invites' = invites \cup {new} /\ memberships' = memberships
        /\ in' = in /\ user' = user /\ signed' = signed /\ displaced' = displaced
    BY DEF InsertInvite, Goto, history
  <1>2. pc'[r] = "inviteTenant" /\ Shape' /\ \A q \in Request \ {r} : pc'[q] = pc[q]
    BY <1>1 DEF AInv, Shape
  <1>3. new.id = r /\ new.accepted = FALSE
        /\ new = [id |-> new.id, tenant |-> new.tenant, email |-> new.email, role |-> new.role,
                  accepted |-> new.accepted]
    OBVIOUS
  <1> HIDE DEF new
  <1>4. \A i \in invites : i.id # r
    BY <1>1 DEF AInv, InvitesOK
  <1>5. InvitesOK'
    <2>1. \A i, j \in invites' : i.id = j.id => i = j
      BY <1>1, <1>3, <1>4 DEF AInv, InvitesOK
    <2>2. \A i \in invites' :
            i = [id |-> i.id, tenant |-> i.tenant, email |-> i.email, role |-> i.role,
                 accepted |-> i.accepted]
      BY <1>1, <1>3 DEF AInv, InvitesOK
    <2>3. \A i \in invites' : i.id \in Request => pc'[i.id] \in {"inviteTenant", "ok", "error"}
      BY <1>1, <1>2, <1>3 DEF AInv, InvitesOK
    <2> QED
      BY <2>1, <2>2, <2>3 DEF InvitesOK
  <1>7. Kept
    BY <1>1, <1>2 DEF Kept
  <1>6. UsersOK'
    BY <1>1, <1>2, <1>7, SameUsers
  <1>8. RequestOK(r)'
    BY <1>2 DEF RequestOK
  <1>9. \A q \in Request : RequestOK(q)'
    BY <1>1, <1>2, <1>7, <1>8, OthersOK
  <1>10. Known'
    BY <1>1, <1>7, OldRowsOK
  <1>11. InviteNotWasted'
    BY <1>1, <1>3, <1>7, OldRowsOK DEF InviteNotWasted
  <1> QED
    BY <1>2, <1>5, <1>6, <1>9, <1>10, <1>11 DEF AInv

LEMMA AInvFindInvite ==
    ASSUME AInv, NEW r \in Request, FindInvite(r)
    PROVE  AInv'
  <1>1. /\ pc[r] = "findInvite" /\ users' = users /\ invites' = invites /\ signed' = signed
        /\ memberships' = memberships /\ in' = in /\ user' = user /\ displaced' = displaced
    BY DEF FindInvite, tables, history
  <1>2. CASE pc' = [pc EXCEPT ![r] = "refused"]
    BY <1>1, <1>2, FreeStep DEF Free
  <1>3. ASSUME NEW i \in invites, i.id = in[r].token,
               i.email = toLowerCase[Row(users, in[r].user).email],
               pc' = [pc EXCEPT ![r] = "join"]
        PROVE  AInv'
    <2>1. in[r].user \in Ids(users)
      BY <1>1 DEF AInv, RequestOK
    <2>2. \E u \in users : u.id = in[r].user
      BY <2>1 DEF Ids
    <2>3. Row(users, in[r].user) \in users /\ Row(users, in[r].user).id = in[r].user
      BY <2>2 DEF Row
    <2>4. pc'[r] = "join" /\ Shape'
      BY <1>1, <1>3 DEF AInv, Shape
    <2>5. Joining(r)'
      BY <1>1, <1>3, <2>3, <2>4 DEF Joining
    <2>6. RequestOK(r)'
      BY <2>4, <2>5 DEF RequestOK
    <2> QED
      BY <1>1, <1>3, <2>4, <2>6, PlainStep
  <1> QED
    BY <1>2, <1>3 DEF FindInvite, Goto

LEMMA AInvJoin ==
    ASSUME AInv, NEW r \in Request, Join(r)
    PROVE  AInv'
  <1>1. /\ pc[r] = "join" /\ users' = users /\ invites' = invites /\ signed' = signed
        /\ in' = in /\ user' = user /\ displaced' = displaced
    BY DEF Join, history
  <1>2. CASE pc' = [pc EXCEPT ![r] = "refused"] /\ memberships' = memberships
    BY <1>1, <1>2, FreeStep DEF Free
  <1>3. CASE /\ pc' = [pc EXCEPT ![r] = "mark"]
             /\ memberships' = memberships \cup
                  {[user |-> in[r].user, tenant |-> Row(invites, in[r].token).tenant,
                    role |-> Row(invites, in[r].token).role]}
    <2>1. Joining(r)
      BY <1>1 DEF AInv, RequestOK
    <2>2. PICK i \in invites, u \in users :
            i.id = in[r].token /\ u.id = in[r].user /\ i.email = toLowerCase[u.email]
      BY <2>1 DEF Joining
    <2>3. Row(invites, in[r].token) = i
      BY <2>2 DEF Row, AInv, InvitesOK
    <2>4. [user |-> u.id, tenant |-> i.tenant, role |-> i.role] \in memberships'
      BY <1>3, <2>2, <2>3
    <2>5. pc'[r] = "mark" /\ Shape'
      BY <1>1, <1>3 DEF AInv, Shape
    <2>6. Joining(r)'
      BY <1>1, <2>2, <2>4 DEF Joining
    <2>7. RequestOK(r)'
      BY <2>5, <2>6 DEF RequestOK
    <2>8. memberships \subseteq memberships'
      BY <1>3
    <2> QED
      BY <1>1, <1>3, <2>5, <2>7, <2>8, PlainStep
  <1> QED
    BY <1>2, <1>3, Zenon DEF Join, Goto

\* The only step that consumes an invite comes after the membership.
LEMMA AInvMark ==
    ASSUME AInv, NEW r \in Request, MarkAcceptedIfPending(r)
    PROVE  AInv'
  <1> DEFINE img(i) == IF i.id = in[r].token THEN [i EXCEPT !.accepted = TRUE] ELSE i
  <1>1. /\ pc[r] = "mark" /\ pc' = [pc EXCEPT ![r] = "ok"]
        /\ users' = users /\ invites' = {img(i) : i \in invites} /\ memberships' = memberships
        /\ in' = in /\ user' = user /\ signed' = signed /\ displaced' = displaced
    BY DEF MarkAcceptedIfPending, Goto, history
  <1>2. pc'[r] = "ok" /\ Shape' /\ \A q \in Request \ {r} : pc'[q] = pc[q]
    BY <1>1 DEF AInv, Shape
  <1>3. ASSUME NEW i \in invites
        PROVE  /\ img(i).id = i.id /\ img(i).tenant = i.tenant /\ img(i).email = i.email
               /\ img(i).role = i.role
               /\ img(i) = [id |-> img(i).id, tenant |-> img(i).tenant, email |-> img(i).email,
                            role |-> img(i).role, accepted |-> img(i).accepted]
               /\ i.id # in[r].token => img(i) = i
    <2>1. i = [id |-> i.id, tenant |-> i.tenant, email |-> i.email, role |-> i.role,
               accepted |-> i.accepted]
      BY DEF AInv, InvitesOK
    <2>2. CASE i.id = in[r].token
      <3>1. img(i) = [id |-> i.id, tenant |-> i.tenant, email |-> i.email, role |-> i.role,
                      accepted |-> TRUE]
        BY <2>1, <2>2
      <3> QED
        BY <2>2, <3>1
    <2>3. CASE i.id # in[r].token
      BY <2>1, <2>3
    <2> QED
      BY <2>2, <2>3
  <1> HIDE DEF img
  <1>4. InvitesOK'
    <2>1. ASSUME NEW i \in invites', NEW j \in invites', i.id = j.id
          PROVE  i = j
      <3>1. PICK x \in invites : i = img(x)
        BY <1>1
      <3>2. PICK y \in invites : j = img(y)
        BY <1>1
      <3>3. x.id = y.id
        BY <1>3, <2>1, <3>1, <3>2
      <3> QED
        BY <3>1, <3>2, <3>3 DEF AInv, InvitesOK
    <2>2. \A i \in invites' :
            i = [id |-> i.id, tenant |-> i.tenant, email |-> i.email, role |-> i.role,
                 accepted |-> i.accepted]
      BY <1>1, <1>3
    <2>3. \A i \in invites' : i.id \in Request => pc'[i.id] \in {"inviteTenant", "ok", "error"}
      BY <1>1, <1>2, <1>3 DEF AInv, InvitesOK
    <2> QED
      BY <2>1, <2>2, <2>3 DEF InvitesOK
  <1>6. Kept
    <2>1. \A i \in invites : \E j \in invites' :
            j.id = i.id /\ j.tenant = i.tenant /\ j.email = i.email /\ j.role = i.role
      BY <1>1, <1>3
    <2> QED
      BY <1>1, <1>2, <2>1 DEF Kept
  <1>5. UsersOK'
    BY <1>1, <1>2, <1>6, SameUsers
  <1>7. RequestOK(r)'
    BY <1>2 DEF RequestOK
  <1>8. \A q \in Request : RequestOK(q)'
    BY <1>1, <1>2, <1>6, <1>7, OthersOK
  <1>9. Known'
    BY <1>1, <1>6, OldRowsOK
  <1>10. InviteNotWasted'
    <2>1. SUFFICES ASSUME NEW j \in invites', j.accepted
                   PROVE  \E u \in users' :
                            /\ toLowerCase[u.email] = j.email
                            /\ [user |-> u.id, tenant |-> j.tenant, role |-> j.role]
                                 \in memberships'
      BY DEF InviteNotWasted
    <2>2. PICK i \in invites : j = img(i)
      BY <1>1
    <2>3. CASE i.id # in[r].token
      BY <1>3, <1>6, <2>1, <2>2, <2>3, OldRowsOK
    <2>4. CASE i.id = in[r].token
      <3>1. Joining(r)
        BY <1>1 DEF AInv, RequestOK
      <3>2. PICK k \in invites, u \in users :
              /\ k.id = in[r].token /\ k.email = toLowerCase[u.email]
              /\ [user |-> u.id, tenant |-> k.tenant, role |-> k.role] \in memberships
        BY <1>1, <3>1 DEF Joining
      <3>3. k = i
        BY <2>4, <3>2 DEF AInv, InvitesOK
      <3> QED
        BY <1>1, <1>3, <2>2, <3>2, <3>3
    <2> QED
      BY <2>3, <2>4
  <1> QED
    BY <1>2, <1>4, <1>5, <1>8, <1>9, <1>10 DEF AInv

-----------------------------------------------------------------------------
(* The rest touches neither accounts nor invites. *)

Elsewhere(r) ==
    \/ InviteTenant(r) \/ BeginChange(r) \/ FindTenant(r) \/ SaveStatus(r)
    \/ UpdateStatus(r) \/ AuditChange(r)
    \/ CommitChange(r) \/ ViewTenant(r) \/ RecordView(r) \/ ReadTenant(r)
    \/ FindActive(r) \/ CreateOne(r) \/ CommitEndpoint(r)
    \/ SoftDelete(r) \/ CommitRemoval(r) \/ Fail(r)

LEMMA AInvElsewhere ==
    ASSUME AInv, NEW r \in Request, Elsewhere(r)
    PROVE  AInv'
  <1>1. /\ users' = users /\ invites' = invites /\ memberships' = memberships
        /\ signed' = signed /\ displaced' = displaced /\ in' = in /\ user' = user
    BY DEF Elsewhere, InviteTenant, BeginChange, FindTenant, SaveStatus, UpdateStatus, AuditChange,
           CommitChange, ViewTenant, RecordView, ReadTenant, FindActive, CreateOne,
           CommitEndpoint, SoftDelete, CommitRemoval, Fail, tables, history
  <1>2. CASE InviteTenant(r) \/ Fail(r)
    <2>1. \E p \in {"ok", "error"} : pc' = [pc EXCEPT ![r] = p]
      BY <1>2 DEF InviteTenant, Fail, Goto
    <2> QED
      BY <1>1, <2>1, FreeStep DEF Free
  <1>3. CASE \/ BeginChange(r) \/ FindTenant(r) \/ SaveStatus(r) \/ UpdateStatus(r)
             \/ AuditChange(r) \/ CommitChange(r)
    <2>1. \E p \in Free : pc' = [pc EXCEPT ![r] = p]
      BY <1>3 DEF BeginChange, FindTenant, SaveStatus, UpdateStatus, AuditChange, CommitChange,
                  Goto, Free
    <2>2. pc[r] \notin {"session", "inviteTenant", "ok", "error"}
      BY <1>3 DEF BeginChange, FindTenant, SaveStatus, UpdateStatus, AuditChange, CommitChange
    <2> QED
      BY <1>1, <2>1, <2>2, FreeStep
  <1>4. CASE \/ ViewTenant(r) \/ RecordView(r) \/ ReadTenant(r) \/ FindActive(r) \/ CreateOne(r)
             \/ CommitEndpoint(r) \/ SoftDelete(r) \/ CommitRemoval(r)
    <2>1. \E p \in Free : pc' = [pc EXCEPT ![r] = p]
      BY <1>4 DEF ViewTenant, RecordView, ReadTenant, FindActive, CreateOne,
                  CommitEndpoint, SoftDelete, CommitRemoval, Goto, Free
    <2>2. pc[r] \notin {"session", "inviteTenant", "ok", "error"}
      BY <1>4 DEF ViewTenant, RecordView, ReadTenant, FindActive, CreateOne,
                  CommitEndpoint, SoftDelete, CommitRemoval
    <2> QED
      BY <1>1, <2>1, <2>2, FreeStep
  <1> QED
    BY <1>2, <1>3, <1>4 DEF Elsewhere

LEMMA AInvNext == AInv /\ [Next]_vars => AInv'
  <1> SUFFICES ASSUME AInv, [Next]_vars PROVE AInv'
    OBVIOUS
  <1>1. CASE UNCHANGED vars
    <2>1. /\ users' = users /\ invites' = invites /\ memberships' = memberships
          /\ signed' = signed /\ displaced' = displaced
          /\ pc' = pc /\ in' = in /\ user' = user
      BY <1>1 DEF vars, tables, history
    <2>2. Kept
      BY <2>1 DEF Kept
    <2>3. \A q \in Request : RequestOK(q)'
      BY <2>1, <2>2, OthersOK
    <2>4. Known' /\ InviteNotWasted'
      BY <2>1, <2>2, OldRowsOK DEF InviteNotWasted
    <2>5. Shape' /\ UsersOK' /\ InvitesOK'
      BY <2>1 DEF AInv, Shape, UsersOK, Came, InvitesOK
    <2> QED
      BY <2>3, <2>4, <2>5 DEF AInv
  <1>2. ASSUME NEW r \in Request, Step(r) PROVE AInv'
    BY <1>2, AInvArrive, AInvSignIn, AInvCreateUser, AInvLinkProvider, AInvIssueSession,
       AInvOnboard, AInvInsertInvite, AInvFindInvite, AInvJoin, AInvMark, AInvElsewhere
       DEF Step, Elsewhere
  <1>3. CASE Done
    BY <1>1, <1>3 DEF Done
  <1> QED
    BY <1>1, <1>2, <1>3 DEF Next

\* Sign-ins with one address begin sessions of one account unless the address of
\* a Google account has changed, and sign-ins of one Google account do unless its
\* link was replaced, however register, login and Google sign-in interleave and
\* whichever statements fail.
THEOREM TenancySignInsAgree == Spec => []SignInsAgree
  <1>1. AInv => SignInsAgree
    <2> SUFFICES ASSUME AInv PROVE SignInsAgree
      OBVIOUS
    <2>1. \A s, e : Came(s, e) => e \in AddressesOf(s)
      BY DEF Came, AddressesOf
    <2>2. \A a \in signed : \E u \in users :
            /\ u.id = a.user /\ u.email \in {a.email} \cup AddressesOf(a.sub)
            /\ a.sub \in {NoOne} \cup displaced \/ u.sub = a.sub
      BY <2>1 DEF AInv, Known, Owned
    <2>3. ASSUME NEW a \in signed, NEW b \in signed
          PROVE  /\ a.email = b.email /\ Steady(a) /\ Steady(b) => a.user = b.user
                 /\ a.sub = b.sub /\ a.sub \notin {NoOne} \cup displaced => a.user = b.user
      <3>1. PICK u \in users :
              /\ u.id = a.user /\ u.email \in {a.email} \cup AddressesOf(a.sub)
              /\ a.sub \in {NoOne} \cup displaced \/ u.sub = a.sub
        BY <2>2
      <3>2. PICK v \in users :
              /\ v.id = b.user /\ v.email \in {b.email} \cup AddressesOf(b.sub)
              /\ b.sub \in {NoOne} \cup displaced \/ v.sub = b.sub
        BY <2>2
      <3>3. a.email = b.email /\ Steady(a) /\ Steady(b) => u.email = v.email
        BY <3>1, <3>2 DEF Steady
      <3>4. a.sub = b.sub /\ a.sub \notin {NoOne} \cup displaced => u.sub = v.sub /\ u.sub # NoOne
        BY <3>1, <3>2
      <3> QED
        BY <3>1, <3>2, <3>3, <3>4 DEF AInv, UsersOK
    <2> QED
      BY <2>2, <2>3 DEF SignInsAgree
  <1> QED
    BY <1>1, AInvInit, AInvNext, PTL DEF Spec

\* An invite that is consumed has made an account of its address a member, for
\* any number of concurrent acceptances and failures between the statements.
THEOREM TenancyInviteNotWasted == Spec => []InviteNotWasted
  <1>1. AInv => InviteNotWasted
    BY DEF AInv
  <1> QED
    BY <1>1, AInvInit, AInvNext, PTL DEF Spec
-----------------------------------------------------------------------------
(* Tenants, endpoints, the audit log and answers: OInv, on top of AInv. *)

\* A step of r, as the others see it.
Moves(r, p) ==
    /\ pc[r] \notin Answers
    /\ pc' = [pc EXCEPT ![r] = p]
    /\ \A q \in Request \ {r} : in'[q] = in[q]

\* Rows are only added, or changed in columns no other request relies on; an
\* endpoint dies only by a removal that is answered with success.
Grown ==
    /\ Ids(users) \subseteq Ids(users') /\ Ids(tenants) \subseteq Ids(tenants')
    /\ memberships \subseteq memberships'
    /\ \A i \in invites : \E j \in invites' : j.id = i.id /\ j.tenant = i.tenant
    /\ \A k \in DOMAIN audit : k \in DOMAIN audit' /\ audit'[k] = audit[k]
    /\ \A e \in endpoints : \E f \in endpoints' :
         f.id = e.id /\ f.tenant = e.tenant /\ (e.live => f.live \/ Removed(e.id)')

LEMMA MovesTo ==
    ASSUME Shape, NEW r \in Request, NEW p, Moves(r, p)
    PROVE  pc'[r] = p /\ \A q \in Request \ {r} : pc'[q] = pc[q]
  BY DEF Shape, Moves

\* A removal stays one, since an answer is the end of a request.
LEMMA RemovedStays ==
    ASSUME Shape, NEW r \in Request, NEW p, Moves(r, p), NEW id, Removed(id)
    PROVE  Removed(id)'
  <1>1. PICK q \in Request : pc[q] = "ok" /\ in[q].kind = "remove" /\ in[q].endpoint = id
    BY DEF Removed
  <1>2. q # r
    BY <1>1 DEF Moves, Answers
  <1>3. pc'[q] = "ok" /\ in'[q] = in[q]
    BY <1>1, <1>2, MovesTo DEF Moves
  <1> QED
    BY <1>1, <1>3 DEF Removed

\* What a request relies on and has left outlives the steps of the others.
LEMMA OthersKept ==
    ASSUME Shape, OInv, NEW r \in Request, NEW p, Moves(r, p), Grown, NEW q \in Request, q # r
    PROVE  Fits(q)' /\ Refers(q)' /\ Leaves(q)'
  <1>1. pc'[q] = pc[q] /\ in'[q] = in[q]
    BY MovesTo DEF Moves
  <1>2. Fits(q) /\ Refers(q) /\ Leaves(q)
    BY DEF OInv
  <1>3. Fits(q)'
    BY <1>1, <1>2 DEF Fits
  <1>4. Refers(q)'
    BY <1>1, <1>2 DEF Refers, Target, Grown
  <1>5. (pc[q] \in {"session", "ok"} /\ in[q].kind = "onboard") =>
           [user |-> in[q].user, tenant |-> q, role |-> Owner] \in memberships'
    BY <1>2 DEF Leaves, Grown
  <1>6. ASSUME pc[q] = "ok", in[q].kind = "accept"
        PROVE  \E i \in invites', m \in memberships' :
                 i.id = in[q].token /\ m.user = in[q].user /\ m.tenant = i.tenant
    <2>1. PICK i \in invites, m \in memberships :
            i.id = in[q].token /\ m.user = in[q].user /\ m.tenant = i.tenant
      BY <1>2, <1>6 DEF Leaves
    <2>2. PICK j \in invites' : j.id = i.id /\ j.tenant = i.tenant
      BY DEF Grown
    <2> QED
      BY <2>1, <2>2 DEF Grown
  <1>7. ASSUME pc[q] \in {"readTenant", "ok"}, in[q].kind = "view"
        PROVE  \E k \in DOMAIN audit' : audit'[k] = Entry(q)'
    <2>1. PICK k \in DOMAIN audit : audit[k] = Entry(q)
      BY <1>2, <1>7 DEF Leaves
    <2>2. Entry(q)' = Entry(q)
      BY <1>1 DEF Entry, Target
    <2> QED
      BY <2>1, <2>2 DEF Grown
  <1>8. ASSUME pc[q] = "ok", in[q].kind = "endpoint"
        PROVE  \E e \in endpoints' :
                 e.id = q /\ e.tenant = in[q].tenant /\ (e.live \/ Removed(q)')
    <2>1. PICK e \in endpoints :
            e.id = q /\ e.tenant = in[q].tenant /\ (e.live \/ Removed(q))
      BY <1>2, <1>8 DEF Leaves, Target
    <2>2. PICK f \in endpoints' :
            f.id = e.id /\ f.tenant = e.tenant /\ (e.live => f.live \/ Removed(e.id)')
      BY DEF Grown
    <2>3. Removed(q) => Removed(q)'
      BY RemovedStays
    <2>4. e.live => f.live \/ Removed(q)'
      BY <2>1, <2>2
    <2> QED
      BY <2>1, <2>2, <2>3, <2>4
  <1>9. Leaves(q)'
    BY <1>1, <1>5, <1>6, <1>7, <1>8 DEF Leaves, Target
  <1> QED
    BY <1>3, <1>4, <1>9

LEMMA PrimaryKeys ==
    ASSUME NEW a, NEW b, NEW c, NEW d
    PROVE  (\A table \in {a, b, c, d} : \A x, y \in table : x.id = y.id => x = y) <=>
             /\ \A x, y \in a : x.id = y.id => x = y
             /\ \A x, y \in b : x.id = y.id => x = y
             /\ \A x, y \in c : x.id = y.id => x = y
             /\ \A x, y \in d : x.id = y.id => x = y
  OBVIOUS

\* Tables, audit log and history are as before, the request is elsewhere.
Quiet ==
    /\ users' = users /\ tenants' = tenants /\ memberships' = memberships
    /\ invites' = invites /\ endpoints' = endpoints /\ audit' = audit

LEMMA QuietGrown ==
    ASSUME Quiet
    PROVE  Grown
  BY DEF Quiet, Grown

LEMMA TypeQuiet ==
    ASSUME TypeOK, Quiet, \A r \in Request : user'[r] \in Ids(users) \cup {NoOne},
           faults' \in 0..MaxFaults
    PROVE  TypeOK'
  BY Zenon DEF TypeOK, Quiet

LEMMA TenantsQuiet ==
    ASSUME Shape, TenantsOK, NEW r \in Request, NEW p, Moves(r, p), tenants' = tenants,
           memberships \subseteq memberships', pc[r] = "session" => p \in {"ok", "error"},
           p \in {"insertOwner", "commitTenant"} =>
             /\ \A t \in tenants : t.slug # in'[r].slug
             /\ \A q \in Request \ {r} : Open(q) => in[q].slug # in'[r].slug
    PROVE  TenantsOK'
  <1>1. pc'[r] = p /\ \A q \in Request \ {r} : pc'[q] = pc[q] /\ in'[q] = in[q]
    BY MovesTo DEF Moves
  <1>2. \A q \in Request \ {r} : Open(q)' => Open(q)
    BY <1>1 DEF Open
  <1>3. \A t \in tenants : t.id \in Request => pc'[t.id] \in {"session", "ok", "error"}
    BY <1>1 DEF TenantsOK, Moves, Answers
  <1>4. \A q \in Request : Open(q)' => \A t \in tenants : t.slug # in'[q].slug
    BY <1>1, <1>2 DEF TenantsOK, Open
  <1>5. \A q, s \in Request : Open(q)' /\ Open(s)' /\ in'[q].slug = in'[s].slug => q = s
    BY <1>1, <1>2 DEF TenantsOK, Open
  <1> QED
    BY <1>3, <1>4, <1>5 DEF TenantsOK

LEMMA EndpointsQuiet ==
    ASSUME Shape, EndpointsOK, NEW r \in Request, NEW p, Moves(r, p), endpoints' = endpoints,
           p = "commitEndpoint" =>
             /\ \A e \in endpoints : ~(e.live /\ e.tenant = in'[r].tenant)
             /\ \A q \in Request \ {r} : pc[q] = "commitEndpoint" => in[q].tenant # in'[r].tenant
    PROVE  EndpointsOK'
  <1>1. pc'[r] = p /\ \A q \in Request \ {r} : pc'[q] = pc[q] /\ in'[q] = in[q]
    BY MovesTo DEF Moves
  <1>2. \A e \in endpoints : e.id \in Request /\ pc'[e.id] = "ok"
    BY <1>1 DEF EndpointsOK, Moves, Answers
  <1>3. \A q \in Request : pc'[q] = "commitEndpoint" =>
          \A e \in endpoints : ~(e.live /\ e.tenant = in'[q].tenant)
    BY <1>1 DEF EndpointsOK, Target
  <1>4. \A q, s \in Request :
          pc'[q] = "commitEndpoint" /\ pc'[s] = "commitEndpoint" /\ in'[q].tenant = in'[s].tenant
            => q = s
    BY <1>1 DEF EndpointsOK, Target
  <1> QED
    BY <1>2, <1>3, <1>4 DEF EndpointsOK, Target

\* As before, or with more tenants marked as overlapped.
LEMMA AuditQuiet ==
    ASSUME Shape, AuditOK, NEW r \in Request, NEW p, Moves(r, p), tenants' = tenants,
           audit' = audit, overlapped \subseteq overlapped',
           p \in Begun => \A q \in Request \ {r} :
             pc[q] \in Begun /\ in[q].tenant = in'[r].tenant => in'[r].tenant \in overlapped',
           p \in {"auditSame", "commitSame"} /\ in'[r].tenant \notin overlapped' =>
             \A t \in tenants : t.id = in'[r].tenant => (t.suspended <=> in'[r].kind = "suspend")
    PROVE  AuditOK'
  <1>1. pc'[r] = p /\ \A q \in Request \ {r} : pc'[q] = pc[q] /\ in'[q] = in[q]
    BY MovesTo DEF Moves
  <1>2. \A k \in DOMAIN audit : audit[k].tenant \in Ids(tenants)
    BY DEF AuditOK
  <1>3. \A q, s \in Request :
          q # s /\ pc'[q] \in Begun /\ pc'[s] \in Begun /\ in'[q].tenant = in'[s].tenant
            => in'[s].tenant \in overlapped'
    BY <1>1 DEF AuditOK, Target
  <1>4. ASSUME NEW q \in Request, pc'[q] \in {"auditSame", "commitSame"},
               in'[q].tenant \notin overlapped', NEW t \in tenants, t.id = in'[q].tenant
        PROVE  t.suspended <=> in'[q].kind = "suspend"
    BY <1>1, <1>4 DEF AuditOK, Target
  <1>5. AuditTells'
    BY DEF AuditOK, AuditTells, LastChange
  <1> QED
    BY <1>2, <1>3, <1>4, <1>5 DEF AuditOK, Target

-----------------------------------------------------------------------------
(* Steps that write no row. *)

LEMMA QuietStep ==
    ASSUME Shape, OInv, NEW r \in Request, NEW p, Moves(r, p), Quiet,
           overlapped \subseteq overlapped',
           \A q \in Request : user'[q] \in Ids(users) \cup {NoOne}, faults' \in 0..MaxFaults,
           pc[r] = "session" => p \in {"ok", "error"},
           p \in {"insertOwner", "commitTenant"} =>
             /\ \A t \in tenants : t.slug # in'[r].slug
             /\ \A q \in Request \ {r} : Open(q) => in[q].slug # in'[r].slug,
           p = "commitEndpoint" =>
             /\ \A e \in endpoints : ~(e.live /\ e.tenant = in'[r].tenant)
             /\ \A q \in Request \ {r} : pc[q] = "commitEndpoint" => in[q].tenant # in'[r].tenant,
           p \in Begun => \A q \in Request \ {r} :
             pc[q] \in Begun /\ in[q].tenant = in'[r].tenant => in'[r].tenant \in overlapped',
           p \in {"auditSame", "commitSame"} /\ in'[r].tenant \notin overlapped' =>
             \A t \in tenants : t.id = in'[r].tenant => (t.suspended <=> in'[r].kind = "suspend"),
           Fits(r)', Refers(r)', Leaves(r)'
    PROVE  OInv'
  <1>1. TypeOK'
    BY TypeQuiet DEF OInv
  <1>2. TenantsOK'
    BY TenantsQuiet DEF OInv, Quiet
  <1>3. EndpointsOK'
    BY EndpointsQuiet DEF OInv, Quiet
  <1>4. AuditOK'
    BY AuditQuiet DEF OInv, Quiet
  <1>5. Grown
    BY QuietGrown
  <1>6. \A q \in Request \ {r} : Fits(q)' /\ Refers(q)' /\ Leaves(q)'
    BY <1>5, OthersKept
  <1> QED
    BY <1>1, <1>2, <1>3, <1>4, <1>6 DEF OInv

\* Labels at which no row is held back and no status relied on.
Plain == {"refused", "error", "ok", "byEmail", "createUser", "login", "byAccount", "googleEmail",
          "link", "session", "insertTenant", "insertInvite", "inviteTenant", "findInvite",
          "join", "mark", "beginChange", "viewTenant", "auditView", "readTenant", "findActive",
          "createOne", "softDelete", "commitRemoval"}

LEMMA PlainQuiet ==
    ASSUME Shape, OInv, NEW r \in Request, NEW p \in Plain, Moves(r, p), Quiet,
           overlapped' = overlapped, faults' \in 0..MaxFaults,
           \A q \in Request : user'[q] \in Ids(users) \cup {NoOne},
           pc[r] = "session" => p \in {"ok", "error"},
           Fits(r)', Refers(r)', Leaves(r)'
    PROVE  OInv'
  <1>1. /\ p \notin {"insertOwner", "commitTenant"} /\ p # "commitEndpoint"
        /\ p \notin Begun /\ p \notin {"auditSame", "commitSame"}
    BY DEF Plain, Begun, Changing
  <1> QED
    BY <1>1, QuietStep

\* An answer of failure leaves nothing to show.
LEMMA Refusal ==
    ASSUME NEW r, pc'[r] \in {"refused", "error"}
    PROVE  Fits(r)' /\ Refers(r)' /\ Leaves(r)'
  <1>1. Fits(r)'
    BY DEF Fits, SignInLabels, OnboardLabels, EndpointLabels, Begun, Changing
  <1>2. Refers(r)'
    BY DEF Refers, SignInLabels, OnboardLabels, EndpointLabels, Changing
  <1>3. Leaves(r)'
    BY DEF Leaves
  <1> QED
    BY <1>1, <1>2, <1>3

LEMMA OInvArrive ==
    ASSUME AInv, OInv, NEW r \in Request, Arrive(r)
    PROVE  OInv'
  <1>1. PICK i \in Inputs :
          /\ in' = [in EXCEPT ![r] = i]
          /\ pc' = [pc EXCEPT ![r] = IF TurnedAway(i) THEN "refused" ELSE FirstStep(i.kind)]
    BY DEF Arrive, Goto
  <1> DEFINE p == IF TurnedAway(i) THEN "refused" ELSE FirstStep(i.kind)
  <1>2. Shape
    BY DEF AInv
  <1>3. /\ Quiet /\ overlapped' = overlapped /\ user' = user /\ faults' = faults
        /\ pc[r] = "idle"
    BY DEF Arrive, Quiet, tables, history
  <1>4. in'[r] = i /\ \A q \in Request \ {r} : in'[q] = in[q]
    BY <1>1, <1>2 DEF Shape
  <1>5. /\ i.kind \in {"register", "login", "google"} => i.email \in Email
        /\ i.kind = "onboard" => i.slug \in Slug /\ i.user \in Ids(users)
        /\ i.kind = "invite" => i.email \in Email /\ i.role \in Role /\ i.tenant \in Ids(tenants)
        /\ i.kind = "endpoint" => i.tenant \in Ids(tenants)
        /\ i.kind \in {"register", "login", "google", "onboard", "invite", "accept", "suspend",
                       "reactivate", "view", "endpoint", "remove"}
    BY EmailAssumption DEF Inputs, Change
  <1>6. \/ p = "refused"
        \/ i.kind = "register" /\ p = "byEmail"
        \/ i.kind = "login" /\ p = "login"
        \/ i.kind = "google" /\ p = "byAccount"
        \/ i.kind = "onboard" /\ p = "insertTenant"
        \/ i.kind = "invite" /\ p = "insertInvite"
        \/ i.kind = "accept" /\ p = "findInvite"
        \/ i.kind \in Change /\ p = "beginChange"
        \/ i.kind = "view" /\ p = "viewTenant"
        \/ i.kind = "endpoint" /\ p = "findActive"
        \/ i.kind = "remove" /\ p = "softDelete"
    BY <1>5 DEF FirstStep, Change
  <1>7. pc' = [pc EXCEPT ![r] = p]
    BY <1>1
  <1> HIDE DEF p
  <1>8. Moves(r, p) /\ pc'[r] = p
    BY <1>2, <1>3, <1>4, <1>7 DEF Moves, Answers, Shape
  <1>9. p \in Plain /\ p # "session"
    BY <1>6 DEF Plain
  <1>10. Fits(r)'
    BY <1>4, <1>6, <1>8 DEF Fits, SignIn, SignInLabels, OnboardLabels, EndpointLabels, Begun, Changing
  <1>11. Refers(r)'
    BY <1>3, <1>4, <1>5, <1>6, <1>8
       DEF Refers, SignInLabels, OnboardLabels, EndpointLabels, Changing, Target, Quiet
  <1>12. Leaves(r)'
    BY <1>6, <1>8 DEF Leaves
  <1>13. faults' \in 0..MaxFaults /\ \A q \in Request : user'[q] \in Ids(users) \cup {NoOne}
    BY <1>3 DEF OInv, TypeOK
  <1> QED
    BY <1>2, <1>3, <1>8, <1>9, <1>10, <1>11, <1>12, <1>13, PlainQuiet

LEMMA OInvSignIn ==
    ASSUME AInv, OInv, NEW r \in Request,
           FindByEmail(r) \/ Login(r) \/ FindByProviderAccount(r) \/ FindGoogleEmail(r)
    PROVE  OInv'
  <1>1. Shape
    BY DEF AInv
  <1>2. Quiet /\ in' = in /\ faults' = faults /\ overlapped' = overlapped
    BY DEF FindByEmail, Login, FindByProviderAccount, FindGoogleEmail, Quiet, tables, history
  <1>3. pc[r] \in SignInLabels
    BY DEF FindByEmail, Login, FindByProviderAccount, FindGoogleEmail, SignInLabels
  <1>4. PICK p \in {"refused", "createUser", "googleEmail", "link", "session"} :
          pc' = [pc EXCEPT ![r] = p]
    BY DEF FindByEmail, Login, FindByProviderAccount, FindGoogleEmail, Goto
  <1>5. \A q \in Request : user'[q] \in Ids(users) \cup {NoOne}
    <2>1. user' = user \/ \E u \in users : user' = [user EXCEPT ![r] = u.id]
      BY DEF FindByEmail, Login, FindByProviderAccount, FindGoogleEmail, Resolve, WithEmail,
             WithAccount
    <2>2. \A u \in users : u.id \in Ids(users)
      BY DEF Ids
    <2> QED
      BY <1>1, <2>1, <2>2 DEF OInv, TypeOK, Shape
  <1>6. Moves(r, p) /\ pc'[r] = p
    BY <1>1, <1>2, <1>3, <1>4 DEF Moves, Answers, Shape, SignInLabels
  <1>7. in[r].kind \in SignIn /\ in[r].email \in Email
    BY <1>3 DEF OInv, Fits, Refers
  <1>8. Fits(r)'
    BY <1>2, <1>6, <1>7 DEF Fits, SignInLabels, OnboardLabels, EndpointLabels, Begun, Changing
  <1>9. Refers(r)'
    BY <1>2, <1>6, <1>7 DEF Refers, SignInLabels, OnboardLabels, EndpointLabels, Changing
  <1>10. Leaves(r)'
    BY <1>2, <1>6, <1>7 DEF Leaves, SignIn
  <1>11. faults' \in 0..MaxFaults
    BY <1>2 DEF OInv, TypeOK
  <1>12. p \in Plain
    BY DEF Plain
  <1>13. pc[r] # "session"
    BY <1>3 DEF SignInLabels
  <1> QED
    BY <1>1, <1>2, <1>5, <1>6, <1>8, <1>9, <1>10, <1>11, <1>12, <1>13, PlainQuiet

LEMMA OInvSession ==
    ASSUME AInv, OInv, NEW r \in Request, IssueSession(r)
    PROVE  OInv'
  <1>1. Shape
    BY DEF AInv
  <1>2. /\ Quiet /\ in' = in /\ faults' = faults /\ overlapped' = overlapped /\ user' = user
        /\ pc[r] = "session" /\ pc' = [pc EXCEPT ![r] = "ok"]
    BY DEF IssueSession, Goto, Quiet, tables
  <1>3. Moves(r, "ok") /\ pc'[r] = "ok"
    BY <1>1, <1>2 DEF Moves, Answers, Shape
  <1>4. in[r].kind \in SignIn \cup {"onboard"}
    BY <1>2 DEF OInv, Fits
  <1>5. in[r].kind = "onboard" =>
          [user |-> in[r].user, tenant |-> r, role |-> Owner] \in memberships
    BY <1>2 DEF OInv, Leaves
  <1>6. Fits(r)'
    BY <1>3 DEF Fits, SignInLabels, OnboardLabels, EndpointLabels, Begun, Changing
  <1>7. Refers(r)'
    BY <1>3 DEF Refers, SignInLabels, OnboardLabels, EndpointLabels, Changing
  <1>8. Leaves(r)'
    BY <1>2, <1>3, <1>4, <1>5 DEF Leaves, SignIn, Quiet
  <1>9. faults' \in 0..MaxFaults /\ \A q \in Request : user'[q] \in Ids(users) \cup {NoOne}
    BY <1>2 DEF OInv, TypeOK
  <1>10. "ok" \in Plain /\ "ok" \in {"ok", "error"}
    BY DEF Plain
  <1> QED
    BY <1>1, <1>2, <1>3, <1>6, <1>7, <1>8, <1>9, <1>10, PlainQuiet

\* A step that changes nothing but the position of its request.
Only(r, p) ==
    /\ Quiet /\ in' = in /\ user' = user /\ faults' = faults
    /\ pc[r] \notin Answers /\ pc' = [pc EXCEPT ![r] = p]

LEMMA OnlyMoves ==
    ASSUME Shape, OInv, NEW r \in Request, NEW p, Only(r, p)
    PROVE  /\ Moves(r, p) /\ Quiet /\ pc'[r] = p /\ in'[r] = in[r]
           /\ faults' \in 0..MaxFaults /\ \A q \in Request : user'[q] \in Ids(users) \cup {NoOne}
  BY DEF Only, Moves, Shape, OInv, TypeOK

LEMMA OInvRefused ==
    ASSUME Shape, OInv, NEW r \in Request, Only(r, "refused"), overlapped' = overlapped,
           pc[r] # "session"
    PROVE  OInv'
  <1>1. "refused" \in Plain
    BY DEF Plain
  <1>2. Fits(r)' /\ Refers(r)' /\ Leaves(r)'
    BY OnlyMoves, Refusal
  <1> QED
    BY <1>1, <1>2, OnlyMoves, PlainQuiet

LEMMA OInvFail ==
    ASSUME AInv, OInv, NEW r \in Request, Fail(r)
    PROVE  OInv'
  <1>1. Shape
    BY DEF AInv
  <1>2. /\ Quiet /\ in' = in /\ user' = user /\ overlapped' = overlapped
        /\ pc[r] \notin Answers /\ pc' = [pc EXCEPT ![r] = "error"]
    BY DEF Fail, Goto, Quiet, tables, history
  <1>3. Moves(r, "error") /\ pc'[r] = "error"
    BY <1>1, <1>2 DEF Moves, Shape
  <1>4. Fits(r)' /\ Refers(r)' /\ Leaves(r)'
    BY <1>3, Refusal
  <1>5. faults' \in 0..MaxFaults
    BY BoundAssumption DEF OInv, TypeOK, Fail
  <1>6. \A q \in Request : user'[q] \in Ids(users) \cup {NoOne}
    BY <1>2 DEF OInv, TypeOK
  <1>7. "error" \in Plain /\ "error" \in {"ok", "error"}
    BY DEF Plain
  <1> QED
    BY <1>1, <1>2, <1>3, <1>4, <1>5, <1>6, <1>7, PlainQuiet

\* The unique index on the slug, against committed tenants and open onboardings.
LEMMA OInvInsertTenant ==
    ASSUME AInv, OInv, NEW r \in Request, InsertTenant(r)
    PROVE  OInv'
  <1>1. Shape
    BY DEF AInv
  <1>2. /\ pc[r] = "insertTenant" /\ overlapped' = overlapped
        /\ Only(r, "refused") \/ (Only(r, "insertOwner") /\ \A t \in tenants : t.slug # in[r].slug)
        /\ \A q \in Request \ {r} : Open(q) => in[q].slug # in[r].slug
    BY DEF InsertTenant, Goto, Others, Only, Open, Quiet, tables, history, Answers
  <1>3. CASE Only(r, "refused")
    BY <1>1, <1>2, <1>3, OInvRefused
  <1>4. CASE Only(r, "insertOwner") /\ \A t \in tenants : t.slug # in[r].slug
    <2>1. pc'[r] = "insertOwner" /\ in'[r] = in[r] /\ users' = users
      BY <1>1, <1>4, OnlyMoves DEF Only, Quiet
    <2>2. in[r].kind = "onboard" /\ in[r].slug \in Slug /\ in[r].user \in Ids(users)
      BY <1>2 DEF OInv, Fits, Refers, OnboardLabels
    <2>3. Fits(r)'
      BY <2>1, <2>2 DEF Fits, SignInLabels, OnboardLabels, EndpointLabels, Begun, Changing
    <2>4. Refers(r)'
      BY <2>1, <2>2 DEF Refers, SignInLabels, OnboardLabels, EndpointLabels, Changing
    <2>5. Leaves(r)'
      BY <2>1 DEF Leaves
    <2>6. "insertOwner" \notin Begun
      BY DEF Begun, Changing
    <2> QED
      BY <1>1, <1>2, <1>4, <2>1, <2>3, <2>4, <2>5, <2>6, OnlyMoves, QuietStep
  <1> QED
    BY <1>2, <1>3, <1>4

LEMMA OInvInsertOwner ==
    ASSUME AInv, OInv, NEW r \in Request, InsertOwner(r)
    PROVE  OInv'
  <1>1. Shape
    BY DEF AInv
  <1>2. pc[r] = "insertOwner" /\ overlapped' = overlapped /\ Only(r, "commitTenant")
    BY DEF InsertOwner, Goto, Only, Quiet, tables, history, Answers
  <1>3. Open(r)
    BY <1>2 DEF Open
  <1>4. /\ \A t \in tenants : t.slug # in[r].slug
        /\ \A q \in Request \ {r} : Open(q) => in[q].slug # in[r].slug
    BY <1>3 DEF OInv, TenantsOK
  <1>5. pc'[r] = "commitTenant" /\ in'[r] = in[r] /\ users' = users
    BY <1>1, <1>2, OnlyMoves DEF Only, Quiet
  <1>6. in[r].kind = "onboard" /\ in[r].slug \in Slug /\ in[r].user \in Ids(users)
    BY <1>2 DEF OInv, Fits, Refers, OnboardLabels
  <1>7. Fits(r)'
    BY <1>5, <1>6 DEF Fits, SignInLabels, OnboardLabels, EndpointLabels, Begun, Changing
  <1>8. Refers(r)'
    BY <1>5, <1>6 DEF Refers, SignInLabels, OnboardLabels, EndpointLabels, Changing
  <1>9. Leaves(r)'
    BY <1>5 DEF Leaves
  <1>10. "commitTenant" \notin Begun
    BY DEF Begun, Changing
  <1> QED
    BY <1>1, <1>2, <1>4, <1>5, <1>7, <1>8, <1>9, <1>10, OnlyMoves, QuietStep

\* The reads of an invite and of a tenant's details.
LEMMA OInvReads ==
    ASSUME AInv, OInv, NEW r \in Request,
           InviteTenant(r) \/ FindInvite(r) \/ ViewTenant(r) \/ ReadTenant(r)
    PROVE  OInv'
  <1>1. Shape
    BY DEF AInv
  <1>2. overlapped' = overlapped /\ pc[r] # "session"
    BY DEF InviteTenant, FindInvite, ViewTenant, ReadTenant, history
  <1>3. \/ Only(r, "refused")
        \/ pc[r] = "inviteTenant" /\ Only(r, "ok")
        \/ pc[r] = "findInvite" /\ Only(r, "join")
        \/ pc[r] = "viewTenant" /\ Only(r, "auditView") /\ Target(r) \in Ids(tenants)
        \/ pc[r] = "readTenant" /\ Only(r, "ok")
    BY DEF InviteTenant, FindInvite, ViewTenant, ReadTenant, Goto, Only, Quiet, tables, Answers
  <1>4. CASE Only(r, "refused")
    BY <1>1, <1>2, <1>4, OInvRefused
  <1>5. ASSUME NEW p \in {"ok", "join", "auditView"}, Only(r, p),
               p = "ok" => pc[r] \in {"inviteTenant", "readTenant"},
               p = "join" => pc[r] = "findInvite",
               p = "auditView" => pc[r] = "viewTenant" /\ Target(r) \in Ids(tenants)
        PROVE  OInv'
    <2>1. pc'[r] = p /\ in'[r] = in[r] /\ tenants' = tenants /\ audit' = audit
      BY <1>1, <1>5, OnlyMoves DEF Only, Quiet
    <2>2. /\ p = "join" => in[r].kind = "accept"
          /\ p = "auditView" => in[r].kind = "view"
          /\ p = "ok" => in[r].kind \in {"invite", "view"}
      BY <1>5 DEF OInv, Fits
    <2>3. p = "ok" /\ in[r].kind = "view" => \E k \in DOMAIN audit : audit[k] = Entry(r)
      BY <1>5 DEF OInv, Fits, Leaves
    <2>4. Entry(r)' = Entry(r)
      BY <2>1 DEF Entry, Target
    <2>5. Fits(r)'
      BY <2>1, <2>2 DEF Fits, SignInLabels, OnboardLabels, EndpointLabels, Begun, Changing
    <2>6. Refers(r)'
      BY <1>5, <2>1 DEF Refers, SignInLabels, OnboardLabels, EndpointLabels, Changing, Target
    <2>7. Leaves(r)'
      BY <2>1, <2>2, <2>3, <2>4 DEF Leaves
    <2>8. p \in Plain
      BY DEF Plain
    <2> QED
      BY <1>1, <1>2, <1>5, <2>5, <2>6, <2>7, <2>8, OnlyMoves, PlainQuiet
  <1> QED
    BY <1>3, <1>4, <1>5

-----------------------------------------------------------------------------
(* The change of a status up to its commit. *)

LEMMA OInvBeginChange ==
    ASSUME AInv, OInv, NEW r \in Request, BeginChange(r)
    PROVE  OInv'
  <1>1. Shape
    BY DEF AInv
  <1>2. /\ pc[r] = "beginChange" /\ overlapped \subseteq overlapped' /\ Only(r, "findTenant")
        /\ \A q \in Request \ {r} :
             pc[q] \in Begun /\ Target(q) = Target(r) => Target(r) \in overlapped'
    BY DEF BeginChange, Goto, Others, Only, Quiet, tables, Answers
  <1>3. pc'[r] = "findTenant" /\ in'[r] = in[r]
    BY <1>1, <1>2, OnlyMoves DEF Only
  <1>4. in[r].kind \in Change
    BY <1>2 DEF OInv, Fits
  <1>5. Fits(r)'
    BY <1>3, <1>4 DEF Fits, SignInLabels, OnboardLabels, EndpointLabels, Begun, Changing
  <1>6. Refers(r)'
    BY <1>3 DEF Refers, SignInLabels, OnboardLabels, EndpointLabels, Changing
  <1>7. Leaves(r)'
    BY <1>3 DEF Leaves
  <1>8. \A q \in Request \ {r} :
          pc[q] \in Begun /\ in[q].tenant = in'[r].tenant => in'[r].tenant \in overlapped'
    BY <1>2, <1>3 DEF Target
  <1> QED
    BY <1>1, <1>2, <1>5, <1>6, <1>7, <1>8, OnlyMoves, QuietStep

LEMMA OInvFindTenant ==
    ASSUME AInv, OInv, NEW r \in Request, FindTenant(r)
    PROVE  OInv'
  <1>1. Shape
    BY DEF AInv
  <1>2. /\ pc[r] = "findTenant" /\ overlapped' = overlapped
        /\ Only(r, "refused") \/ (Only(r, "saveStatus") /\ Target(r) \in Ids(tenants))
    BY DEF FindTenant, Goto, Only, Quiet, tables, history, Answers
  <1>3. CASE Only(r, "refused")
    BY <1>1, <1>2, <1>3, OInvRefused
  <1>4. CASE Only(r, "saveStatus") /\ Target(r) \in Ids(tenants)
    <2>1. pc'[r] = "saveStatus" /\ in'[r] = in[r] /\ tenants' = tenants
      BY <1>1, <1>4, OnlyMoves DEF Only, Quiet
    <2>2. pc[r] \in Begun
      BY <1>2 DEF Begun
    <2>3. in[r].kind \in Change
      BY <2>2 DEF OInv, Fits
    <2>4. Fits(r)'
      BY <2>1, <2>3 DEF Fits, SignInLabels, OnboardLabels, EndpointLabels, Begun, Changing
    <2>5. Refers(r)'
      BY <1>4, <2>1 DEF Refers, SignInLabels, OnboardLabels, EndpointLabels, Changing, Target
    <2>6. Leaves(r)'
      BY <2>1 DEF Leaves
    <2>7. \A q \in Request \ {r} :
            pc[q] \in Begun /\ in[q].tenant = in'[r].tenant => in'[r].tenant \in overlapped'
      BY <1>2, <2>1, <2>2 DEF OInv, AuditOK, Target
    <2> QED
      BY <1>1, <1>2, <1>4, <2>4, <2>5, <2>6, <2>7, OnlyMoves, QuietStep
  <1> QED
    BY <1>2, <1>3, <1>4

LEMMA OInvStatus ==
    ASSUME AInv, OInv, NEW r \in Request, SaveStatus(r) \/ UpdateStatus(r) \/ AuditChange(r)
    PROVE  OInv'
  <1>1. Shape
    BY DEF AInv
  <1>2. /\ overlapped' = overlapped /\ pc[r] \in Changing /\ pc[r] \in Begun
        /\ pc[r] # "session"
    BY DEF SaveStatus, UpdateStatus, AuditChange, history, Begun, Changing
  <1>3. PICK p \in Changing :
          /\ Only(r, p)
          /\ p = "auditSame" => pc[r] = "saveStatus" /\
               (Row(tenants, Target(r)).suspended = (in[r].kind = "suspend"))
          /\ p = "commitSame" => pc[r] = "auditSame"
    BY DEF SaveStatus, UpdateStatus, AuditChange, Goto, Only, Quiet, tables, Answers, Changing
  <1>4. pc'[r] = p /\ in'[r] = in[r] /\ tenants' = tenants
    BY <1>1, <1>3, OnlyMoves DEF Only, Quiet
  <1>5. in[r].kind \in Change /\ Target(r) \in Ids(tenants)
    BY <1>2 DEF OInv, Fits, Refers
  <1>6. Fits(r)'
    BY <1>4, <1>5 DEF Fits, SignInLabels, OnboardLabels, EndpointLabels, Begun, Changing
  <1>7. Refers(r)'
    BY <1>4, <1>5 DEF Refers, SignInLabels, OnboardLabels, EndpointLabels, Changing, Target
  <1>8. Leaves(r)'
    BY <1>4 DEF Leaves, Changing
  <1>9. \A q \in Request \ {r} :
          pc[q] \in Begun /\ in[q].tenant = in'[r].tenant => in'[r].tenant \in overlapped'
    BY <1>2, <1>4 DEF OInv, AuditOK, Target
  <1>10. ASSUME p \in {"auditSame", "commitSame"}, in'[r].tenant \notin overlapped',
                NEW t \in tenants, t.id = in'[r].tenant
         PROVE  t.suspended <=> in'[r].kind = "suspend"
    <2>1. CASE p = "commitSame"
      BY <1>2, <1>3, <1>4, <1>10, <2>1 DEF OInv, AuditOK, Target
    <2>2. CASE p = "auditSame"
      <3>1. \A s \in tenants : s.id = t.id => s = t
        BY PrimaryKeys DEF OInv, TypeOK
      <3>2. Row(tenants, Target(r)) = t
        BY <1>4, <1>10, <3>1 DEF Row, Target
      <3>3. t.suspended = (in[r].kind = "suspend")
        BY <1>3, <2>2, <3>2, Zenon
      <3> QED
        BY <1>4, <3>3
    <2> QED
      BY <1>10, <2>1, <2>2
  <1>11. p \notin {"insertOwner", "commitTenant"} /\ p # "commitEndpoint"
    BY DEF Changing
  <1> QED
    BY <1>1, <1>2, <1>3, <1>6, <1>7, <1>8, <1>9, <1>10, <1>11, OnlyMoves, QuietStep

\* The endpoint's requests up to their commit; the partial unique index.
LEMMA OInvEndpointReads ==
    ASSUME AInv, OInv, NEW r \in Request, FindActive(r) \/ CreateOne(r) \/ SoftDelete(r)
    PROVE  OInv'
  <1>1. Shape
    BY DEF AInv
  <1>2. overlapped' = overlapped /\ pc[r] \in {"findActive", "createOne", "softDelete"}
    BY DEF FindActive, CreateOne, SoftDelete, history
  <1>3. \/ Only(r, "refused")
        \/ pc[r] = "findActive" /\ Only(r, "createOne")
        \/ /\ pc[r] = "createOne" /\ Only(r, "commitEndpoint")
           /\ \A e \in endpoints : ~(e.live /\ e.tenant = in[r].tenant)
           /\ \A q \in Request \ {r} : pc[q] = "commitEndpoint" => in[q].tenant # in[r].tenant
        \/ pc[r] = "softDelete" /\ Only(r, "commitRemoval")
    BY DEF FindActive, CreateOne, SoftDelete, Goto, Only, Quiet, tables, Answers, Others,
           LiveEndpoints
  <1>4. CASE Only(r, "refused")
    BY <1>1, <1>2, <1>4, OInvRefused
  <1>5. ASSUME NEW p \in {"createOne", "commitEndpoint", "commitRemoval"}, Only(r, p),
               p = "createOne" => pc[r] = "findActive",
               p = "commitEndpoint" =>
                 /\ pc[r] = "createOne"
                 /\ \A e \in endpoints : ~(e.live /\ e.tenant = in[r].tenant)
                 /\ \A q \in Request \ {r} : pc[q] = "commitEndpoint" => in[q].tenant # in[r].tenant,
               p = "commitRemoval" => pc[r] = "softDelete"
        PROVE  OInv'
    <2>1. pc'[r] = p /\ in'[r] = in[r] /\ tenants' = tenants
      BY <1>1, <1>5, OnlyMoves DEF Only, Quiet
    <2>2. /\ p \in EndpointLabels => in[r].kind = "endpoint" /\ Target(r) \in Ids(tenants)
          /\ p = "commitRemoval" => in[r].kind = "remove"
      BY <1>5 DEF OInv, Fits, Refers, EndpointLabels
    <2>3. Fits(r)'
      BY <2>1, <2>2 DEF Fits, SignInLabels, OnboardLabels, EndpointLabels, Begun, Changing
    <2>4. Refers(r)'
      BY <2>1, <2>2 DEF Refers, SignInLabels, OnboardLabels, EndpointLabels, Changing, Target
    <2>5. Leaves(r)'
      BY <2>1 DEF Leaves
    <2>6. /\ p \notin {"insertOwner", "commitTenant", "auditSame", "commitSame"}
          /\ p \notin Begun /\ pc[r] # "session"
      BY <1>2 DEF Begun, Changing
    <2> QED
      BY <1>1, <1>2, <1>5, <2>1, <2>3, <2>4, <2>5, <2>6, OnlyMoves, QuietStep
  <1> QED
    BY <1>3, <1>4, <1>5

-----------------------------------------------------------------------------
(* Steps that write rows. *)

LEMMA WriteStep ==
    ASSUME Shape, OInv, NEW r \in Request, NEW p, Moves(r, p), Grown,
           TypeOK', TenantsOK', EndpointsOK', AuditOK', Fits(r)', Refers(r)', Leaves(r)'
    PROVE  OInv'
  BY OthersKept DEF OInv

\* A step to a plain label does not disturb the tables it does not write.
LEMMA PlainTables ==
    ASSUME Shape, OInv, NEW r \in Request, NEW p \in Plain, Moves(r, p),
           overlapped' = overlapped, pc[r] = "session" => p \in {"ok", "error"}
    PROVE  /\ tenants' = tenants /\ memberships \subseteq memberships' => TenantsOK'
           /\ endpoints' = endpoints => EndpointsOK'
           /\ tenants' = tenants /\ audit' = audit => AuditOK'
  <1>1. /\ p \notin {"insertOwner", "commitTenant"} /\ p # "commitEndpoint"
        /\ p \notin Begun /\ p \notin {"auditSame", "commitSame"}
    BY DEF Plain, Begun, Changing
  <1>2. tenants' = tenants /\ memberships \subseteq memberships' => TenantsOK'
    BY <1>1, TenantsQuiet DEF OInv
  <1>3. endpoints' = endpoints => EndpointsOK'
    BY <1>1, EndpointsQuiet DEF OInv
  <1>4. tenants' = tenants /\ audit' = audit => AuditOK'
    BY <1>1, AuditQuiet DEF OInv
  <1> QED
    BY <1>2, <1>3, <1>4

\* TypeOK, table by table.
LEMMA TypeParts ==
    ASSUME TypeOK
    PROVE  /\ users \subseteq User /\ tenants \subseteq Tenant /\ memberships \subseteq Membership
           /\ invites \subseteq Invite /\ endpoints \subseteq WebhookEndpoint
           /\ audit \in Seq(AdminAuditLog)
           /\ \A m \in memberships : m.user \in Ids(users) /\ m.tenant \in Ids(tenants)
           /\ \A row \in invites : row.tenant \in Ids(tenants)
           /\ \A row \in endpoints : row.tenant \in Ids(tenants)
           /\ \A a, b \in tenants : a.id = b.id => a = b
           /\ \A a, b \in endpoints : a.id = b.id => a = b
           /\ \A r \in Request : user[r] \in Ids(users) \cup {NoOne}
           /\ faults \in 0..MaxFaults
  <1>1. /\ \A a, b \in tenants : a.id = b.id => a = b
        /\ \A a, b \in endpoints : a.id = b.id => a = b
    BY PrimaryKeys DEF TypeOK
  <1> QED
    BY <1>1 DEF TypeOK

LEMMA TypeFromParts ==
    ASSUME AInv', users' \subseteq User, tenants' \subseteq Tenant,
           memberships' \subseteq Membership, invites' \subseteq Invite,
           endpoints' \subseteq WebhookEndpoint, audit' \in Seq(AdminAuditLog),
           \A m \in memberships' : m.user \in Ids(users') /\ m.tenant \in Ids(tenants'),
           \A row \in invites' : row.tenant \in Ids(tenants'),
           \A row \in endpoints' : row.tenant \in Ids(tenants'),
           \A a, b \in tenants' : a.id = b.id => a = b,
           \A a, b \in endpoints' : a.id = b.id => a = b,
           \A r \in Request : user'[r] \in Ids(users') \cup {NoOne},
           faults' \in 0..MaxFaults
    PROVE  TypeOK'
  <1>1. \A a, b \in users' : a.id = b.id => a = b
    BY DEF AInv, UsersOK
  <1>2. \A a, b \in invites' : a.id = b.id => a = b
    BY DEF AInv, InvitesOK
  <1>3. \A table \in {users', tenants', invites', endpoints'} :
          \A a, b \in table : a.id = b.id => a = b
    BY <1>1, <1>2, PrimaryKeys
  <1> QED
    BY <1>3 DEF TypeOK

LEMMA OInvCreateUser ==
    ASSUME AInv, AInv', OInv, NEW r \in Request, CreateUser(r)
    PROVE  OInv'
  <1> DEFINE sub == GoogleAccount(r)
             new == [id |-> r, email |-> in[r].email, password |-> in[r].kind = "register",
                     sub |-> sub]
  <1>1. /\ Shape /\ pc[r] = "createUser" /\ tenants' = tenants /\ memberships' = memberships
        /\ invites' = invites /\ endpoints' = endpoints /\ audit' = audit /\ in' = in
        /\ faults' = faults /\ overlapped' = overlapped
    BY DEF AInv, CreateUser, history
  <1>2. \/ pc' = [pc EXCEPT ![r] = "error"] /\ users' = users /\ user' = user
        \/ /\ pc' = [pc EXCEPT ![r] = "session"] /\ users' = users \cup {new}
           /\ user' = [user EXCEPT ![r] = r]
    BY Zenon DEF CreateUser, Goto, Resolve
  <1>3. in[r].kind \in SignIn /\ in[r].email \in Email
    BY <1>1 DEF OInv, Fits, Refers, SignInLabels
  <1>4. sub \in Sub \cup {NoOne}
    BY <1>1 DEF AInv, RequestOK, Google, Verified, GoogleAccount
  <1>5. new \in User /\ new.id = r
    BY <1>3, <1>4 DEF User, Id
  <1> HIDE DEF sub, new
  <1>6. CASE pc' = [pc EXCEPT ![r] = "error"] /\ users' = users /\ user' = user
    <2>1. Moves(r, "error") /\ pc'[r] = "error" /\ Quiet
      BY <1>1, <1>6 DEF Moves, Answers, Shape, Quiet
    <2>2. Fits(r)' /\ Refers(r)' /\ Leaves(r)'
      BY <2>1, Refusal
    <2>3. faults' \in 0..MaxFaults /\ \A q \in Request : user'[q] \in Ids(users) \cup {NoOne}
      BY <1>1, <1>6 DEF OInv, TypeOK
    <2>4. "error" \in Plain
      BY DEF Plain
    <2> QED
      BY <1>1, <2>1, <2>2, <2>3, <2>4, PlainQuiet
  <1>7. CASE /\ pc' = [pc EXCEPT ![r] = "session"] /\ users' = users \cup {new}
             /\ user' = [user EXCEPT ![r] = r]
    <2>1. Moves(r, "session") /\ pc'[r] = "session" /\ "session" \in Plain
      BY <1>1, <1>7 DEF Moves, Answers, Shape, Plain
    <2>2. Ids(users) \subseteq Ids(users') /\ r \in Ids(users')
      BY <1>5, <1>7 DEF Ids
    <2>3. Grown
      BY <1>1, <2>2 DEF Grown
    <2>4. TypeOK'
      <3>1. users' \subseteq User
        BY <1>5, <1>7, TypeParts DEF OInv
      <3>2. \A q \in Request : user'[q] \in Ids(users') \cup {NoOne}
        BY <1>1, <1>7, <2>2, TypeParts DEF OInv, Shape
      <3>3. \A m \in memberships : m.user \in Ids(users')
        BY <2>2, TypeParts DEF OInv
      <3>4. TypeOK
        BY DEF OInv
      <3> QED
        BY <1>1, <3>1, <3>2, <3>3, <3>4, TypeParts, TypeFromParts
    <2>5. TenantsOK' /\ EndpointsOK' /\ AuditOK'
      BY <1>1, <2>1, PlainTables
    <2>6. Fits(r)'
      BY <1>1, <1>3, <2>1 DEF Fits, SignInLabels, OnboardLabels, EndpointLabels, Begun, Changing
    <2>7. Refers(r)'
      BY <2>1 DEF Refers, SignInLabels, OnboardLabels, EndpointLabels, Changing
    <2>8. Leaves(r)'
      BY <1>1, <1>3, <2>1 DEF Leaves, SignIn
    <2> QED
      BY <1>1, <2>1, <2>3, <2>4, <2>5, <2>6, <2>7, <2>8, WriteStep
  <1> QED
    BY <1>2, <1>6, <1>7

LEMMA OInvLinkProvider ==
    ASSUME AInv, AInv', OInv, NEW r \in Request, LinkProvider(r)
    PROVE  OInv'
  <1> DEFINE img(u) == IF u.id = user[r] THEN [u EXCEPT !.sub = in[r].sub] ELSE u
  <1>1. /\ Shape /\ pc[r] = "link" /\ tenants' = tenants /\ memberships' = memberships
        /\ invites' = invites /\ endpoints' = endpoints /\ audit' = audit /\ in' = in
        /\ user' = user /\ faults' = faults /\ overlapped' = overlapped
    BY DEF AInv, LinkProvider, history
  <1>2. users' = users \/ users' = {img(u) : u \in users}
    BY Zenon DEF LinkProvider
  <1>3. PICK p \in {"error", "session"} : pc' = [pc EXCEPT ![r] = p]
    BY Zenon DEF LinkProvider, Goto
  <1>4. Moves(r, p) /\ pc'[r] = p /\ p \in Plain
    BY <1>1, <1>3 DEF Moves, Answers, Shape, Plain
  <1>5. in[r].kind \in SignIn /\ in[r].sub \in Sub
    BY <1>1 DEF OInv, Fits, SignInLabels, AInv, RequestOK, Google, Verified
  <1>6. \A u \in users : img(u) \in User /\ img(u).id = u.id
    <2>1. \A u \in users : u \in User
      BY TypeParts DEF OInv
    <2> QED
      BY <1>5, <2>1 DEF User
  <1> HIDE DEF img
  <1>7. users' \subseteq User /\ Ids(users) \subseteq Ids(users')
    <2>1. CASE users' = users
      BY <2>1, TypeParts DEF OInv
    <2>2. CASE users' = {img(u) : u \in users}
      BY <1>6, <2>2 DEF Ids
    <2> QED
      BY <1>2, <2>1, <2>2
  <1>8. Grown
    BY <1>1, <1>7 DEF Grown
  <1>9. TypeOK'
    <2>1. TypeOK
      BY DEF OInv
    <2>2. /\ \A q \in Request : user'[q] \in Ids(users') \cup {NoOne}
          /\ \A m \in memberships : m.user \in Ids(users')
      BY <1>1, <1>7, <2>1, TypeParts
    <2> QED
      BY <1>1, <1>7, <2>1, <2>2, TypeParts, TypeFromParts
  <1>10. TenantsOK' /\ EndpointsOK' /\ AuditOK'
    BY <1>1, <1>4, PlainTables
  <1>11. Fits(r)'
    BY <1>1, <1>4, <1>5 DEF Fits, SignInLabels, OnboardLabels, EndpointLabels, Begun, Changing
  <1>12. Refers(r)'
    BY <1>4 DEF Refers, SignInLabels, OnboardLabels, EndpointLabels, Changing
  <1>13. Leaves(r)'
    BY <1>1, <1>4, <1>5 DEF Leaves, SignIn
  <1> QED
    BY <1>1, <1>4, <1>8, <1>9, <1>10, <1>11, <1>12, <1>13, WriteStep

\* The tenant, its slug and its owner appear together.
LEMMA OInvCommitTenant ==
    ASSUME AInv, AInv', OInv, NEW r \in Request, CommitTenant(r)
    PROVE  OInv'
  <1> DEFINE new == [id |-> r, slug |-> in[r].slug, suspended |-> FALSE]
             own == [user |-> in[r].user, tenant |-> r, role |-> Owner]
  <1>1. /\ Shape /\ pc[r] = "commitTenant" /\ tenants' = tenants \cup {new}
        /\ memberships' = memberships \cup {own} /\ user' = [user EXCEPT ![r] = in[r].user]
        /\ pc' = [pc EXCEPT ![r] = "session"] /\ users' = users /\ invites' = invites
        /\ endpoints' = endpoints /\ audit' = audit /\ in' = in
        /\ faults' = faults /\ overlapped' = overlapped
    BY DEF AInv, CommitTenant, Goto, Resolve, history
  <1>2. /\ Moves(r, "session") /\ "session" \in Plain
        /\ pc'[r] = "session" /\ \A q \in Request \ {r} : pc'[q] = pc[q]
    BY <1>1 DEF Moves, Answers, Shape, Plain
  <1>3. in[r].kind = "onboard" /\ in[r].slug \in Slug /\ in[r].user \in Ids(users)
    BY <1>1 DEF OInv, Fits, Refers, OnboardLabels
  <1>4. TypeOK /\ TenantsOK /\ AuditOK
    BY DEF OInv
  <1>5. in[r].user \in Id
    BY <1>3, <1>4, TypeParts DEF Ids, User
  <1>6. /\ new \in Tenant /\ new.id = r /\ new.slug = in[r].slug /\ new.suspended = FALSE
        /\ own \in Membership /\ own.user = in[r].user /\ own.tenant = r /\ own.role = Owner
    BY <1>3, <1>5, RoleAssumption DEF Tenant, Membership, Id
  <1>7. own = [user |-> in[r].user, tenant |-> r, role |-> Owner]
    OBVIOUS
  <1> HIDE DEF new, own
  <1>8. \A t \in tenants : t.id # r
    BY <1>1, <1>4 DEF TenantsOK
  <1>9. Ids(tenants) \subseteq Ids(tenants') /\ r \in Ids(tenants') /\ r \notin Ids(tenants)
    BY <1>1, <1>6, <1>8 DEF Ids
  <1>10. Grown
    BY <1>1, <1>9 DEF Grown
  <1>11. TypeOK'
    <2>1. tenants' \subseteq Tenant /\ memberships' \subseteq Membership
      BY <1>1, <1>4, <1>6, TypeParts
    <2>2. \A m \in memberships' : m.user \in Ids(users) /\ m.tenant \in Ids(tenants')
      BY <1>1, <1>3, <1>4, <1>6, <1>9, TypeParts
    <2>3. /\ \A row \in invites : row.tenant \in Ids(tenants')
          /\ \A row \in endpoints : row.tenant \in Ids(tenants')
      BY <1>4, <1>9, TypeParts
    <2>4. \A a, b \in tenants' : a.id = b.id => a = b
      BY <1>1, <1>4, <1>6, <1>8, TypeParts
    <2>5. \A q \in Request : user'[q] \in Ids(users) \cup {NoOne}
      BY <1>1, <1>3, <1>4, TypeParts DEF Shape
    <2> QED
      BY <1>1, <1>4, <2>1, <2>2, <2>3, <2>4, <2>5, TypeParts, TypeFromParts
  <1>12. TenantsOK'
    <2>1. Open(r)
      BY <1>1 DEF Open
    <2>2. \A t \in tenants : t.slug # new.slug
      BY <1>4, <1>6, <2>1 DEF TenantsOK
    <2>3. \A q \in Request : Open(q)' => q # r /\ Open(q)
      BY <1>2 DEF Open
    <2>4. \A t \in tenants' : \E m \in memberships' : m.tenant = t.id /\ m.role = Owner
      BY <1>1, <1>4, <1>6 DEF TenantsOK
    <2>5. \A t, s \in tenants' : t.slug = s.slug => t = s
      BY <1>1, <1>4, <2>2 DEF TenantsOK
    <2>6. \A t \in tenants' : t.id \in Request => pc'[t.id] \in {"session", "ok", "error"}
      BY <1>1, <1>2, <1>4, <1>6 DEF TenantsOK
    <2>7. \A q \in Request : Open(q)' => \A t \in tenants' : t.slug # in'[q].slug
      BY <1>1, <1>4, <1>6, <2>1, <2>3 DEF TenantsOK
    <2>8. \A q, s \in Request : Open(q)' /\ Open(s)' /\ in'[q].slug = in'[s].slug => q = s
      BY <1>1, <1>4, <2>3 DEF TenantsOK
    <2> QED
      BY <2>4, <2>5, <2>6, <2>7, <2>8 DEF TenantsOK
  <1>13. EndpointsOK'
    BY <1>1, <1>2, PlainTables
  <1>14. AuditOK'
    <2>1. \A k \in DOMAIN audit : audit[k].tenant \in Ids(tenants') /\ audit[k].tenant # r
      BY <1>4, <1>9 DEF AuditOK
    <2>2. \A q \in Request : pc'[q] \in Begun => q # r /\ pc[q] \in Begun
      BY <1>2 DEF Begun, Changing
    <2>3. \A q, s \in Request :
            q # s /\ pc'[q] \in Begun /\ pc'[s] \in Begun /\ in'[q].tenant = in'[s].tenant
              => in'[s].tenant \in overlapped'
      BY <1>1, <1>4, <2>2 DEF AuditOK, Target
    <2>4. ASSUME NEW q \in Request, pc'[q] \in {"auditSame", "commitSame"},
                 in'[q].tenant \notin overlapped', NEW t \in tenants', t.id = in'[q].tenant
          PROVE  t.suspended <=> in'[q].kind = "suspend"
      <3>1. pc[q] = pc'[q] /\ pc[q] \in Changing
        BY <1>2, <2>4 DEF Changing
      <3>2. in[q].tenant \in Ids(tenants)
        BY <3>1 DEF OInv, Refers, Target
      <3>3. t \in tenants
        BY <1>1, <1>6, <1>9, <2>4, <3>2
      <3> QED
        BY <1>1, <1>4, <2>4, <3>1, <3>3 DEF AuditOK, Target
    <2>5. AuditTells'
      <3>1. SUFFICES ASSUME NEW t \in tenants'
                     PROVE  /\ t.suspended => \E k \in DOMAIN audit :
                                 audit[k].tenant = t.id /\ audit[k].action = "suspend"
                            /\ t.id \notin overlapped =>
                                 (t.suspended <=> \E k \in DOMAIN audit :
                                     LastChange(t.id, k) /\ audit[k].action = "suspend")
        BY <1>1 DEF AuditTells, LastChange
      <3>2. CASE t \in tenants
        BY <1>4, <3>2 DEF AuditOK, AuditTells
      <3>3. CASE t = new
        <4>1. \A k \in DOMAIN audit : ~LastChange(t.id, k)
          BY <1>6, <2>1, <3>3 DEF LastChange
        <4> QED
          BY <1>6, <3>3, <4>1
      <3> QED
        BY <1>1, <3>2, <3>3
    <2> QED
      BY <1>1, <2>1, <2>3, <2>4, <2>5 DEF AuditOK, Target
  <1>15. Fits(r)'
    BY <1>1, <1>2, <1>3 DEF Fits, SignInLabels, OnboardLabels, EndpointLabels, Begun, Changing
  <1>16. Refers(r)'
    BY <1>2 DEF Refers, SignInLabels, OnboardLabels, EndpointLabels, Changing
  <1>17. Leaves(r)'
    BY <1>1, <1>2, <1>3, <1>7 DEF Leaves
  <1> QED
    BY <1>1, <1>2, <1>10, <1>11, <1>12, <1>13, <1>14, <1>15, <1>16, <1>17, WriteStep

LEMMA OInvInsertInvite ==
    ASSUME AInv, AInv', OInv, NEW r \in Request, InsertInvite(r)
    PROVE  OInv'
  <1> DEFINE new == [id |-> r, tenant |-> in[r].tenant, role |-> in[r].role,
                     email |-> toLowerCase[in[r].email], accepted |-> FALSE]
  <1>1. /\ Shape /\ pc[r] = "insertInvite" /\ pc' = [pc EXCEPT ![r] = "inviteTenant"]
        /\ users' = users /\ tenants' = tenants /\ memberships' = memberships
        /\ invites' = invites \cup {new} /\ endpoints' = endpoints /\ audit' = audit
        /\ in' = in /\ user' = user /\ faults' = faults /\ overlapped' = overlapped
    BY DEF AInv, InsertInvite, Goto, history
  <1>2. Moves(r, "inviteTenant") /\ pc'[r] = "inviteTenant" /\ "inviteTenant" \in Plain
    BY <1>1 DEF Moves, Answers, Shape, Plain
  <1>3. /\ in[r].kind = "invite" /\ in[r].email \in Email /\ in[r].role \in Role
        /\ in[r].tenant \in Ids(tenants)
    BY <1>1 DEF OInv, Fits, Refers, Target
  <1>4. TypeOK
    BY DEF OInv
  <1>5. in[r].tenant \in Id
    BY <1>3, <1>4, TypeParts DEF Ids, Tenant
  <1>6. new \in Invite /\ new.tenant = in[r].tenant
    BY <1>3, <1>5, EmailAssumption DEF Invite, Id
  <1> HIDE DEF new
  <1>7. Grown
    BY <1>1 DEF Grown
  <1>8. TypeOK'
    <2>1. invites' \subseteq Invite /\ \A row \in invites' : row.tenant \in Ids(tenants)
      BY <1>1, <1>3, <1>4, <1>6, TypeParts
    <2> QED
      BY <1>1, <1>4, <2>1, TypeParts, TypeFromParts
  <1>9. TenantsOK' /\ EndpointsOK' /\ AuditOK'
    BY <1>1, <1>2, PlainTables
  <1>10. Fits(r)'
    BY <1>1, <1>2, <1>3 DEF Fits, SignInLabels, OnboardLabels, EndpointLabels, Begun, Changing
  <1>11. Refers(r)'
    BY <1>2 DEF Refers, SignInLabels, OnboardLabels, EndpointLabels, Changing
  <1>12. Leaves(r)'
    BY <1>2 DEF Leaves
  <1> QED
    BY <1>1, <1>2, <1>7, <1>8, <1>9, <1>10, <1>11, <1>12, WriteStep

LEMMA OInvJoin ==
    ASSUME AInv, AInv', OInv, NEW r \in Request, Join(r)
    PROVE  OInv'
  <1>1. /\ Shape /\ pc[r] = "join" /\ users' = users /\ tenants' = tenants
        /\ invites' = invites /\ endpoints' = endpoints /\ audit' = audit
        /\ in' = in /\ user' = user /\ faults' = faults /\ overlapped' = overlapped
    BY DEF AInv, Join, history
  <1>2. CASE pc' = [pc EXCEPT ![r] = "refused"] /\ memberships' = memberships
    <2>1. Only(r, "refused")
      BY <1>1, <1>2 DEF Only, Quiet, Answers
    <2> QED
      BY <1>1, <2>1, OInvRefused
  <1>3. CASE /\ pc' = [pc EXCEPT ![r] = "mark"]
             /\ memberships' = memberships \cup
                  {[user |-> in[r].user, tenant |-> Row(invites, in[r].token).tenant,
                    role |-> Row(invites, in[r].token).role]}
    <2>1. Joining(r)
      BY <1>1 DEF AInv, RequestOK
    <2>2. PICK i \in invites, u \in users : i.id = in[r].token /\ u.id = in[r].user
      BY <2>1 DEF Joining
    <2>3. Row(invites, in[r].token) = i
      BY <2>2 DEF Row, AInv, InvitesOK
    <2>4. TypeOK
      BY DEF OInv
    <2> DEFINE new == [user |-> u.id, tenant |-> i.tenant, role |-> i.role]
    <2>5. memberships' = memberships \cup {new}
      BY <1>3, <2>2, <2>3
    <2>6. new \in Membership /\ new.user = u.id /\ new.tenant = i.tenant
      BY <2>4, TypeParts DEF Membership, User, Invite
    <2> HIDE DEF new
    <2>7. Moves(r, "mark") /\ pc'[r] = "mark" /\ "mark" \in Plain
      BY <1>1, <1>3 DEF Moves, Answers, Shape, Plain
    <2>8. Grown
      BY <1>1, <2>5 DEF Grown
    <2>9. TypeOK'
      <3>1. u.id \in Ids(users) /\ i.tenant \in Ids(tenants)
        BY <2>4, TypeParts DEF Ids
      <3>2. /\ memberships' \subseteq Membership
            /\ \A m \in memberships' : m.user \in Ids(users) /\ m.tenant \in Ids(tenants)
        BY <2>4, <2>5, <2>6, <3>1, TypeParts
      <3> QED
        BY <1>1, <2>4, <3>2, TypeParts, TypeFromParts
    <2>10. TenantsOK' /\ EndpointsOK' /\ AuditOK'
      BY <1>1, <2>5, <2>7, PlainTables
    <2>11. in[r].kind = "accept"
      BY <1>1 DEF OInv, Fits
    <2>12. Fits(r)'
      BY <1>1, <2>7, <2>11 DEF Fits, SignInLabels, OnboardLabels, EndpointLabels, Begun, Changing
    <2>13. Refers(r)'
      BY <2>7 DEF Refers, SignInLabels, OnboardLabels, EndpointLabels, Changing
    <2>14. Leaves(r)'
      BY <2>7 DEF Leaves
    <2> QED
      BY <1>1, <2>7, <2>8, <2>9, <2>10, <2>12, <2>13, <2>14, WriteStep
  <1> QED
    BY <1>2, <1>3, Zenon DEF Join, Goto

LEMMA OInvMark ==
    ASSUME AInv, AInv', OInv, NEW r \in Request, MarkAcceptedIfPending(r)
    PROVE  OInv'
  <1> DEFINE img(i) == IF i.id = in[r].token THEN [i EXCEPT !.accepted = TRUE] ELSE i
  <1>1. /\ Shape /\ pc[r] = "mark" /\ pc' = [pc EXCEPT ![r] = "ok"]
        /\ users' = users /\ tenants' = tenants /\ memberships' = memberships
        /\ invites' = {img(i) : i \in invites} /\ endpoints' = endpoints /\ audit' = audit
        /\ in' = in /\ user' = user /\ faults' = faults /\ overlapped' = overlapped
    BY DEF AInv, MarkAcceptedIfPending, Goto, history
  <1>2. TypeOK
    BY DEF OInv
  <1>3. \A i \in invites : img(i) \in Invite /\ img(i).id = i.id /\ img(i).tenant = i.tenant
    <2>1. \A i \in invites : i \in Invite
      BY <1>2, TypeParts
    <2> QED
      BY <2>1 DEF Invite
  <1> HIDE DEF img
  <1>4. Moves(r, "ok") /\ pc'[r] = "ok" /\ "ok" \in Plain
    BY <1>1 DEF Moves, Answers, Shape, Plain
  <1>5. \A i \in invites : \E j \in invites' : j.id = i.id /\ j.tenant = i.tenant
    BY <1>1, <1>3
  <1>6. Grown
    BY <1>1, <1>5 DEF Grown
  <1>7. TypeOK'
    <2>1. invites' \subseteq Invite /\ \A row \in invites' : row.tenant \in Ids(tenants)
      BY <1>1, <1>2, <1>3, TypeParts
    <2> QED
      BY <1>1, <1>2, <2>1, TypeParts, TypeFromParts
  <1>8. TenantsOK' /\ EndpointsOK' /\ AuditOK'
    BY <1>1, <1>4, PlainTables
  <1>9. in[r].kind = "accept"
    BY <1>1 DEF OInv, Fits
  <1>10. Joining(r)
    BY <1>1 DEF AInv, RequestOK
  <1>11. PICK i \in invites, u \in users :
           /\ i.id = in[r].token /\ u.id = in[r].user
           /\ [user |-> u.id, tenant |-> i.tenant, role |-> i.role] \in memberships
    BY <1>1, <1>10 DEF Joining
  <1>12. Fits(r)'
    BY <1>4 DEF Fits, SignInLabels, OnboardLabels, EndpointLabels, Begun, Changing
  <1>13. Refers(r)'
    BY <1>4 DEF Refers, SignInLabels, OnboardLabels, EndpointLabels, Changing
  <1>14. Leaves(r)'
    <2>1. PICK j \in invites' : j.id = i.id /\ j.tenant = i.tenant
      BY <1>5
    <2>2. \E m \in memberships' : m.user = in'[r].user /\ m.tenant = j.tenant
      BY <1>1, <1>11, <2>1
    <2>3. j.id = in'[r].token
      BY <1>1, <1>11, <2>1
    <2> QED
      BY <1>1, <1>4, <1>9, <2>2, <2>3 DEF Leaves
  <1> QED
    BY <1>1, <1>4, <1>6, <1>7, <1>8, <1>12, <1>13, <1>14, WriteStep

-----------------------------------------------------------------------------
(* The audit log. *)

\* An entry is written at the end of the log; it is the last change of its
\* tenant if it is a change, and of no other tenant.
LEMMA AuditAppend ==
    ASSUME audit \in Seq(AdminAuditLog), NEW x \in AdminAuditLog, audit' = Append(audit, x)
    PROVE  /\ audit' \in Seq(AdminAuditLog)
           /\ \A k \in DOMAIN audit : k \in DOMAIN audit' /\ audit'[k] = audit[k]
           /\ Len(audit) + 1 \in DOMAIN audit' /\ audit'[Len(audit) + 1] = x
           /\ \A k \in DOMAIN audit' : k \in DOMAIN audit \/ k = Len(audit) + 1
           /\ \A t : (x.tenant # t \/ x.action \notin Change) => \A k \in DOMAIN audit' :
                LastChange(t, k)' <=> k \in DOMAIN audit /\ LastChange(t, k)
           /\ \A t : (x.tenant = t /\ x.action \in Change) => \A k \in DOMAIN audit' :
                LastChange(t, k)' <=> k = Len(audit) + 1
  <1> DEFINE n == Len(audit)
  <1>1. n \in Nat /\ DOMAIN audit = 1..n
    OBVIOUS
  <1>2. audit' \in Seq(AdminAuditLog) /\ DOMAIN audit' = 1..(n + 1)
    OBVIOUS
  <1>3. audit'[n + 1] = x /\ \A k \in 1..n : audit'[k] = audit[k]
    OBVIOUS
  <1>4. /\ \A k \in 1..n : k \in 1..(n + 1) /\ n + 1 > k
        /\ n + 1 \in 1..(n + 1) /\ \A k \in 1..(n + 1) : k \in 1..n \/ k = n + 1
        /\ \A k \in 1..(n + 1) : ~(k > n + 1)
    BY <1>1
  <1> HIDE DEF n
  <1>5. ASSUME NEW t, x.tenant # t \/ x.action \notin Change, NEW k \in DOMAIN audit'
        PROVE  LastChange(t, k)' <=> k \in DOMAIN audit /\ LastChange(t, k)
    <2>1. CASE k = n + 1
      <3>1. ~LastChange(t, k)'
        BY <1>3, <1>5, <2>1 DEF LastChange
      <3>2. n + 1 \notin 1..n
        BY <1>1
      <3> QED
        BY <1>1, <2>1, <3>1, <3>2
    <2>2. CASE k \in 1..n
      <3>1. (\A j \in 1..(n + 1) : j > k => audit'[j].tenant # t \/ audit'[j].action \notin Change)
              <=> (\A j \in 1..n : j > k => audit[j].tenant # t \/ audit[j].action \notin Change)
        BY <1>3, <1>4, <1>5
      <3> QED
        BY <1>1, <1>2, <1>3, <2>2, <3>1 DEF LastChange
    <2> QED
      BY <1>2, <1>4, <2>1, <2>2
  <1>6. ASSUME NEW t, x.tenant = t, x.action \in Change, NEW k \in DOMAIN audit'
        PROVE  LastChange(t, k)' <=> k = n + 1
    <2>1. CASE k = n + 1
      BY <1>2, <1>3, <1>4, <1>6, <2>1 DEF LastChange
    <2>2. CASE k \in 1..n
      <3>1. ~LastChange(t, k)'
        BY <1>2, <1>3, <1>4, <1>6, <2>2 DEF LastChange
      <3>2. k # n + 1
        BY <1>1, <2>2
      <3> QED
        BY <3>1, <3>2
    <2> QED
      BY <1>2, <1>4, <2>1, <2>2
  <1>7. /\ \A k \in DOMAIN audit : k \in DOMAIN audit' /\ audit'[k] = audit[k]
        /\ n + 1 \in DOMAIN audit' /\ audit'[n + 1] = x
        /\ \A k \in DOMAIN audit' : k \in DOMAIN audit \/ k = n + 1
    BY <1>1, <1>2, <1>3, <1>4
  <1> QED
    BY <1>2, <1>5, <1>6, <1>7 DEF n

\* The access to a tenant's details is on record before they are read.
LEMMA OInvRecordView ==
    ASSUME AInv, AInv', OInv, NEW r \in Request, RecordView(r)
    PROVE  OInv'
  <1>1. /\ Shape /\ pc[r] = "auditView" /\ pc' = [pc EXCEPT ![r] = "readTenant"]
        /\ users' = users /\ tenants' = tenants /\ memberships' = memberships
        /\ invites' = invites /\ endpoints' = endpoints /\ audit' = Append(audit, Entry(r))
        /\ in' = in /\ user' = user /\ faults' = faults /\ overlapped' = overlapped
    BY DEF AInv, RecordView, Goto, history
  <1>2. /\ Moves(r, "readTenant") /\ "readTenant" \in Plain
        /\ pc'[r] = "readTenant" /\ \A q \in Request \ {r} : pc'[q] = pc[q]
    BY <1>1 DEF Moves, Answers, Shape, Plain
  <1>3. in[r].kind = "view" /\ in[r].tenant \in Ids(tenants)
    BY <1>1 DEF OInv, Fits, Refers, Target
  <1>4. TypeOK /\ AuditOK
    BY DEF OInv
  <1>5. audit \in Seq(AdminAuditLog)
    BY <1>4, TypeParts
  <1>6. in[r].tenant \in Id
    BY <1>3, <1>4, TypeParts DEF Ids, Tenant
  <1> DEFINE x == Entry(r)
  <1>7. x \in AdminAuditLog /\ x.tenant = in[r].tenant /\ x.action \notin Change
    BY <1>3, <1>6 DEF Entry, AdminAuditLog, Target, Change
  <1>8. audit' = Append(audit, x)
    BY <1>1
  <1>9. Entry(r)' = x
    BY <1>1 DEF Entry, Target
  <1> HIDE DEF x
  <1>10. Grown
    BY <1>1, <1>5, <1>7, <1>8, AuditAppend DEF Grown
  <1>11. TypeOK'
    <2>1. audit' \in Seq(AdminAuditLog)
      BY <1>5, <1>7, <1>8, AuditAppend
    <2> QED
      BY <1>1, <1>4, <2>1, TypeParts, TypeFromParts
  <1>12. TenantsOK' /\ EndpointsOK'
    BY <1>1, <1>2, PlainTables
  <1>13. AuditOK'
    <2>1. \A k \in DOMAIN audit' : audit'[k].tenant \in Ids(tenants)
      BY <1>3, <1>4, <1>5, <1>7, <1>8, AuditAppend DEF AuditOK
    <2>2. \A q \in Request : pc'[q] \in Begun => pc[q] = pc'[q]
      BY <1>2 DEF Begun, Changing
    <2>3. \A q, s \in Request :
            q # s /\ pc'[q] \in Begun /\ pc'[s] \in Begun /\ in'[q].tenant = in'[s].tenant
              => in'[s].tenant \in overlapped'
      BY <1>1, <1>4, <2>2 DEF AuditOK, Target
    <2>4. \A q \in Request : pc'[q] \in {"auditSame", "commitSame"}
                             /\ in'[q].tenant \notin overlapped' =>
            \A t \in tenants : t.id = in'[q].tenant => (t.suspended <=> in'[q].kind = "suspend")
      BY <1>1, <1>4, <2>2 DEF AuditOK, Target, Begun, Changing
    <2>5. AuditTells'
      <3>1. SUFFICES ASSUME NEW t \in tenants
                     PROVE  /\ t.suspended => \E k \in DOMAIN audit' :
                                 audit'[k].tenant = t.id /\ audit'[k].action = "suspend"
                            /\ t.id \notin overlapped =>
                                 (t.suspended <=> \E k \in DOMAIN audit' :
                                     LastChange(t.id, k)' /\ audit'[k].action = "suspend")
        BY <1>1 DEF AuditTells, LastChange
      <3>2. /\ t.suspended => \E k \in DOMAIN audit :
                 audit[k].tenant = t.id /\ audit[k].action = "suspend"
            /\ t.id \notin overlapped =>
                 (t.suspended <=> \E k \in DOMAIN audit :
                     LastChange(t.id, k) /\ audit[k].action = "suspend")
        BY <1>4 DEF AuditOK, AuditTells
      <3>3. \A k \in DOMAIN audit : k \in DOMAIN audit' /\ audit'[k] = audit[k]
        BY <1>5, <1>7, <1>8, AuditAppend
      <3>4. \A k \in DOMAIN audit' :
              LastChange(t.id, k)' <=> k \in DOMAIN audit /\ LastChange(t.id, k)
        BY <1>5, <1>7, <1>8, AuditAppend
      <3> QED
        BY <3>2, <3>3, <3>4
    <2> QED
      BY <1>1, <2>1, <2>3, <2>4, <2>5 DEF AuditOK, Target
  <1>14. Fits(r)'
    BY <1>1, <1>2, <1>3 DEF Fits, SignInLabels, OnboardLabels, EndpointLabels, Begun, Changing
  <1>15. Refers(r)'
    BY <1>2 DEF Refers, SignInLabels, OnboardLabels, EndpointLabels, Changing
  <1>16. Leaves(r)'
    <2>1. \E k \in DOMAIN audit' : audit'[k] = x
      BY <1>5, <1>7, <1>8, AuditAppend
    <2> QED
      BY <1>2, <1>9, <2>1 DEF Leaves
  <1> QED
    BY <1>1, <1>2, <1>10, <1>11, <1>12, <1>13, <1>14, <1>15, <1>16, WriteStep

\* The status and its entry are committed together.
LEMMA OInvCommitChange ==
    ASSUME AInv, AInv', OInv, NEW r \in Request, CommitChange(r)
    PROVE  OInv'
  <1> DEFINE img(t) == IF t.id = Target(r)
                       THEN [t EXCEPT !.suspended = (in[r].kind = "suspend")] ELSE t
             x == Entry(r)
  <1>1. /\ Shape /\ pc[r] \in {"commitSame", "commitChanged"} /\ pc' = [pc EXCEPT ![r] = "ok"]
        /\ users' = users /\ memberships' = memberships
        /\ invites' = invites /\ endpoints' = endpoints /\ audit' = Append(audit, x)
        /\ in' = in /\ user' = user /\ faults' = faults /\ overlapped' = overlapped
    BY DEF AInv, CommitChange, Goto, history
  <1>2. /\ pc[r] = "commitSame" => tenants' = tenants
        /\ pc[r] = "commitChanged" => tenants' = {img(t) : t \in tenants}
    BY DEF CommitChange, WithStatus
  <1>3. /\ Moves(r, "ok") /\ "ok" \in Plain
        /\ pc'[r] = "ok" /\ \A q \in Request \ {r} : pc'[q] = pc[q]
    BY <1>1 DEF Moves, Answers, Shape, Plain
  <1>4. pc[r] \in Changing /\ pc[r] \in Begun
    BY <1>1 DEF Begun, Changing
  <1>5. in[r].kind \in Change /\ in[r].tenant \in Ids(tenants)
    BY <1>4 DEF OInv, Fits, Refers, Target
  <1>6. TypeOK /\ AuditOK /\ TenantsOK
    BY DEF OInv
  <1>7. audit \in Seq(AdminAuditLog)
    BY <1>6, TypeParts
  <1>8. in[r].tenant \in Id
    BY <1>5, <1>6, TypeParts DEF Ids, Tenant
  <1>9. /\ x \in AdminAuditLog /\ x.tenant = in[r].tenant /\ x.action = in[r].kind
        /\ x.action \in Change
    BY <1>5, <1>8 DEF Entry, AdminAuditLog, Target, Change
  <1>10. \A t \in tenants : /\ img(t) \in Tenant /\ img(t).id = t.id /\ img(t).slug = t.slug
                            /\ t.id # in[r].tenant => img(t) = t
                            /\ t.id = in[r].tenant => (img(t).suspended <=> in[r].kind = "suspend")
    <2>1. \A t \in tenants : t \in Tenant
      BY <1>6, TypeParts
    <2> QED
      BY <2>1 DEF Tenant, Target
  <1> HIDE DEF img, x
  <1>11. ASSUME NEW s \in tenants'
         PROVE  \E t \in tenants :
                  /\ s \in Tenant /\ s.id = t.id /\ s.slug = t.slug
                  /\ t.id # in[r].tenant => s = t
                  /\ pc[r] = "commitSame" => s = t
                  /\ pc[r] = "commitChanged" => s = img(t)
    <2>1. CASE pc[r] = "commitSame"
      BY <1>2, <1>6, <2>1, TypeParts
    <2>2. CASE pc[r] = "commitChanged"
      BY <1>2, <1>10, <2>2
    <2> QED
      BY <1>1, <2>1, <2>2
  <1>12. \A t \in tenants : \E s \in tenants' : s.id = t.id
    BY <1>1, <1>2, <1>10
  <1>13. Ids(tenants) \subseteq Ids(tenants')
    BY <1>12 DEF Ids
  <1>14. Grown
    BY <1>1, <1>7, <1>9, <1>13, AuditAppend DEF Grown
  <1>15. \A a, b \in tenants' : a.id = b.id \/ a.slug = b.slug => a = b
    <2>1. SUFFICES ASSUME NEW a \in tenants', NEW b \in tenants', a.id = b.id \/ a.slug = b.slug
                   PROVE  a = b
      OBVIOUS
    <2>2. PICK t \in tenants : a.id = t.id /\ a.slug = t.slug /\ (pc[r] = "commitSame" => a = t)
                               /\ (pc[r] = "commitChanged" => a = img(t))
      BY <1>11
    <2>3. PICK u \in tenants : b.id = u.id /\ b.slug = u.slug /\ (pc[r] = "commitSame" => b = u)
                               /\ (pc[r] = "commitChanged" => b = img(u))
      BY <1>11
    <2>4. t.id = u.id \/ t.slug = u.slug
      BY <2>1, <2>2, <2>3
    <2>5. t = u
      BY <1>6, <2>4, TypeParts DEF TenantsOK
    <2> QED
      BY <1>1, <2>2, <2>3, <2>5
  <1>16. TypeOK'
    <2>1. tenants' \subseteq Tenant
      BY <1>11
    <2>2. audit' \in Seq(AdminAuditLog)
      BY <1>1, <1>7, <1>9, AuditAppend
    <2>3. /\ \A m \in memberships : m.tenant \in Ids(tenants')
          /\ \A row \in invites : row.tenant \in Ids(tenants')
          /\ \A row \in endpoints : row.tenant \in Ids(tenants')
      BY <1>6, <1>13, TypeParts
    <2> QED
      BY <1>1, <1>6, <1>15, <2>1, <2>2, <2>3, TypeParts, TypeFromParts
  <1>17. TenantsOK'
    <2>1. \A q \in Request : Open(q)' => Open(q)
      BY <1>3 DEF Open
    <2>2. \A s \in tenants' : \E t \in tenants : s.id = t.id /\ s.slug = t.slug
      BY <1>11
    <2>3. \A s \in tenants' : \E m \in memberships : m.tenant = s.id /\ m.role = Owner
      BY <1>6, <2>2 DEF TenantsOK
    <2>4. \A s \in tenants' : s.id \in Request => pc'[s.id] \in {"session", "ok", "error"}
      BY <1>3, <1>6, <2>2 DEF TenantsOK
    <2>5. \A q \in Request : Open(q)' => \A s \in tenants' : s.slug # in[q].slug
      BY <1>6, <2>1, <2>2 DEF TenantsOK
    <2>6. \A q, s \in Request : Open(q)' /\ Open(s)' /\ in[q].slug = in[s].slug => q = s
      BY <1>6, <2>1 DEF TenantsOK
    <2> QED
      BY <1>1, <1>15, <2>3, <2>4, <2>5, <2>6 DEF TenantsOK
  <1>18. EndpointsOK'
    BY <1>1, <1>3, PlainTables
  <1>19. AuditOK'
    <2>1. \A k \in DOMAIN audit' : audit'[k].tenant \in Ids(tenants')
      BY <1>1, <1>5, <1>6, <1>7, <1>9, <1>13, AuditAppend DEF AuditOK
    <2>2. \A q \in Request : pc'[q] \in Begun => q # r /\ pc[q] = pc'[q]
      BY <1>3 DEF Begun, Changing
    <2>3. \A q, s \in Request :
            q # s /\ pc'[q] \in Begun /\ pc'[s] \in Begun /\ in'[q].tenant = in'[s].tenant
              => in'[s].tenant \in overlapped'
      BY <1>1, <1>6, <2>2 DEF AuditOK, Target
    <2>4. ASSUME NEW q \in Request, pc'[q] \in {"auditSame", "commitSame"},
                 in'[q].tenant \notin overlapped', NEW s \in tenants', s.id = in'[q].tenant
          PROVE  s.suspended <=> in'[q].kind = "suspend"
      <3>1. q # r /\ pc[q] = pc'[q] /\ pc[q] \in Begun
        BY <2>2, <2>4 DEF Begun, Changing
      <3>2. in[q].tenant # in[r].tenant
        BY <1>1, <1>4, <1>6, <2>4, <3>1 DEF AuditOK, Target
      <3>3. s \in tenants
        BY <1>1, <1>11, <2>4, <3>2
      <3> QED
        BY <1>1, <1>6, <2>4, <3>1, <3>3 DEF AuditOK, Target
    <2>5. AuditTells'
      <3>1. SUFFICES ASSUME NEW s \in tenants'
                     PROVE  /\ s.suspended => \E k \in DOMAIN audit' :
                                 audit'[k].tenant = s.id /\ audit'[k].action = "suspend"
                            /\ s.id \notin overlapped =>
                                 (s.suspended <=> \E k \in DOMAIN audit' :
                                     LastChange(s.id, k)' /\ audit'[k].action = "suspend")
        BY <1>1 DEF AuditTells, LastChange
      <3>2. PICK t \in tenants : /\ s.id = t.id
                                 /\ t.id # in[r].tenant => s = t
                                 /\ pc[r] = "commitSame" => s = t
                                 /\ pc[r] = "commitChanged" => s = img(t)
        BY <1>11
      <3>3. /\ t.suspended => \E k \in DOMAIN audit :
                 audit[k].tenant = t.id /\ audit[k].action = "suspend"
            /\ t.id \notin overlapped =>
                 (t.suspended <=> \E k \in DOMAIN audit :
                     LastChange(t.id, k) /\ audit[k].action = "suspend")
        BY <1>6 DEF AuditOK, AuditTells
      <3>4. \A k \in DOMAIN audit : k \in DOMAIN audit' /\ audit'[k] = audit[k]
        BY <1>1, <1>7, <1>9, AuditAppend
      <3>5. Len(audit) + 1 \in DOMAIN audit' /\ audit'[Len(audit) + 1] = x
        BY <1>1, <1>7, <1>9, AuditAppend
      <3>6. CASE t.id # in[r].tenant
        <4>1. \A k \in DOMAIN audit' :
                LastChange(t.id, k)' <=> k \in DOMAIN audit /\ LastChange(t.id, k)
          BY <1>1, <1>7, <1>9, <3>6, AuditAppend
        <4>2. s = t
          BY <3>2, <3>6
        <4> QED
          BY <3>3, <3>4, <4>1, <4>2
      <3>7. CASE t.id = in[r].tenant
        <4>1. \A k \in DOMAIN audit' : LastChange(t.id, k)' <=> k = Len(audit) + 1
          BY <1>1, <1>7, <1>9, <3>7, AuditAppend
        <4>2. (\E k \in DOMAIN audit' : LastChange(s.id, k)' /\ audit'[k].action = "suspend")
                <=> in[r].kind = "suspend"
          BY <1>9, <3>2, <3>5, <4>1
        <4>3. CASE pc[r] = "commitChanged"
          <5>1. s.suspended <=> in[r].kind = "suspend"
            BY <1>10, <3>2, <3>7, <4>3
          <5> QED
            BY <1>9, <3>2, <3>5, <3>7, <4>2, <5>1
        <4>4. CASE pc[r] = "commitSame"
          <5>1. s = t
            BY <3>2, <4>4
          <5>2. t.id \notin overlapped => (t.suspended <=> in[r].kind = "suspend")
            BY <1>6, <3>7, <4>4 DEF AuditOK, Target
          <5> QED
            BY <3>3, <3>4, <4>2, <5>1, <5>2
        <4> QED
          BY <1>1, <4>3, <4>4
      <3> QED
        BY <3>6, <3>7
    <2> QED
      BY <2>1, <2>3, <2>4, <2>5 DEF AuditOK, Target
  <1>20. Fits(r)'
    BY <1>3 DEF Fits, SignInLabels, OnboardLabels, EndpointLabels, Begun, Changing
  <1>21. Refers(r)'
    BY <1>3 DEF Refers, SignInLabels, OnboardLabels, EndpointLabels, Changing
  <1>22. Leaves(r)'
    BY <1>1, <1>3, <1>5 DEF Leaves, Change
  <1> QED
    BY <1>1, <1>3, <1>14, <1>16, <1>17, <1>18, <1>19, <1>20, <1>21, <1>22, WriteStep

-----------------------------------------------------------------------------
(* Webhook endpoints. *)

LEMMA OInvCommitEndpoint ==
    ASSUME AInv, AInv', OInv, NEW r \in Request, CommitEndpoint(r)
    PROVE  OInv'
  <1> DEFINE new == [id |-> r, tenant |-> in[r].tenant, live |-> TRUE]
  <1>1. /\ Shape /\ pc[r] = "commitEndpoint" /\ pc' = [pc EXCEPT ![r] = "ok"]
        /\ users' = users /\ tenants' = tenants /\ memberships' = memberships
        /\ invites' = invites /\ endpoints' = endpoints \cup {new} /\ audit' = audit
        /\ in' = in /\ user' = user /\ faults' = faults /\ overlapped' = overlapped
    BY DEF AInv, CommitEndpoint, Goto, history
  <1>2. /\ Moves(r, "ok") /\ "ok" \in Plain
        /\ pc'[r] = "ok" /\ \A q \in Request \ {r} : pc'[q] = pc[q]
    BY <1>1 DEF Moves, Answers, Shape, Plain
  <1>3. in[r].kind = "endpoint" /\ in[r].tenant \in Ids(tenants)
    BY <1>1 DEF OInv, Fits, Refers, Target, EndpointLabels
  <1>4. TypeOK /\ EndpointsOK
    BY DEF OInv
  <1>5. in[r].tenant \in Id
    BY <1>3, <1>4, TypeParts DEF Ids, Tenant
  <1>6. new \in WebhookEndpoint /\ new.id = r /\ new.tenant = in[r].tenant /\ new.live
    BY <1>5 DEF WebhookEndpoint, Id
  <1> HIDE DEF new
  <1>7. \A e \in endpoints : e.id # r
    BY <1>1, <1>4 DEF EndpointsOK
  <1>8. Grown
    BY <1>1 DEF Grown
  <1>9. TypeOK'
    <2>1. /\ endpoints' \subseteq WebhookEndpoint
          /\ \A row \in endpoints' : row.tenant \in Ids(tenants)
      BY <1>1, <1>3, <1>4, <1>6, TypeParts
    <2>2. \A a, b \in endpoints' : a.id = b.id => a = b
      BY <1>1, <1>4, <1>6, <1>7, TypeParts
    <2> QED
      BY <1>1, <1>4, <2>1, <2>2, TypeParts, TypeFromParts
  <1>10. TenantsOK' /\ AuditOK'
    BY <1>1, <1>2, PlainTables
  <1>11. EndpointsOK'
    <2>1. \A e \in endpoints : ~(e.live /\ e.tenant = in[r].tenant)
      BY <1>1, <1>4 DEF EndpointsOK, Target
    <2>2. \A q \in Request : pc'[q] = "commitEndpoint" =>
            q # r /\ pc[q] = "commitEndpoint" /\ in[q].tenant # in[r].tenant
      BY <1>1, <1>2, <1>4 DEF EndpointsOK, Target
    <2>3. \A e \in endpoints' : e.id \in Request /\ pc'[e.id] = "ok"
      BY <1>1, <1>2, <1>4, <1>6 DEF EndpointsOK
    <2>4. \A e, f \in endpoints' : e.live /\ f.live /\ e.tenant = f.tenant => e = f
      BY <1>1, <1>4, <1>6, <2>1 DEF EndpointsOK
    <2>5. \A q \in Request : pc'[q] = "commitEndpoint" =>
            \A e \in endpoints' : ~(e.live /\ e.tenant = in[q].tenant)
      BY <1>1, <1>4, <1>6, <2>2 DEF EndpointsOK, Target
    <2>6. \A q, s \in Request : pc'[q] = "commitEndpoint" /\ pc'[s] = "commitEndpoint"
                                /\ in[q].tenant = in[s].tenant => q = s
      BY <1>4, <2>2 DEF EndpointsOK, Target
    <2> QED
      BY <1>1, <2>3, <2>4, <2>5, <2>6 DEF EndpointsOK, Target
  <1>12. Fits(r)'
    BY <1>2 DEF Fits, SignInLabels, OnboardLabels, EndpointLabels, Begun, Changing
  <1>13. Refers(r)'
    BY <1>2 DEF Refers, SignInLabels, OnboardLabels, EndpointLabels, Changing
  <1>14. Leaves(r)'
    BY <1>1, <1>2, <1>3, <1>6 DEF Leaves, Target
  <1> QED
    BY <1>1, <1>2, <1>8, <1>9, <1>10, <1>11, <1>12, <1>13, <1>14, WriteStep

LEMMA OInvCommitRemoval ==
    ASSUME AInv, AInv', OInv, NEW r \in Request, CommitRemoval(r)
    PROVE  OInv'
  <1> DEFINE img(e) == IF e.id = in[r].endpoint THEN [e EXCEPT !.live = FALSE] ELSE e
  <1>1. /\ Shape /\ pc[r] = "commitRemoval" /\ pc' = [pc EXCEPT ![r] = "ok"]
        /\ users' = users /\ tenants' = tenants /\ memberships' = memberships
        /\ invites' = invites /\ endpoints' = {img(e) : e \in endpoints} /\ audit' = audit
        /\ in' = in /\ user' = user /\ faults' = faults /\ overlapped' = overlapped
    BY DEF AInv, CommitRemoval, Goto, history
  <1>2. /\ Moves(r, "ok") /\ "ok" \in Plain
        /\ pc'[r] = "ok" /\ \A q \in Request \ {r} : pc'[q] = pc[q]
    BY <1>1 DEF Moves, Answers, Shape, Plain
  <1>3. in[r].kind = "remove"
    BY <1>1 DEF OInv, Fits
  <1>4. TypeOK /\ EndpointsOK
    BY DEF OInv
  <1>5. \A e \in endpoints : /\ img(e) \in WebhookEndpoint /\ img(e).id = e.id
                             /\ img(e).tenant = e.tenant
                             /\ img(e).live => img(e) = e
                             /\ e.id # in[r].endpoint => img(e) = e
    <2>1. \A e \in endpoints : e \in WebhookEndpoint
      BY <1>4, TypeParts
    <2> QED
      BY <2>1 DEF WebhookEndpoint
  <1> HIDE DEF img
  <1>6. \A id : id = in[r].endpoint => Removed(id)'
    BY <1>1, <1>2, <1>3 DEF Removed
  <1>7. \A e \in endpoints : \E f \in endpoints' :
          f.id = e.id /\ f.tenant = e.tenant /\ (e.live => f.live \/ Removed(e.id)')
    <2>1. SUFFICES ASSUME NEW e \in endpoints
                   PROVE  /\ img(e) \in endpoints' /\ img(e).id = e.id
                          /\ img(e).tenant = e.tenant
                          /\ e.live => img(e).live \/ Removed(e.id)'
      OBVIOUS
    <2>2. e.id = in[r].endpoint => Removed(e.id)'
      BY <1>6
    <2> QED
      BY <1>1, <1>5, <2>2
  <1>8. Grown
    BY <1>1, <1>7 DEF Grown
  <1>9. TypeOK'
    <2>1. /\ endpoints' \subseteq WebhookEndpoint
          /\ \A row \in endpoints' : row.tenant \in Ids(tenants)
      BY <1>1, <1>4, <1>5, TypeParts
    <2>2. \A a, b \in endpoints' : a.id = b.id => a = b
      BY <1>1, <1>4, <1>5, TypeParts
    <2> QED
      BY <1>1, <1>4, <2>1, <2>2, TypeParts, TypeFromParts
  <1>10. TenantsOK' /\ AuditOK'
    BY <1>1, <1>2, PlainTables
  <1>11. EndpointsOK'
    <2>1. \A q \in Request : pc'[q] = "commitEndpoint" => q # r /\ pc[q] = "commitEndpoint"
      BY <1>2
    <2>2. \A e \in endpoints' : e.live => e \in endpoints
      BY <1>1, <1>5
    <2>3. \A e \in endpoints' : e.id \in Request /\ pc'[e.id] = "ok"
      BY <1>1, <1>2, <1>4, <1>5 DEF EndpointsOK
    <2>4. \A e, f \in endpoints' : e.live /\ f.live /\ e.tenant = f.tenant => e = f
      BY <1>4, <2>2 DEF EndpointsOK
    <2>5. \A q \in Request : pc'[q] = "commitEndpoint" =>
            \A e \in endpoints' : ~(e.live /\ e.tenant = in[q].tenant)
      BY <1>4, <2>1, <2>2 DEF EndpointsOK, Target
    <2>6. \A q, s \in Request : pc'[q] = "commitEndpoint" /\ pc'[s] = "commitEndpoint"
                                /\ in[q].tenant = in[s].tenant => q = s
      BY <1>4, <2>1 DEF EndpointsOK, Target
    <2> QED
      BY <1>1, <2>3, <2>4, <2>5, <2>6 DEF EndpointsOK, Target
  <1>12. Fits(r)'
    BY <1>2 DEF Fits, SignInLabels, OnboardLabels, EndpointLabels, Begun, Changing
  <1>13. Refers(r)'
    BY <1>2 DEF Refers, SignInLabels, OnboardLabels, EndpointLabels, Changing
  <1>14. Leaves(r)'
    BY <1>1, <1>2, <1>3 DEF Leaves
  <1> QED
    BY <1>1, <1>2, <1>8, <1>9, <1>10, <1>11, <1>12, <1>13, <1>14, WriteStep

-----------------------------------------------------------------------------

LEMMA OInvInit == Init => OInv
  <1> SUFFICES ASSUME Init PROVE OInv
    OBVIOUS
  <1>1. PICK s \in Slug, e \in Email, to \in Email, role \in Role :
          /\ users = {[id |-> Seed, email |-> e, password |-> TRUE, sub |-> NoOne]}
          /\ tenants = {[id |-> Seed, slug |-> s, suspended |-> FALSE]}
          /\ invites = {[id |-> Seed, tenant |-> Seed, email |-> toLowerCase[to],
                         role |-> role, accepted |-> FALSE]}
    BY Zenon DEF Init
  <1>2. /\ memberships = {[user |-> Seed, tenant |-> Seed, role |-> Owner]}
        /\ endpoints = {} /\ audit = <<>> /\ faults = 0
        /\ \A r \in Request : pc[r] = "idle" /\ user[r] = NoOne
    BY DEF Init
  <1>3. Ids(users) = {Seed} /\ Ids(tenants) = {Seed}
    BY <1>1 DEF Ids
  <1>4. TypeOK
    <2>1. users \subseteq User /\ tenants \subseteq Tenant /\ invites \subseteq Invite
      BY <1>1, EmailAssumption DEF User, Tenant, Invite, Id
    <2>2. memberships \subseteq Membership
      BY <1>2, RoleAssumption DEF Membership, Id
    <2>3. endpoints \subseteq WebhookEndpoint /\ audit \in Seq(AdminAuditLog)
      BY <1>2
    <2>4. \A table \in {users, tenants, invites, endpoints} :
            \A a, b \in table : a.id = b.id => a = b
      BY <1>1, <1>2, PrimaryKeys
    <2>5. /\ \A m \in memberships : m.user \in Ids(users)
          /\ \A row \in memberships \cup invites \cup endpoints : row.tenant \in Ids(tenants)
      <3>1. \A m \in memberships : m.user = Seed /\ m.tenant = Seed
        BY <1>2
      <3>2. \A i \in invites : i.tenant = Seed
        BY <1>1
      <3> QED
        BY <1>2, <1>3, <3>1, <3>2
    <2>6. faults \in 0..MaxFaults
      BY <1>2, BoundAssumption
    <2> QED
      BY <1>2, <2>1, <2>2, <2>3, <2>4, <2>5, <2>6 DEF TypeOK
  <1>5. TenantsOK
    BY <1>1, <1>2, IdAssumption DEF TenantsOK, Open
  <1>6. EndpointsOK
    BY <1>2 DEF EndpointsOK
  <1>7. AuditOK
    <2>1. AuditTells
      BY <1>1, <1>2 DEF AuditTells
    <2> QED
      BY <1>2, <2>1 DEF AuditOK, Begun, Changing
  <1>8. \A r \in Request : Fits(r) /\ Refers(r) /\ Leaves(r)
    BY <1>2 DEF Fits, Refers, Leaves, SignInLabels, OnboardLabels, EndpointLabels, Begun, Changing
  <1> QED
    BY <1>4, <1>5, <1>6, <1>7, <1>8 DEF OInv

LEMMA OInvNext == AInv /\ OInv /\ [Next]_vars => OInv'
  <1> SUFFICES ASSUME AInv, OInv, [Next]_vars PROVE OInv'
    OBVIOUS
  <1>1. AInv'
    BY AInvNext
  <1>2. CASE UNCHANGED vars
    <2>1. /\ users' = users /\ tenants' = tenants /\ memberships' = memberships
          /\ invites' = invites /\ endpoints' = endpoints /\ audit' = audit /\ pc' = pc
          /\ in' = in /\ user' = user /\ faults' = faults /\ overlapped' = overlapped
      BY <1>2 DEF vars, tables, history
    <2>2. TypeOK'
      BY <2>1, TypeQuiet DEF OInv, TypeOK, Quiet
    <2>3. TenantsOK'
      BY <2>1 DEF OInv, TenantsOK, Open
    <2>4. EndpointsOK'
      BY <2>1 DEF OInv, EndpointsOK, Target
    <2>5. AuditOK'
      BY <2>1 DEF OInv, AuditOK, AuditTells, LastChange, Target
    <2>6. ASSUME NEW q \in Request PROVE Fits(q)' /\ Refers(q)' /\ Leaves(q)'
      <3>1. Fits(q) /\ Refers(q) /\ Leaves(q)
        BY DEF OInv
      <3>2. Removed(q)' <=> Removed(q)
        BY <2>1 DEF Removed
      <3>3. Entry(q)' = Entry(q) /\ Target(q)' = Target(q)
        BY <2>1 DEF Entry, Target
      <3> QED
        BY <2>1, <3>1, <3>2, <3>3 DEF Fits, Refers, Leaves
    <2> QED
      BY <2>2, <2>3, <2>4, <2>5, <2>6 DEF OInv
  <1>3. ASSUME NEW r \in Request, Step(r) PROVE OInv'
    BY <1>1, <1>3, OInvArrive, OInvSignIn, OInvCreateUser, OInvLinkProvider, OInvSession,
       OInvInsertTenant, OInvInsertOwner, OInvCommitTenant, OInvInsertInvite, OInvReads,
       OInvJoin, OInvMark, OInvBeginChange, OInvFindTenant, OInvStatus, OInvCommitChange, OInvRecordView,
       OInvEndpointReads, OInvCommitEndpoint, OInvCommitRemoval, OInvFail DEF Step
  <1>4. CASE Done
    BY <1>2, <1>4 DEF Done
  <1> QED
    BY <1>2, <1>3, <1>4 DEF Next

\* The two inductive invariants of accounts, tenants, invites, administration and
\* endpoints hold in every reachable state.
THEOREM TenancyInvariance == Spec => [](AInv /\ OInv)
  <1>1. Init => AInv /\ OInv
    BY AInvInit, OInvInit
  <1>2. AInv /\ OInv /\ [Next]_vars => AInv' /\ OInv'
    BY AInvNext, OInvNext
  <1> QED
    BY <1>1, <1>2, PTL DEF Spec

\* Tables keep their types, primary keys and foreign keys, for any number of
\* concurrent requests and failing statements.
THEOREM TenancyTypeCorrect == Spec => []TypeOK
  <1>1. OInv => TypeOK
    BY DEF OInv
  <1> QED
    BY <1>1, TenancyInvariance, PTL

\* The audit log tells why a tenant is suspended, and its status where no two
\* changes overlapped, whichever statements fail (AdminService.changeStatus).
THEOREM TenancyAuditTells == Spec => []AuditTells
  <1>1. OInv => AuditTells
    BY DEF OInv, AuditOK
  <1> QED
    BY <1>1, TenancyInvariance, PTL

\* Every tenant has an owner, a slug of its own and at most one live endpoint, and
\* a success has left what it was for (onboard, accept, getTenantDetail, and the
\* creation of an endpoint against concurrent ones and removals).
THEOREM TenancyAnswersHold == Spec => []AnswersHold
  <1>1. ASSUME AInv, OInv PROVE AnswersHold
    <2>1. ASSUME NEW t \in tenants
          PROVE  /\ \E m \in memberships : m.tenant = t.id /\ m.role = Owner
                 /\ \A e, f \in LiveEndpoints(t.id) : e = f
                 /\ \A other \in tenants : other.slug = t.slug => other = t
      BY <1>1 DEF OInv, TenantsOK, EndpointsOK, LiveEndpoints
    <2>2. ASSUME NEW r \in Request, pc[r] = "ok"
          PROVE  /\ in[r].kind = "onboard" =>
                      [user |-> in[r].user, tenant |-> r, role |-> Owner] \in memberships
                 /\ in[r].kind = "accept" =>
                      \E m \in memberships :
                          m.user = in[r].user /\ m.tenant = Row(invites, in[r].token).tenant
                 /\ in[r].kind = "view" => \E k \in DOMAIN audit : audit[k] = Entry(r)
                 /\ in[r].kind = "endpoint" =>
                      \/ \E e \in LiveEndpoints(in[r].tenant) : e.id = r
                      \/ \E q \in Request :
                           pc[q] = "ok" /\ in[q].kind = "remove" /\ in[q].endpoint = r
      <3>1. Leaves(r)
        BY <1>1 DEF OInv
      <3>2. ASSUME in[r].kind = "accept"
            PROVE  \E m \in memberships :
                     m.user = in[r].user /\ m.tenant = Row(invites, in[r].token).tenant
        <4>1. PICK i \in invites, m \in memberships :
                i.id = in[r].token /\ m.user = in[r].user /\ m.tenant = i.tenant
          BY <2>2, <3>1, <3>2 DEF Leaves
        <4>2. Row(invites, in[r].token) = i
          BY <1>1, <4>1 DEF Row, AInv, InvitesOK
        <4> QED
          BY <4>1, <4>2
      <3>3. in[r].kind = "endpoint" =>
              \/ \E e \in LiveEndpoints(in[r].tenant) : e.id = r
              \/ \E q \in Request : pc[q] = "ok" /\ in[q].kind = "remove" /\ in[q].endpoint = r
        BY <2>2, <3>1 DEF Leaves, LiveEndpoints, Removed, Target
      <3> QED
        BY <2>2, <3>1, <3>2, <3>3 DEF Leaves
    <2> QED
      BY <2>1, <2>2 DEF AnswersHold
  <1>2. AInv /\ OInv => AnswersHold
    BY <1>1
  <1> QED
    BY <1>2, TenancyInvariance, PTL
=============================================================================
