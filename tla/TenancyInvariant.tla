-------------------------- MODULE TenancyInvariant --------------------------
(***************************************************************************)
(* The inductive invariants of Tenancy, in named parts.  AInv is about      *)
(* accounts and invites, OInv about tenants, endpoints, the audit log and   *)
(* what an answer has left behind.                                          *)
(***************************************************************************)
EXTENDS TenancyProperties

Shape ==
    /\ pc = [r \in Request |-> pc[r]]
    /\ in = [r \in Request |-> in[r]]
    /\ user = [r \in Request |-> user[r]]

\* The Google account has come with the address, verified.
Came(s, e) ==
    \E q \in Request : /\ pc[q] # "idle" /\ in[q].kind = "google" /\ in[q].sub = s
                       /\ in[q].verified /\ in[q].email = e

\* The unique indexes on users, and which requests have inserted their row; a
\* linked account has an address its Google account has come with.
UsersOK ==
    /\ \A u \in users :
         u = [id |-> u.id, email |-> u.email, password |-> u.password, sub |-> u.sub]
    /\ \A u, v \in users : u.id = v.id \/ u.email = v.email => u = v
    /\ \A u, v \in users : u.sub = v.sub /\ u.sub # NoOne => u = v
    /\ \A u \in users : u.sub # NoOne => Came(u.sub, u.email)
    /\ \A u \in users : u.id \in Request => pc[u.id] \in {"session", "ok", "error"}

InvitesOK ==
    /\ \A i \in invites :
         i = [id |-> i.id, tenant |-> i.tenant, email |-> i.email, role |-> i.role,
              accepted |-> i.accepted]
    /\ \A i, j \in invites : i.id = j.id => i = j
    /\ \A i \in invites : i.id \in Request => pc[i.id] \in {"inviteTenant", "ok", "error"}

\* The account of a sign-in with address e, by Google account s if it is one:
\* the address is right, and the link is there unless it was replaced.
Owned(id, e, s) ==
    \E u \in users :
        /\ u.id = id
        /\ u.email = e \/ Came(s, u.email)
        /\ s \in {NoOne} \cup displaced \/ u.sub = s

\* A session was begun for the account of its sign-in.
Known == \A a \in signed : Owned(a.user, a.email, a.sub)

Google(r) == in[r].kind = "google" /\ in[r].sub \in Sub
Verified(r) == Google(r) /\ in[r].verified

\* The account a sign-in is about to link has the address it was asked for.
Resolved(r) == \E u \in users : u.id = user[r] /\ u.email = in[r].email

\* An acceptance under way is for an invite to the address of its account.
Joining(r) ==
    \E i \in invites, u \in users :
        /\ i.id = in[r].token /\ u.id = in[r].user /\ i.email = toLowerCase[u.email]
        /\ pc[r] = "mark" => [user |-> u.id, tenant |-> i.tenant, role |-> i.role] \in memberships

RequestOK(r) ==
    /\ pc[r] = "byAccount" => Google(r)
    /\ pc[r] \in {"googleEmail", "link"} => Verified(r)
    /\ pc[r] = "byEmail" => in[r].kind = "register"
    /\ pc[r] = "login" => in[r].kind = "login"
    /\ pc[r] \in {"insertTenant", "insertOwner", "commitTenant"} => in[r].kind = "onboard"
    /\ pc[r] = "createUser" => in[r].kind = "register" \/ Verified(r)
    /\ pc[r] = "link" => Resolved(r)
    /\ pc[r] = "session" /\ in[r].kind # "onboard" =>
         Owned(user[r], in[r].email, GoogleAccount(r))
    /\ pc[r] = "findInvite" => in[r].user \in Ids(users)
    /\ pc[r] \in {"join", "mark"} => Joining(r)

AInv ==
    /\ Shape /\ UsersOK /\ InvitesOK /\ Known /\ InviteNotWasted
    /\ \A r \in Request : RequestOK(r)

-----------------------------------------------------------------------------
(* Tenants, endpoints, the audit log. *)

\* An onboarding that has inserted its tenant and not committed it.
Open(r) == pc[r] \in {"insertOwner", "commitTenant"}

TenantsOK ==
    /\ \A t \in tenants : \E m \in memberships : m.tenant = t.id /\ m.role = Owner
    /\ \A t, s \in tenants : t.slug = s.slug => t = s
    /\ \A t \in tenants : t.id \in Request => pc[t.id] \in {"session", "ok", "error"}
    /\ \A r \in Request : Open(r) => \A t \in tenants : t.slug # in[r].slug
    /\ \A q, r \in Request : Open(q) /\ Open(r) /\ in[q].slug = in[r].slug => q = r

\* The partial unique index: one live row of a tenant, committed or not.
EndpointsOK ==
    /\ \A e \in endpoints : e.id \in Request /\ pc[e.id] = "ok"
    /\ \A e, f \in endpoints : e.live /\ f.live /\ e.tenant = f.tenant => e = f
    /\ \A r \in Request : pc[r] = "commitEndpoint" =>
         \A e \in endpoints : ~(e.live /\ e.tenant = Target(r))
    /\ \A q, r \in Request :
         pc[q] = "commitEndpoint" /\ pc[r] = "commitEndpoint" /\ Target(q) = Target(r) => q = r

\* A change that found its status in place can rely on it, unless another
\* change of the same tenant is under way.
AuditOK ==
    /\ \A k \in DOMAIN audit : audit[k].tenant \in Ids(tenants)
    /\ \A q, r \in Request :
         q # r /\ pc[q] \in Begun /\ pc[r] \in Begun /\ Target(q) = Target(r)
           => Target(r) \in overlapped
    /\ \A r \in Request : pc[r] \in {"auditSame", "commitSame"} /\ Target(r) \notin overlapped =>
         \A t \in tenants : t.id = Target(r) => (t.suspended <=> in[r].kind = "suspend")
    /\ AuditTells

SignIn == {"register", "login", "google"}
SignInLabels == {"byEmail", "createUser", "login", "byAccount", "googleEmail", "link"}
OnboardLabels == {"insertTenant", "insertOwner", "commitTenant"}
EndpointLabels == {"findActive", "createOne", "commitEndpoint"}

\* What a request does is a step of what it was asked for.
Fits(r) ==
    /\ pc[r] \in SignInLabels => in[r].kind \in SignIn
    /\ pc[r] = "session" => in[r].kind \in SignIn \cup {"onboard"}
    /\ pc[r] \in OnboardLabels => in[r].kind = "onboard"
    /\ pc[r] \in {"insertInvite", "inviteTenant"} => in[r].kind = "invite"
    /\ pc[r] \in {"findInvite", "join", "mark"} => in[r].kind = "accept"
    /\ pc[r] \in {"beginChange"} \cup Begun => in[r].kind \in Change
    /\ pc[r] \in {"viewTenant", "auditView", "readTenant"} => in[r].kind = "view"
    /\ pc[r] \in EndpointLabels => in[r].kind = "endpoint"
    /\ pc[r] \in {"softDelete", "commitRemoval"} => in[r].kind = "remove"

\* What a request is going to write refers to rows that are there.
Refers(r) ==
    /\ pc[r] \in SignInLabels => in[r].email \in Email
    /\ pc[r] \in OnboardLabels => in[r].slug \in Slug /\ in[r].user \in Ids(users)
    /\ pc[r] = "insertInvite" =>
         in[r].email \in Email /\ in[r].role \in Role /\ Target(r) \in Ids(tenants)
    /\ pc[r] \in Changing \cup {"auditView"} \cup EndpointLabels => Target(r) \in Ids(tenants)

\* The endpoint has been removed by a request that was told so.
Removed(id) == \E q \in Request : pc[q] = "ok" /\ in[q].kind = "remove" /\ in[q].endpoint = id

\* What a request has left behind when it answers.
Leaves(r) ==
    /\ pc[r] \in {"session", "ok"} /\ in[r].kind = "onboard" =>
         [user |-> in[r].user, tenant |-> r, role |-> Owner] \in memberships
    /\ pc[r] = "ok" /\ in[r].kind = "accept" =>
         \E i \in invites, m \in memberships :
             i.id = in[r].token /\ m.user = in[r].user /\ m.tenant = i.tenant
    /\ pc[r] \in {"readTenant", "ok"} /\ in[r].kind = "view" =>
         \E k \in DOMAIN audit : audit[k] = Entry(r)
    /\ pc[r] = "ok" /\ in[r].kind = "endpoint" =>
         \E e \in endpoints : e.id = r /\ e.tenant = Target(r) /\ (e.live \/ Removed(r))

OInv ==
    /\ TypeOK /\ TenantsOK /\ EndpointsOK /\ AuditOK
    /\ \A r \in Request : Fits(r) /\ Refers(r) /\ Leaves(r)
=============================================================================
