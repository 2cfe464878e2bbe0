------------------------------- MODULE Tenancy -------------------------------
(***************************************************************************)
(* Accounts, tenants, memberships, invites, the administration of tenants   *)
(* and their webhook endpoint.  Requests run concurrently against one       *)
(* database; every statement is a step of its own.  Statements of register, *)
(* Google sign-in, invites and the audit of a view commit one by one;       *)
(* onboarding, a change of status and the endpoint's requests run in a      *)
(* transaction, whose writes show at its commit.  A row is identified by    *)
(* the request that inserted it, a row of the seeds by Seed.                *)
(*                                                                         *)
(* External: PostgreSQL, whose unique indexes refuse a second row with the  *)
(* same key and make an insert wait for a transaction that has written the  *)
(* key and is still open; TypeORM's save, which reads the row again and     *)
(* writes it only when it differs.  The tokens a session is made of are the *)
(* subject of Session, the tenant transaction of the endpoint's requests    *)
(* that of TenantTx.                                                        *)
(***************************************************************************)
EXTENDS Integers, Sequences

CONSTANTS
    Request,
    Email, toLowerCase,     \* spellings of addresses, and their lower case
    Sub,                    \* Google accounts, by their stable id
    Slug, Role, Owner,
    Seed, NoOne,
    MaxFaults               \* bound: statements that fail

ASSUME EmailAssumption ==
    /\ toLowerCase \in [Email -> Email]
    /\ \A e \in Email : toLowerCase[toLowerCase[e]] = toLowerCase[e]
ASSUME RoleAssumption == Owner \in Role
ASSUME IdAssumption == Seed \notin Request /\ NoOne \notin Request \cup {Seed} \cup Sub
ASSUME BoundAssumption == MaxFaults \in Nat

VARIABLES
    users, tenants, memberships, invites, endpoints,
    audit,          \* admin_audit_log, in the order of commits
    pc, in,         \* what each request does next, and what it was asked
    user,           \* the account a sign-in has resolved to
    faults,
    signed,         \* history: [email, sub, user] of every session begun by a sign-in
    displaced,      \* history: Google accounts whose account was linked to another
    overlapped      \* history: tenants two changes of status overlapped on

tables == <<users, tenants, memberships, invites, endpoints, audit>>
history == <<signed, displaced, overlapped>>
vars == <<tables, pc, in, user, faults, history>>

Id == Request \cup {Seed}
Answers == {"ok", "refused", "error"}
Change == {"suspend", "reactivate"}
Ids(rows) == {row.id : row \in rows}

\* A Google account comes with any address: it may have changed since it came last.
Inputs ==
    [kind: {"register", "login"}, email: Email]
    \cup [kind: {"google"}, sub: Sub, email: Email, verified: BOOLEAN]
    \cup [kind: {"onboard"}, user: Ids(users), slug: Slug]
    \cup [kind: {"invite"}, tenant: Ids(tenants), email: Email, role: Role]
    \cup [kind: {"accept"}, user: Ids(users), token: Ids(invites) \cup {NoOne}]
    \cup [kind: Change \cup {"view"}, tenant: Ids(tenants) \cup {NoOne}]
    \cup [kind: {"endpoint"}, tenant: Ids(tenants)]
    \cup [kind: {"remove"}, tenant: Ids(tenants), endpoint: Ids(endpoints) \cup {NoOne}]

\* Rows of the tables.  sub is the account at the provider, password whether a
\* hash is stored; an endpoint that is not live was soft-deleted.
User == [id: Id, email: Email, password: BOOLEAN, sub: Sub \cup {NoOne}]
Tenant == [id: Id, slug: Slug, suspended: BOOLEAN]
Membership == [user: Id, tenant: Id, role: Role]
Invite == [id: Id, tenant: Id, email: Email, role: Role, accepted: BOOLEAN]
WebhookEndpoint == [id: Id, tenant: Id, live: BOOLEAN]
AdminAuditLog == [by: Request, action: Change \cup {"view"}, tenant: Id]

\* Foreign keys and primary keys are kept too.
TypeOK ==
    /\ users \subseteq User /\ tenants \subseteq Tenant /\ memberships \subseteq Membership
    /\ invites \subseteq Invite /\ endpoints \subseteq WebhookEndpoint
    /\ audit \in Seq(AdminAuditLog)
    /\ \A m \in memberships : m.user \in Ids(users)
    /\ \A row \in memberships \cup invites \cup endpoints : row.tenant \in Ids(tenants)
    /\ \A table \in {users, tenants, invites, endpoints} :
         \A a, b \in table : a.id = b.id => a = b
    /\ \A r \in Request : user[r] \in Ids(users) \cup {NoOne}
    /\ faults \in 0..MaxFaults

\* What the seeds leave: a tenant and its owner; and an invite to any address.
Init ==
    /\ \E s \in Slug, e, to \in Email, role \in Role :
         /\ users = {[id |-> Seed, email |-> e, password |-> TRUE, sub |-> NoOne]}
         /\ tenants = {[id |-> Seed, slug |-> s, suspended |-> FALSE]}
         /\ invites = {[id |-> Seed, tenant |-> Seed, email |-> toLowerCase[to],
                        role |-> role, accepted |-> FALSE]}
    /\ memberships = {[user |-> Seed, tenant |-> Seed, role |-> Owner]}
    /\ endpoints = {} /\ audit = <<>>
    /\ pc = [r \in Request |-> "idle"] /\ in = [r \in Request |-> NoOne]
    /\ user = [r \in Request |-> NoOne]
    /\ faults = 0 /\ signed = {} /\ displaced = {} /\ overlapped = {}

Goto(r, p) == pc' = [pc EXCEPT ![r] = p]
Resolve(r, u) == user' = [user EXCEPT ![r] = u]

Row(rows, id) == CHOOSE row \in rows : row.id = id
Others(r, labels) == {q \in Request \ {r} : pc[q] \in labels}

FirstStep(kind) ==
    CASE kind = "register" -> "byEmail"   [] kind = "login" -> "login"
      [] kind = "google" -> "byAccount"   [] kind = "onboard" -> "insertTenant"
      [] kind = "invite" -> "insertInvite" [] kind = "accept" -> "findInvite"
      [] kind \in Change -> "beginChange" [] kind = "view" -> "viewTenant"
      [] kind = "endpoint" -> "findActive" [] kind = "remove" -> "softDelete"

\* Requests with the token of a tenant are turned away while it is suspended.
TurnedAway(i) ==
    /\ i.kind \in {"invite", "endpoint", "remove"}
    /\ Row(tenants, i.tenant).suspended

Arrive(r) ==
    /\ pc[r] = "idle"
    /\ \E i \in Inputs :
         /\ in' = [in EXCEPT ![r] = i]
         /\ Goto(r, IF TurnedAway(i) THEN "refused" ELSE FirstStep(i.kind))
    /\ UNCHANGED <<tables, user, faults, history>>

-----------------------------------------------------------------------------
(* Sign-in: password accounts and Google accounts. *)

WithEmail(e) == {u \in users : u.email = e}
WithAccount(s) == {u \in users : u.sub = s}
GoogleAccount(r) == IF in[r].kind = "google" THEN in[r].sub ELSE NoOne

\* register's findByEmail, and the hash of the password.
FindByEmail(r) ==
    /\ pc[r] = "byEmail"
    /\ Goto(r, IF WithEmail(in[r].email) # {} THEN "refused" ELSE "createUser")
    /\ UNCHANGED <<tables, in, user, faults, history>>

\* Mutant: no unique index on the email.
CreateUserTwice(r) ==
    /\ pc[r] = "createUser"
    /\ users' = users \cup {[id |-> r, email |-> in[r].email, sub |-> NoOne,
                             password |-> in[r].kind = "register"]}
    /\ Resolve(r, r)
    /\ Goto(r, "session")
    /\ UNCHANGED <<tenants, memberships, invites, endpoints, audit, in, faults, history>>

\* The insert of an account: the unique indexes on the email and on the
\* provider's account refuse a second one, and no handler maps that error.
CreateUser(r) ==
    LET sub == GoogleAccount(r)
    IN  /\ pc[r] = "createUser"
        /\ \/ /\ WithEmail(in[r].email) # {} \/ (sub # NoOne /\ WithAccount(sub) # {})
              /\ Goto(r, "error")
              /\ UNCHANGED <<users, user>>
           \/ /\ WithEmail(in[r].email) = {} /\ (sub = NoOne \/ WithAccount(sub) = {})
              /\ users' = users \cup {[id |-> r, email |-> in[r].email,
                                       password |-> in[r].kind = "register", sub |-> sub]}
              /\ Resolve(r, r)
              /\ Goto(r, "session")
        /\ UNCHANGED <<tenants, memberships, invites, endpoints, audit, in, faults, history>>

\* Accounts without a password hash cannot log in; a wrong password neither.
Login(r) ==
    /\ pc[r] = "login"
    /\ \/ Goto(r, "refused") /\ UNCHANGED user
       \/ \E u \in WithEmail(in[r].email) :
            u.password /\ Resolve(r, u.id) /\ Goto(r, "session")
    /\ UNCHANGED <<tables, in, faults, history>>

\* resolveGoogleUser: the account that is linked already, if the email is
\* verified, and whatever it is.
FindByProviderAccount(r) ==
    /\ pc[r] = "byAccount"
    /\ \/ ~in[r].verified /\ Goto(r, "refused") /\ UNCHANGED user
       \/ /\ in[r].verified /\ WithAccount(in[r].sub) = {}
          /\ Goto(r, "googleEmail") /\ UNCHANGED user
       \/ /\ in[r].verified
          /\ \E u \in WithAccount(in[r].sub) : Resolve(r, u.id)
          /\ Goto(r, "session")
    /\ UNCHANGED <<tables, in, faults, history>>

\* Else the account of the same email is linked, or one is created.
FindGoogleEmail(r) ==
    /\ pc[r] = "googleEmail"
    /\ \/ WithEmail(in[r].email) = {} /\ Goto(r, "createUser") /\ UNCHANGED user
       \/ /\ \E u \in WithEmail(in[r].email) : Resolve(r, u.id)
          /\ Goto(r, "link")
    /\ UNCHANGED <<tables, in, faults, history>>

\* The link replaces one to another Google account.  The unique index on the
\* provider's account may refuse it.
LinkProvider(r) ==
    LET taken == \E u \in WithAccount(in[r].sub) : u.id # user[r]
        linked == {IF u.id = user[r] THEN [u EXCEPT !.sub = in[r].sub] ELSE u : u \in users}
    IN  /\ pc[r] = "link"
        /\ users' = IF taken THEN users ELSE linked
        /\ displaced' = IF taken THEN displaced ELSE displaced \cup
             ({u.sub : u \in {v \in users : v.id = user[r]}} \ {NoOne, in[r].sub})
        /\ Goto(r, IF taken THEN "error" ELSE "session")
        /\ UNCHANGED <<tenants, memberships, invites, endpoints, audit, in, user, faults,
                       signed, overlapped>>

\* issueSession ends a sign-in, and onboarding.
IssueSession(r) ==
    /\ pc[r] = "session"
    /\ signed' = IF in[r].kind = "onboard" THEN signed
                 ELSE signed \cup {[email |-> in[r].email, sub |-> GoogleAccount(r),
                                      user |-> user[r]]}
    /\ Goto(r, "ok")
    /\ UNCHANGED <<tables, in, user, faults, displaced, overlapped>>

-----------------------------------------------------------------------------
(* onboard: the tenant and its owner in one transaction. *)

\* Mutant: the tenant is saved outside the transaction.
InsertTenantAlone(r) ==
    /\ pc[r] = "insertTenant"
    /\ tenants' = tenants \cup {[id |-> r, slug |-> in[r].slug, suspended |-> FALSE]}
    /\ Goto(r, "insertOwner")
    /\ UNCHANGED <<users, memberships, invites, endpoints, audit, in, user, faults, history>>

InsertTenant(r) ==
    /\ pc[r] = "insertTenant"
    /\ \A q \in Others(r, {"insertOwner", "commitTenant"}) : in[q].slug # in[r].slug
    /\ Goto(r, IF \E t \in tenants : t.slug = in[r].slug THEN "refused" ELSE "insertOwner")
    /\ UNCHANGED <<tables, in, user, faults, history>>

InsertOwner(r) ==
    /\ pc[r] = "insertOwner"
    /\ Goto(r, "commitTenant")
    /\ UNCHANGED <<tables, in, user, faults, history>>

\* Mutant: the tenant was saved on another connection and is not committed.
CommitTenantHalf(r) ==
    /\ pc[r] = "commitTenant"
    /\ memberships' = memberships \cup {[user |-> in[r].user, tenant |-> r, role |-> Owner]}
    /\ Resolve(r, in[r].user)
    /\ Goto(r, "session")
    /\ UNCHANGED <<users, tenants, invites, endpoints, audit, in, faults, history>>

CommitTenant(r) ==
    /\ pc[r] = "commitTenant"
    /\ tenants' = tenants \cup {[id |-> r, slug |-> in[r].slug, suspended |-> FALSE]}
    /\ memberships' = memberships \cup {[user |-> in[r].user, tenant |-> r, role |-> Owner]}
    /\ Resolve(r, in[r].user)
    /\ Goto(r, "session")
    /\ UNCHANGED <<users, invites, endpoints, audit, in, faults, history>>

-----------------------------------------------------------------------------
(* Invites. *)

InsertInvite(r) ==
    /\ pc[r] = "insertInvite"
    /\ invites' = invites \cup {[id |-> r, tenant |-> in[r].tenant, role |-> in[r].role,
                                 email |-> toLowerCase[in[r].email],
                                 accepted |-> FALSE]}
    /\ Goto(r, "inviteTenant")
    /\ UNCHANGED <<users, tenants, memberships, endpoints, audit, in, user, faults, history>>

\* getById for the email; the email itself is best effort.
InviteTenant(r) ==
    /\ pc[r] = "inviteTenant"
    /\ Goto(r, "ok")
    /\ UNCHANGED <<tables, in, user, faults, history>>

\* Mutant: the invite is claimed before the membership is created.
FindInviteClaiming(r) ==
    /\ pc[r] = "findInvite"
    /\ \E i \in invites :
         /\ i.id = in[r].token /\ ~i.accepted
         /\ i.email = toLowerCase[Row(users, in[r].user).email]
         /\ invites' = (invites \ {i}) \cup {[i EXCEPT !.accepted = TRUE]}
    /\ Goto(r, "join")
    /\ UNCHANGED <<users, tenants, memberships, endpoints, audit, in, user, faults, history>>

\* The invite is unknown, used, expired (at any time: the clock is not
\* modelled) or issued to somebody else; or it is good.
FindInvite(r) ==
    /\ pc[r] = "findInvite"
    /\ \/ Goto(r, "refused")
       \/ /\ \E i \in invites :
               /\ i.id = in[r].token /\ ~i.accepted
               /\ i.email = toLowerCase[Row(users, in[r].user).email]
          /\ Goto(r, "join")
    /\ UNCHANGED <<tables, in, user, faults, history>>

\* memberships.create, whose unique index is mapped to a conflict.
Join(r) ==
    LET i == Row(invites, in[r].token)
    IN  /\ pc[r] = "join"
        /\ \/ /\ \E m \in memberships : m.user = in[r].user /\ m.tenant = i.tenant
              /\ Goto(r, "refused")
              /\ UNCHANGED memberships
           \/ /\ \A m \in memberships : m.user # in[r].user \/ m.tenant # i.tenant
              /\ memberships' = memberships \cup
                   {[user |-> in[r].user, tenant |-> i.tenant, role |-> i.role]}
              /\ Goto(r, "mark")
        /\ UNCHANGED <<users, tenants, invites, endpoints, audit, in, user, faults, history>>

\* Whether the update found the invite still pending is not looked at.
MarkAcceptedIfPending(r) ==
    /\ pc[r] = "mark"
    /\ invites' = {IF i.id = in[r].token THEN [i EXCEPT !.accepted = TRUE] ELSE i : i \in invites}
    /\ Goto(r, "ok")
    /\ UNCHANGED <<users, tenants, memberships, endpoints, audit, in, user, faults, history>>

-----------------------------------------------------------------------------
(* Administration: the status of a tenant, and a look at one. *)

Target(r) == in[r].tenant
Changing == {"saveStatus", "updateStatus", "auditSame", "auditChanged", "commitSame", "commitChanged"}
RowLocked == {"auditChanged", "commitChanged"}

\* From BEGIN to COMMIT.
Begun == {"findTenant"} \cup Changing

\* BEGIN, whose time becomes the created_at of the entry: entries of changes
\* that do not overlap are in the order of their commits.
BeginChange(r) ==
    /\ pc[r] = "beginChange"
    /\ Goto(r, "findTenant")
    /\ overlapped' = IF \E q \in Others(r, Begun) : Target(q) = Target(r)
                     THEN overlapped \cup {Target(r)} ELSE overlapped
    /\ UNCHANGED <<tables, in, user, faults, signed, displaced>>

FindTenant(r) ==
    /\ pc[r] = "findTenant"
    /\ Goto(r, IF Target(r) \in Ids(tenants) THEN "saveStatus" ELSE "refused")
    /\ UNCHANGED <<tables, in, user, faults, history>>

\* save reads the committed row; a status that is already there is not written.
SaveStatus(r) ==
    /\ pc[r] = "saveStatus"
    /\ Goto(r, IF Row(tenants, Target(r)).suspended = (in[r].kind = "suspend")
               THEN "auditSame" ELSE "updateStatus")
    /\ UNCHANGED <<tables, in, user, faults, history>>

\* Mutant: the status is saved outside the transaction of the audit entry.
UpdateStatusAlone(r) ==
    /\ pc[r] = "updateStatus"
    /\ tenants' = {IF t.id = Target(r) THEN [t EXCEPT !.suspended = ~t.suspended] ELSE t :
                     t \in tenants}
    /\ Goto(r, "auditSame")
    /\ UNCHANGED <<users, memberships, invites, endpoints, audit, in, user, faults, history>>

\* The UPDATE waits for a transaction that holds the row.
UpdateStatus(r) ==
    /\ pc[r] = "updateStatus"
    /\ \A q \in Others(r, RowLocked) : Target(q) # Target(r)
    /\ Goto(r, "auditChanged")
    /\ UNCHANGED <<tables, in, user, faults, history>>

AuditChange(r) ==
    /\ pc[r] \in {"auditSame", "auditChanged"}
    /\ Goto(r, IF pc[r] = "auditSame" THEN "commitSame" ELSE "commitChanged")
    /\ UNCHANGED <<tables, in, user, faults, history>>

Entry(r) == [by |-> r, action |-> in[r].kind, tenant |-> Target(r)]
WithStatus(r) ==
    {IF t.id = Target(r) THEN [t EXCEPT !.suspended = (in[r].kind = "suspend")] ELSE t :
       t \in tenants}

CommitChange(r) ==
    /\ pc[r] \in {"commitSame", "commitChanged"}
    /\ tenants' = IF pc[r] = "commitSame" THEN tenants ELSE WithStatus(r)
    /\ audit' = Append(audit, Entry(r))
    /\ Goto(r, "ok")
    /\ UNCHANGED <<users, memberships, invites, endpoints, in, user, faults, history>>

ViewTenant(r) ==
    /\ pc[r] = "viewTenant"
    /\ Goto(r, IF Target(r) \in Ids(tenants) THEN "auditView" ELSE "refused")
    /\ UNCHANGED <<tables, in, user, faults, history>>

\* The access is recorded before the tenant's data is read.
RecordView(r) ==
    /\ pc[r] = "auditView"
    /\ audit' = Append(audit, Entry(r))
    /\ Goto(r, "readTenant")
    /\ UNCHANGED <<users, tenants, memberships, invites, endpoints, in, user, faults, history>>

ReadTenant(r) ==
    /\ pc[r] = "readTenant"
    /\ Goto(r, "ok")
    /\ UNCHANGED <<tables, in, user, faults, history>>

-----------------------------------------------------------------------------
(* The tenant's webhook endpoint, in the transaction of the request. *)

LiveEndpoints(t) == {e \in endpoints : e.tenant = t /\ e.live}

FindActive(r) ==
    /\ pc[r] = "findActive"
    /\ Goto(r, IF LiveEndpoints(in[r].tenant) # {} THEN "refused" ELSE "createOne")
    /\ UNCHANGED <<tables, in, user, faults, history>>

\* The partial unique index is the backstop: the insert waits for a
\* transaction that has written a live row of the tenant.
CreateOne(r) ==
    /\ pc[r] = "createOne"
    /\ \A q \in Others(r, {"commitEndpoint", "commitRemoval"}) : in[q].tenant # in[r].tenant
    /\ Goto(r, IF LiveEndpoints(in[r].tenant) # {} THEN "refused" ELSE "commitEndpoint")
    /\ UNCHANGED <<tables, in, user, faults, history>>

CommitEndpoint(r) ==
    /\ pc[r] = "commitEndpoint"
    /\ endpoints' = endpoints \cup {[id |-> r, tenant |-> in[r].tenant, live |-> TRUE]}
    /\ Goto(r, "ok")
    /\ UNCHANGED <<users, tenants, memberships, invites, audit, in, user, faults, history>>

\* softDelete matches the id and the tenant, a row deleted before as well.
SoftDelete(r) ==
    /\ pc[r] = "softDelete"
    /\ \A q \in Others(r, {"commitRemoval"}) : in[q].endpoint # in[r].endpoint
    /\ Goto(r, IF \E e \in endpoints : e.id = in[r].endpoint /\ e.tenant = in[r].tenant
               THEN "commitRemoval" ELSE "refused")
    /\ UNCHANGED <<tables, in, user, faults, history>>

CommitRemoval(r) ==
    /\ pc[r] = "commitRemoval"
    /\ endpoints' = {IF e.id = in[r].endpoint THEN [e EXCEPT !.live = FALSE] ELSE e :
                       e \in endpoints}
    /\ Goto(r, "ok")
    /\ UNCHANGED <<users, tenants, memberships, invites, audit, in, user, faults, history>>

-----------------------------------------------------------------------------
\* A statement, or a commit, fails: what was not committed is rolled back.
Fail(r) ==
    /\ pc[r] \notin Answers \cup {"idle"}
    /\ faults < MaxFaults
    /\ faults' = faults + 1
    /\ Goto(r, "error")
    /\ UNCHANGED <<tables, in, user, history>>

Step(r) ==
    \/ Arrive(r) \/ FindByEmail(r) \/ CreateUser(r) \/ Login(r)
    \/ FindByProviderAccount(r) \/ FindGoogleEmail(r) \/ LinkProvider(r) \/ IssueSession(r)
    \/ InsertTenant(r) \/ InsertOwner(r) \/ CommitTenant(r)
    \/ InsertInvite(r) \/ InviteTenant(r)
    \/ FindInvite(r) \/ Join(r) \/ MarkAcceptedIfPending(r)
    \/ BeginChange(r) \/ FindTenant(r) \/ SaveStatus(r) \/ UpdateStatus(r) \/ AuditChange(r)
    \/ CommitChange(r)
    \/ ViewTenant(r) \/ RecordView(r) \/ ReadTenant(r)
    \/ FindActive(r) \/ CreateOne(r) \/ CommitEndpoint(r)
    \/ SoftDelete(r) \/ CommitRemoval(r) \/ Fail(r)

\* Every request has its answer.
Done == (\A r \in Request : pc[r] \in Answers) /\ UNCHANGED vars

Next == (\E r \in Request : Step(r)) \/ Done

Spec == Init /\ [][Next]_vars
=============================================================================
