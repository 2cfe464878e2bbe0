------------------------- MODULE TenancyProperties -------------------------
(***************************************************************************)
(* What accounts, tenants, invites and administration promise.              *)
(***************************************************************************)
EXTENDS Tenancy

\* The verified addresses that a Google account has come with.
AddressesOf(s) ==
    {in[r].email : r \in {q \in Request :
        pc[q] # "idle" /\ in[q].kind = "google" /\ in[q].sub = s /\ in[q].verified}}

\* A sign-in by password, or by a Google account that has come with one address.
Steady(a) == AddressesOf(a.sub) \subseteq {a.email}

\* A sign-in begins a session of an account of the address it came with or, by
\* Google, of one that the same Google account has come with.  So two sign-ins
\* with one address begin sessions of one account unless one of them is by a
\* Google account whose address has changed; and a Google account begins
\* sessions of one account whatever its address, until another Google account
\* is linked to that.  All this before, after or while accounts are created and
\* linked (AuthService.register, login and resolveGoogleUser, which look for an
\* account and create or link it in separate statements).
SignInsAgree ==
    /\ \A a \in signed : \E u \in users :
         u.id = a.user /\ u.email \in {a.email} \cup AddressesOf(a.sub)
    /\ \A a, b \in signed :
         /\ a.email = b.email /\ Steady(a) /\ Steady(b) => a.user = b.user
         /\ a.sub = b.sub /\ a.sub \notin {NoOne} \cup displaced => a.user = b.user

\* An invite that is used up has made an account of its address a member, with
\* the role it was issued for: a failure between the statements of accept, or a
\* second acceptance at the same time, never consumes it for nothing
\* (InviteService.accept).
InviteNotWasted ==
    \A i \in invites : i.accepted =>
        \E u \in users :
            /\ toLowerCase[u.email] = i.email
            /\ [user |-> u.id, tenant |-> i.tenant, role |-> i.role] \in memberships

\* The k-th entry of the log is the last change of t's status it tells of.
LastChange(t, k) ==
    /\ audit[k].tenant = t /\ audit[k].action \in Change
    /\ \A j \in DOMAIN audit : j > k => audit[j].tenant # t \/ audit[j].action \notin Change

\* A tenant is suspended only if the audit log has a suspension of it, and,
\* unless two changes of its status overlapped, its status is the one of the
\* last change the log tells of, whichever statements failed
\* (AdminService.changeStatus: status and audit entry in one transaction).
AuditTells ==
    \A t \in tenants :
        /\ t.suspended =>
             \E k \in DOMAIN audit : audit[k].tenant = t.id /\ audit[k].action = "suspend"
        /\ t.id \notin overlapped =>
             (t.suspended <=>
                \E k \in DOMAIN audit : LastChange(t.id, k) /\ audit[k].action = "suspend")

\* Every tenant has an owner and at most one live endpoint, and a request that
\* was answered with success has left what it was for: an onboarding its tenant,
\* an acceptance its membership, a view its audit entry, a creation its endpoint
\* unless that has been removed (TenantService.onboard, InviteService.accept,
\* AdminService.getTenantDetail, WebhookService.create and the partial unique
\* index behind its check).
AnswersHold ==
    /\ \A t \in tenants :
         /\ \E m \in memberships : m.tenant = t.id /\ m.role = Owner
         /\ \A e, f \in LiveEndpoints(t.id) : e = f
         /\ \A other \in tenants : other.slug = t.slug => other = t
    /\ \A r \in Request : pc[r] = "ok" =>
         /\ in[r].kind = "onboard" =>
              [user |-> in[r].user, tenant |-> r, role |-> Owner] \in memberships
         /\ in[r].kind = "accept" =>
              \E m \in memberships :
                  m.user = in[r].user /\ m.tenant = Row(invites, in[r].token).tenant
         /\ in[r].kind = "view" => \E k \in DOMAIN audit : audit[k] = Entry(r)
         /\ in[r].kind = "endpoint" =>
              \/ \E e \in LiveEndpoints(in[r].tenant) : e.id = r
              \/ \E q \in Request : pc[q] = "ok" /\ in[q].kind = "remove" /\ in[q].endpoint = r
=============================================================================
