------------------------------- MODULE Session -------------------------------
(***************************************************************************)
(* Sessions and refresh tokens of a user in a tenant: login, tenant switch, *)
(* onboarding, rotation, replay and logout, as the autocommitted statements *)
(* of concurrent requests, while the membership comes and goes.             *)
(*                                                                         *)
(* A family is the chain of one login and is named by its first token.      *)
(* Access tokens are signed and kept nowhere; a refresh token's row is what *)
(* a session lives on.                                                      *)
(***************************************************************************)

CONSTANTS
    Token,        \* the tokens there may be
    Request,      \* concurrent requests
    Role,
    Owner,        \* the role of a user that onboards the tenant
    SuperAdmin,   \* whether the user has isSuperAdmin
    NoRole,
    NoToken

ASSUME RoleAssumption == Owner \in Role /\ NoRole \notin Role
ASSUME SuperAdminAssumption == SuperAdmin \in BOOLEAN
ASSUME NoTokenAssumption == NoToken \notin Token

VARIABLES
    issued,       \* rows of refresh_tokens
    family,       \* their columns: family_id,
    scoped,       \*   the tokens with a tenant_id,
    grant,        \*   role,
    used,         \*   the tokens with used_at
    revoked,      \*   and those with revoked_at
    membership,   \* the user's role in the tenant
    pc,           \* the statement each request is about to run
    at,           \* the token it was sent; NoToken when it starts a session
    tenant,       \* the requests whose session will have a tenant_id
    role,         \* the role it resolved
    parent,       \* history: the token a token replaced
    held,         \* history: roles the user has had since the token was issued
    quiet         \* history: families revoked while no refresh of them was running

rows == <<issued, family, scoped, grant, used, revoked, parent, quiet>>
vars == <<issued, family, scoped, grant, used, revoked, membership,
          pc, at, tenant, role, parent, held, quiet>>

MaybeRole == Role \cup {NoRole}
MaybeToken == Token \cup {NoToken}

TypeOK ==
    /\ issued \subseteq Token
    /\ family \in [Token -> MaybeToken] /\ \A t \in issued : family[t] \in Token
    /\ scoped \subseteq issued
    /\ grant \in [Token -> MaybeRole]
    /\ used \subseteq issued
    /\ revoked \subseteq issued
    /\ membership \in MaybeRole
    /\ pc \in [Request -> {"idle", "consume", "burn", "resolve", "issue"}]
    /\ at \in [Request -> MaybeToken]
    /\ tenant \subseteq Request
    /\ role \in [Request -> MaybeRole]
    /\ parent \in [Token -> MaybeToken]
    /\ held \in [Token -> SUBSET MaybeRole]
    /\ quiet \subseteq Token

Init ==
    /\ issued = {} /\ scoped = {} /\ used = {} /\ revoked = {}
    /\ family = [t \in Token |-> NoToken]
    /\ grant = [t \in Token |-> NoRole]
    /\ membership = NoRole
    /\ pc = [r \in Request |-> "idle"]
    /\ at = [r \in Request |-> NoToken]
    /\ tenant = {}
    /\ role = [r \in Request |-> NoRole]
    /\ parent = [t \in Token |-> NoToken]
    /\ held = [t \in Token |-> {}]
    /\ quiet = {}

\* The request has answered; its local variables are gone.
Ends(r) ==
    /\ pc' = [pc EXCEPT ![r] = "idle"]
    /\ at' = [at EXCEPT ![r] = NoToken]
    /\ tenant' = tenant \ {r}
    /\ role' = [role EXCEPT ![r] = NoRole]

-----------------------------------------------------------------------------
(* Memberships.                                                             *)

\* Every token's owner has this role from now on.
NowHolds(m) ==
    /\ membership' = m
    /\ held' = [t \in Token |-> IF t \in issued THEN held[t] \cup {m} ELSE held[t]]

\* An invite is accepted.
Join(m) ==
    /\ membership = NoRole
    /\ NowHolds(m)
    /\ UNCHANGED <<rows, pc, at, tenant, role>>

\* A member is removed or gets another role out of band: no endpoint does it.
ChangeMembership(m) ==
    /\ membership \notin {NoRole, m}
    /\ NowHolds(m)
    /\ UNCHANGED <<rows, pc, at, tenant, role>>

-----------------------------------------------------------------------------
(* Starting a session.                                                      *)

\* The request goes on to issue the first token of a family.
StartSession(r, isTenant, m) ==
    /\ pc[r] = "idle"
    /\ pc' = [pc EXCEPT ![r] = "issue"]
    /\ at' = [at EXCEPT ![r] = NoToken]
    /\ tenant' = IF isTenant THEN tenant \cup {r} ELSE tenant \ {r}
    /\ role' = [role EXCEPT ![r] = m]
    /\ UNCHANGED <<rows>>

\* register and login: the user's primary tenant, or identity only.
Login(r) ==
    /\ StartSession(r, membership # NoRole, membership)
    /\ UNCHANGED <<membership, held>>

\* A super admin may switch to a tenant without being a member.
SwitchTenant(r) ==
    /\ membership # NoRole \/ SuperAdmin
    /\ StartSession(r, TRUE, membership)
    /\ UNCHANGED <<membership, held>>

\* The tenant and its owner's membership are committed before the session starts.
Onboard(r) ==
    /\ membership = NoRole
    /\ StartSession(r, TRUE, Owner)
    /\ NowHolds(Owner)

-----------------------------------------------------------------------------
(* Rotation, replay and logout.                                             *)

\* claim finds the token and refuses an unknown, revoked or expired one;
\* whether it was used is not looked at here.  A token that expires is one that
\* no refresh gets past here with any more: time is not modelled.
Refresh(r, t) ==
    /\ pc[r] = "idle"
    /\ t \in issued \ revoked
    /\ pc' = [pc EXCEPT ![r] = "consume"]
    /\ at' = [at EXCEPT ![r] = t]
    /\ UNCHANGED <<rows, membership, held, tenant, role>>

\* Mutant of Consume: used_at is set unconditionally.
ConsumeUnguarded(r) ==
    /\ pc[r] = "consume"
    /\ used' = used \cup {at[r]}
    /\ pc' = [pc EXCEPT ![r] = "resolve"]
    /\ UNCHANGED <<issued, family, scoped, grant, revoked, parent, quiet,
                   membership, held, at, tenant, role>>

\* markUsedIfUnused: one caller consumes the token, any other burns the family.
Consume(r) ==
    /\ pc[r] = "consume"
    /\ used' = used \cup {at[r]}
    /\ pc' = [pc EXCEPT ![r] = IF at[r] \in used THEN "burn" ELSE "resolve"]
    /\ UNCHANGED <<issued, family, scoped, grant, revoked, parent, quiet,
                   membership, held, at, tenant, role>>

\* Mutant of Resolve: the role of the consumed token is passed on.
ResolveOldRole(r) ==
    /\ pc[r] = "resolve"
    /\ pc' = [pc EXCEPT ![r] = "issue"]
    /\ tenant' = IF at[r] \in scoped THEN tenant \cup {r} ELSE tenant \ {r}
    /\ role' = [role EXCEPT ![r] = grant[at[r]]]
    /\ UNCHANGED <<rows, membership, held, at>>

\* The role is read again; a tenant session without a membership burns.
Resolve(r) ==
    /\ pc[r] = "resolve"
    /\ pc' = [pc EXCEPT ![r] = IF at[r] \in scoped /\ membership = NoRole THEN "burn" ELSE "issue"]
    /\ tenant' = IF at[r] \in scoped THEN tenant \cup {r} ELSE tenant \ {r}
    /\ role' = [role EXCEPT ![r] = IF at[r] \in scoped THEN membership ELSE NoRole]
    /\ UNCHANGED <<rows, membership, held, at>>

\* Mutant of Issue: the first token gets no family of its own.
IssueNoFamily(r) ==
    /\ pc[r] = "issue"
    /\ \E t \in Token \ issued :
        /\ issued' = issued \cup {t}
        /\ family' = [family EXCEPT ![t] = IF at[r] = NoToken THEN NoToken ELSE family[at[r]]]
        /\ scoped' = IF r \in tenant THEN scoped \cup {t} ELSE scoped
        /\ grant' = [grant EXCEPT ![t] = role[r]]
        /\ parent' = [parent EXCEPT ![t] = at[r]]
        /\ held' = [held EXCEPT ![t] = {membership}]
    /\ Ends(r)
    /\ UNCHANGED <<used, revoked, quiet, membership>>

\* The first token of a family, or the successor of the one consumed.
Issue(r) ==
    /\ pc[r] = "issue"
    /\ \E t \in Token \ issued :
        /\ issued' = issued \cup {t}
        /\ family' = [family EXCEPT ![t] = IF at[r] = NoToken THEN t ELSE family[at[r]]]
        /\ scoped' = IF r \in tenant THEN scoped \cup {t} ELSE scoped
        /\ grant' = [grant EXCEPT ![t] = role[r]]
        /\ parent' = [parent EXCEPT ![t] = at[r]]
        /\ held' = [held EXCEPT ![t] = {membership}]
    /\ Ends(r)
    /\ UNCHANGED <<used, revoked, quiet, membership>>

\* logout finds the family of the token, whatever the token's state.
Logout(r, t) ==
    /\ pc[r] = "idle"
    /\ t \in issued
    /\ pc' = [pc EXCEPT ![r] = "burn"]
    /\ at' = [at EXCEPT ![r] = t]
    /\ UNCHANGED <<rows, membership, held, tenant, role>>

Members(f) == {t \in issued : family[t] = f}

\* A refresh of the family has found its token and has not ended.
Refreshing(r, f) == pc[r] \in {"consume", "resolve", "issue"} /\ at[r] \in Members(f)

\* Mutant of RevokeFamily: only the token at hand is revoked.
RevokeFamilyOne(r) ==
    /\ pc[r] = "burn"
    /\ LET f == family[at[r]] IN
        /\ revoked' = revoked \cup {at[r]}
        /\ quiet' = IF \E s \in Request : Refreshing(s, f) THEN quiet ELSE quiet \cup {f}
    /\ Ends(r)
    /\ UNCHANGED <<issued, family, scoped, grant, used, parent, membership, held>>

\* One UPDATE revokes the tokens the family has now.
RevokeFamily(r) ==
    /\ pc[r] = "burn"
    /\ LET f == family[at[r]] IN
        /\ revoked' = revoked \cup Members(f)
        /\ quiet' = IF \E s \in Request : Refreshing(s, f) THEN quiet ELSE quiet \cup {f}
    /\ Ends(r)
    /\ UNCHANGED <<issued, family, scoped, grant, used, parent, membership, held>>

\* A statement fails or the process dies; what was committed stays.
Fail(r) ==
    /\ pc[r] # "idle"
    /\ Ends(r)
    /\ UNCHANGED <<rows, membership, held>>

-----------------------------------------------------------------------------

Next ==
    \/ \E m \in Role : Join(m)
    \/ \E m \in MaybeRole : ChangeMembership(m)
    \/ \E r \in Request :
        \/ Login(r) \/ SwitchTenant(r) \/ Onboard(r)
        \/ Consume(r) \/ Resolve(r) \/ Issue(r) \/ RevokeFamily(r) \/ Fail(r)
        \/ \E t \in Token : Refresh(r, t) \/ Logout(r, t)

Spec == Init /\ [][Next]_vars
=============================================================================
