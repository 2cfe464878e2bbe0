-------------------------- MODULE SessionProperties --------------------------
(***************************************************************************)
(* What the rotation of refresh tokens guarantees.                          *)
(***************************************************************************)
EXTENDS Session

Live(t) == t \in issued /\ t \notin used /\ t \notin revoked

\* A family has at most one token that was not consumed, whatever refreshes
\* and replays of it run at the same time (markUsedIfUnused lets one caller
\* win, and only the winner issues a successor).
OneUnusedToken ==
    \A t, u \in issued \ used : family[t] = family[u] => t = u

\* "a removed/downgraded member can't keep minting old-privilege tokens"
\* (auth.service.ts:102): a rotated token carries a role its owner has had at
\* some time since the token it replaces was issued, and a tenant only if that
\* one had it (refresh resolves the role again).
AuthorityIsRecent ==
    \A t \in issued : parent[t] # NoToken =>
        /\ t \in scoped => parent[t] \in scoped
        /\ t \in scoped => grant[t] \in held[parent[t]] \ {NoRole}

\* A family revoked while no refresh of it was running has no live token, and
\* never gets one again (revokeFamily, and the checks of claim).
QuietRevocationIsFinal ==
    \A t \in issued : family[t] \in quiet => ~Live(t)

\* "Revokes the token's whole family (logout)" (refresh-token.service.ts:64): a
\* token issued to the family of a revoked token is not live.
RevokedFamilyIsDead ==
    \A t, u \in issued : family[t] = family[u] /\ t \in revoked => ~Live(u)
=============================================================================
