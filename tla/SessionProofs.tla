---------------------------- MODULE SessionProofs ----------------------------
(***************************************************************************)
(* Theorems about the rotation of refresh tokens, for any tokens, requests  *)
(* and roles.                                                               *)
(***************************************************************************)
EXTENDS SessionProperties, TLAPS

\* The request has consumed a token and owes its family the next one.
Rotating(r) == pc[r] \in {"resolve", "issue"} /\ at[r] # NoToken

\* A request works on a token that exists, and one that is rotating has
\* consumed it.
Working ==
    \A r \in Request :
        /\ pc[r] \in {"consume", "burn", "resolve"} => at[r] \in issued
        /\ pc[r] = "issue" => at[r] \in issued \cup {NoToken}
        /\ Rotating(r) => at[r] \in used

\* Families are named by a token that exists, and so are the tokens replaced.
Rooted ==
    /\ quiet \subseteq issued
    /\ \A t \in issued : family[t] \in issued /\ parent[t] \in issued \cup {NoToken}

\* A family has an unconsumed token or one rotating request, never two of them.
OneRotation ==
    /\ \A r, s \in Request : Rotating(r) /\ Rotating(s) /\ family[at[r]] = family[at[s]] => r = s
    /\ \A r \in Request, t \in issued \ used : Rotating(r) => family[t] # family[at[r]]

\* The history is right, and what a request resolved came from it.
Resolved ==
    /\ \A t \in issued : membership \in held[t]
    /\ \A r \in Request : pc[r] = "issue" /\ at[r] # NoToken /\ r \in tenant =>
            at[r] \in scoped /\ role[r] \in held[at[r]] \ {NoRole}

\* A quietly revoked family has only revoked tokens and no refresh in flight.
QuietFamilies ==
    \A f \in quiet :
        /\ \A t \in issued : family[t] = f => t \in revoked
        /\ \A r \in Request : ~Refreshing(r, f)

SInv ==
    /\ TypeOK /\ Working /\ Rooted /\ OneUnusedToken /\ OneRotation
    /\ Resolved /\ AuthorityIsRecent /\ QuietFamilies

-----------------------------------------------------------------------------

\* The initial state has no token and no running request.
LEMMA SInvInit == Init => SInv
  BY RoleAssumption DEF Init, SInv, TypeOK, Working, Rooted, OneUnusedToken, OneRotation, Resolved,
     AuthorityIsRecent, QuietFamilies, Refreshing, Members, Rotating, MaybeRole, MaybeToken

\* Steps that change only the membership (Join, ChangeMembership).
LEMMA MembershipStep ==
    ASSUME SInv, NEW m \in MaybeRole, NowHolds(m), UNCHANGED <<rows, pc, at, tenant, role>>
    PROVE  SInv'
  <1> USE DEF rows
  <1>1. TypeOK'
    BY DEF SInv, TypeOK, NowHolds
  <1>2. \A t \in Token : held[t] \subseteq held'[t]
    BY DEF SInv, TypeOK, NowHolds
  <1>3. Working' /\ Rooted' /\ OneUnusedToken' /\ OneRotation' /\ QuietFamilies'
    BY DEF SInv, Working, Rooted, OneUnusedToken, OneRotation, QuietFamilies, Refreshing, Members, Rotating
  <1>4. Resolved'
    BY <1>2 DEF SInv, Resolved, NowHolds, TypeOK
  <1>5. AuthorityIsRecent'
    BY <1>2 DEF SInv, AuthorityIsRecent, TypeOK, Rooted
  <1> QED
    BY <1>1, <1>3, <1>4, <1>5 DEF SInv

\* Steps that start a session, which take no token and no family.
LEMMA StartStep ==
    ASSUME SInv, NEW r \in Request, NEW isTenant \in BOOLEAN, NEW m \in MaybeRole,
           StartSession(r, isTenant, m), membership' \in MaybeRole,
           held' \in [Token -> SUBSET MaybeRole],
           \A t \in issued : held[t] \subseteq held'[t] /\ membership' \in held'[t]
    PROVE  SInv'
  <1> USE DEF rows
  <1>1. TypeOK'
    BY DEF SInv, TypeOK, StartSession, MaybeToken
  <1>2. /\ pc[r] = "idle" /\ pc'[r] = "issue" /\ at'[r] = NoToken
        /\ \A s \in Request : s # r => /\ pc'[s] = pc[s] /\ at'[s] = at[s] /\ role'[s] = role[s]
                                       /\ (s \in tenant' <=> s \in tenant)
        /\ UNCHANGED rows
    BY DEF SInv, TypeOK, StartSession
  <1>3. Working' /\ Rooted' /\ OneUnusedToken'
    BY <1>2 DEF SInv, Working, Rooted, OneUnusedToken, Rotating
  <1>4. OneRotation'
    BY <1>2 DEF SInv, OneRotation, Rotating
  <1>5. QuietFamilies'
    BY <1>2, NoTokenAssumption DEF SInv, TypeOK, QuietFamilies, Refreshing, Members
  <1>6. Resolved'
    BY <1>2 DEF SInv, Resolved, Working
  <1>7. AuthorityIsRecent'
    BY <1>2 DEF SInv, AuthorityIsRecent, Rooted
  <1> QED
    BY <1>1, <1>3, <1>4, <1>5, <1>6, <1>7 DEF SInv

\* Steps that find a token (Refresh, Logout).
LEMMA FindStep ==
    ASSUME SInv, NEW r \in Request, NEW t \in Token, Refresh(r, t) \/ Logout(r, t)
    PROVE  SInv'
  <1> USE DEF rows
  <1>1. /\ t \in issued /\ pc[r] = "idle" /\ pc'[r] \in {"consume", "burn"} /\ at'[r] = t
        /\ \A s \in Request : s # r => pc'[s] = pc[s] /\ at'[s] = at[s]
        /\ UNCHANGED <<rows, membership, held, tenant, role>>
    BY DEF SInv, TypeOK, Refresh, Logout
  <1>2. TypeOK'
    BY DEF SInv, TypeOK, Refresh, Logout, MaybeToken
  <1>3. Working' /\ Rooted' /\ OneUnusedToken' /\ OneRotation' /\ Resolved' /\ AuthorityIsRecent'
    BY <1>1 DEF SInv, Working, Rooted, OneUnusedToken, OneRotation, Rotating, Resolved, AuthorityIsRecent
  <1>4. pc'[r] = "consume" => t \notin revoked
    BY DEF Refresh, Logout, SInv, TypeOK
  <1>5. QuietFamilies'
    BY <1>1, <1>4 DEF SInv, QuietFamilies, Refreshing, Members
  <1> QED
    BY <1>2, <1>3, <1>5 DEF SInv

\* Steps after which the request is over and no row has changed (Fail).
LEMMA FailStep ==
    ASSUME SInv, NEW r \in Request, Fail(r)
    PROVE  SInv'
  <1> USE DEF rows
  <1>1. /\ pc'[r] = "idle"
        /\ \A s \in Request : s # r => /\ pc'[s] = pc[s] /\ at'[s] = at[s] /\ role'[s] = role[s]
                                       /\ (s \in tenant' <=> s \in tenant)
        /\ UNCHANGED <<rows, membership, held>>
    BY DEF SInv, TypeOK, Fail, Ends
  <1>2. TypeOK'
    BY DEF SInv, TypeOK, Fail, Ends, MaybeToken, MaybeRole
  <1>3. Working' /\ Rooted' /\ OneUnusedToken' /\ OneRotation' /\ Resolved' /\ AuthorityIsRecent'
    BY <1>1 DEF SInv, Working, Rooted, OneUnusedToken, OneRotation, Rotating, Resolved, AuthorityIsRecent
  <1>4. QuietFamilies'
    BY <1>1 DEF SInv, QuietFamilies, Refreshing, Members
  <1> QED
    BY <1>2, <1>3, <1>4 DEF SInv

\* markUsedIfUnused moves the claim on the family from the token to the request.
LEMMA ConsumeStep ==
    ASSUME SInv, NEW r \in Request, Consume(r)
    PROVE  SInv'
  <1> DEFINE f == family[at[r]]
  <1>1. /\ pc[r] = "consume" /\ at[r] \in issued /\ used' = used \cup {at[r]}
        /\ pc'[r] = (IF at[r] \in used THEN "burn" ELSE "resolve")
        /\ \A s \in Request : s # r => pc'[s] = pc[s]
        /\ UNCHANGED <<issued, family, scoped, grant, revoked, parent, quiet, membership,
                       held, at, tenant, role>>
    BY DEF SInv, TypeOK, Consume, Working
  <1>2. TypeOK'
    BY <1>1 DEF SInv, TypeOK, Consume
  <1>3. Working' /\ Rooted' /\ OneUnusedToken' /\ Resolved' /\ AuthorityIsRecent'
    BY <1>1 DEF SInv, Working, Rooted, OneUnusedToken, Rotating, Resolved, AuthorityIsRecent
  <1>4. CASE at[r] \in used
    <2>1. OneRotation'
      BY <1>1, <1>4 DEF SInv, OneRotation, Rotating
    <2>2. QuietFamilies'
      BY <1>1, <1>4 DEF SInv, QuietFamilies, Refreshing, Members
    <2> QED
      BY <1>2, <1>3, <2>1, <2>2 DEF SInv
  <1>5. CASE at[r] \notin used
    <2>1. \A s \in Request : Rotating(s) => family[at[s]] # f
      BY <1>1, <1>5 DEF SInv, OneRotation
    <2>2. \A t \in issued \ used : family[t] = f => t = at[r]
      BY <1>1, <1>5 DEF SInv, OneUnusedToken
    <2>3. \A s \in Request : s # r => (Rotating(s)' <=> Rotating(s))
      BY <1>1 DEF Rotating
    <2>4. OneRotation'
      BY <1>1, <1>5, <2>1, <2>2, <2>3 DEF SInv, OneRotation
    <2>5. \A s \in Request, g \in quiet : Refreshing(s, g)' => Refreshing(s, g)
      BY <1>1 DEF Refreshing, Members
    <2>6. QuietFamilies'
      BY <1>1, <2>5 DEF SInv, QuietFamilies
    <2> QED
      BY <1>2, <1>3, <2>4, <2>6 DEF SInv
  <1> QED
    BY <1>4, <1>5

\* The role is read again before the successor is issued.
LEMMA ResolveStep ==
    ASSUME SInv, NEW r \in Request, Resolve(r)
    PROVE  SInv'
  <1> USE DEF rows
  <1>1. /\ pc[r] = "resolve" /\ at[r] \in issued /\ pc'[r] \in {"burn", "issue"}
        /\ \A s \in Request : s # r => /\ pc'[s] = pc[s] /\ role'[s] = role[s]
                                       /\ (s \in tenant' <=> s \in tenant)
        /\ UNCHANGED <<rows, membership, held, at>>
    BY DEF SInv, TypeOK, Resolve, Working
  <1>2. TypeOK'
    BY DEF SInv, TypeOK, Resolve, MaybeRole
  <1>3. Working' /\ Rooted' /\ OneUnusedToken' /\ AuthorityIsRecent'
    BY <1>1 DEF SInv, Working, Rooted, OneUnusedToken, Rotating, AuthorityIsRecent
  <1>4. \A s \in Request : Rotating(s)' => Rotating(s)
    BY <1>1 DEF Rotating
  <1>5. OneRotation'
    BY <1>1, <1>4 DEF SInv, OneRotation
  <1>6. pc'[r] = "issue" /\ r \in tenant' =>
            at[r] \in scoped /\ role'[r] = membership /\ membership # NoRole
    BY DEF SInv, TypeOK, Resolve
  <1>7. Resolved'
    BY <1>1, <1>6 DEF SInv, Resolved
  <1>8. \A s \in Request, g \in quiet : Refreshing(s, g)' => Refreshing(s, g)
    BY <1>1 DEF Refreshing, Members
  <1>9. QuietFamilies'
    BY <1>1, <1>8 DEF SInv, QuietFamilies
  <1> QED
    BY <1>2, <1>3, <1>5, <1>7, <1>9 DEF SInv

\* The successor takes over the family from its request, or starts a new one.
LEMMA IssueStep ==
    ASSUME SInv, NEW r \in Request, Issue(r)
    PROVE  SInv'
  <1>1. PICK t \in Token \ issued :
            /\ issued' = issued \cup {t}
            /\ family' = [family EXCEPT ![t] = IF at[r] = NoToken THEN t ELSE family[at[r]]]
            /\ scoped' = IF r \in tenant THEN scoped \cup {t} ELSE scoped
            /\ grant' = [grant EXCEPT ![t] = role[r]]
            /\ parent' = [parent EXCEPT ![t] = at[r]]
            /\ held' = [held EXCEPT ![t] = {membership}]
    BY DEF Issue
  <1>2. /\ pc[r] = "issue" /\ pc'[r] = "idle" /\ at[r] \in issued \cup {NoToken}
        /\ \A s \in Request : s # r => /\ pc'[s] = pc[s] /\ at'[s] = at[s] /\ role'[s] = role[s]
                                       /\ (s \in tenant' <=> s \in tenant)
        /\ UNCHANGED <<used, revoked, quiet, membership>>
    BY DEF SInv, TypeOK, Issue, Ends, Working
  <1>3. TypeOK'
    BY <1>1, <1>2 DEF SInv, TypeOK, Issue, Ends, MaybeToken, MaybeRole
  <1>4. \A u \in issued : /\ u # t /\ u \in issued'
                          /\ family'[u] = family[u] /\ grant'[u] = grant[u]
                          /\ parent'[u] = parent[u] /\ held'[u] = held[u]
                          /\ (u \in scoped' <=> u \in scoped)
    BY <1>1 DEF SInv, TypeOK
  <1>5. /\ t \in issued' /\ t \notin used /\ parent'[t] = at[r]
        /\ grant'[t] = role[r] /\ held'[t] = {membership} /\ (t \in scoped' <=> r \in tenant)
    BY <1>1 DEF SInv, TypeOK
  <1>6. family'[t] = IF at[r] = NoToken THEN t ELSE family[at[r]]
    BY <1>1 DEF SInv, TypeOK
  <1>7. \A s \in Request : Rotating(s)' => s # r /\ Rotating(s) /\ at'[s] = at[s] /\ at[s] \in issued
    BY <1>2 DEF Rotating, SInv, Working
  <1>8. Working'
    BY <1>2, <1>4, <1>7 DEF SInv, Working, Rotating
  <1>9. Rooted'
    BY <1>1, <1>2, <1>4, <1>5, <1>6 DEF SInv, Rooted
  <1>10. at[r] # NoToken => Rotating(r) /\ at[r] \in issued
    BY <1>2 DEF Rotating
  <1>11. \A u \in issued \ used : family[u] # family'[t]
    BY <1>1, <1>6, <1>10 DEF SInv, OneRotation, Rooted
  <1>12. OneUnusedToken'
    BY <1>1, <1>2, <1>4, <1>11 DEF SInv, OneUnusedToken
  <1>13. \A s \in Request : Rotating(s)' => family'[t] # family'[at'[s]]
    BY <1>1, <1>4, <1>6, <1>7, <1>10 DEF SInv, OneRotation, Rooted
  <1>14. OneRotation'
    BY <1>1, <1>2, <1>4, <1>7, <1>13 DEF SInv, OneRotation
  <1>15. Resolved'
    BY <1>1, <1>2, <1>4, <1>5, NoTokenAssumption DEF SInv, Resolved, Working
  <1>16. AuthorityIsRecent'
    BY <1>1, <1>2, <1>4, <1>5 DEF SInv, AuthorityIsRecent, Resolved, Rooted
  <1>17. family'[t] \notin quiet
    BY <1>1, <1>2, <1>6 DEF SInv, Rooted, QuietFamilies, Refreshing, Members
  <1>18. \A s \in Request, g \in quiet : Refreshing(s, g)' => Refreshing(s, g)
    BY <1>1, <1>2, <1>4, <1>17 DEF Refreshing, Members, SInv, Working
  <1>19. QuietFamilies'
    BY <1>1, <1>2, <1>4, <1>17, <1>18 DEF SInv, QuietFamilies
  <1> QED
    BY <1>3, <1>8, <1>9, <1>12, <1>14, <1>15, <1>16, <1>19 DEF SInv

\* A revocation reaches every token the family has.
LEMMA RevokeStep ==
    ASSUME SInv, NEW r \in Request, RevokeFamily(r)
    PROVE  SInv'
  <1> DEFINE f == family[at[r]]
  <1>1. /\ pc[r] = "burn" /\ pc'[r] = "idle" /\ at[r] \in issued
        /\ revoked' = revoked \cup Members(f)
        /\ quiet' = IF \E s \in Request : Refreshing(s, f) THEN quiet ELSE quiet \cup {f}
        /\ \A s \in Request : s # r => /\ pc'[s] = pc[s] /\ at'[s] = at[s] /\ role'[s] = role[s]
                                       /\ (s \in tenant' <=> s \in tenant)
        /\ UNCHANGED <<issued, family, scoped, grant, used, parent, membership, held>>
    BY DEF SInv, TypeOK, RevokeFamily, Ends, Working
  <1>2. f \in issued
    BY <1>1 DEF SInv, Rooted
  <1>3. TypeOK'
    BY <1>1, <1>2 DEF SInv, TypeOK, RevokeFamily, Ends, MaybeToken, MaybeRole, Members
  <1>4. Working' /\ OneUnusedToken' /\ OneRotation' /\ Resolved' /\ AuthorityIsRecent'
    BY <1>1 DEF SInv, Working, OneUnusedToken, OneRotation, Rotating, Resolved, AuthorityIsRecent
  <1>5. Rooted'
    BY <1>1, <1>2 DEF SInv, Rooted
  <1>6. \A s \in Request, g \in issued : Refreshing(s, g)' => Refreshing(s, g)
    BY <1>1 DEF Refreshing, Members
  <1>7. \A g \in quiet' : \/ g \in quiet
                          \/ g = f /\ \A s \in Request : ~Refreshing(s, f)
    BY <1>1
  <1>8. QuietFamilies'
    <2> SUFFICES ASSUME NEW g \in quiet'
                 PROVE  /\ \A t \in issued : family[t] = g => t \in revoked'
                        /\ \A s \in Request : ~Refreshing(s, g)
      BY <1>1, <1>2, <1>6 DEF QuietFamilies, SInv, Rooted
    <2>1. CASE g \in quiet
      BY <2>1, <1>1 DEF SInv, QuietFamilies
    <2>2. CASE g = f /\ \A s \in Request : ~Refreshing(s, f)
      BY <2>2, <1>1 DEF Members
    <2> QED
      BY <1>7, <2>1, <2>2
  <1> QED
    BY <1>3, <1>4, <1>5, <1>8 DEF SInv

\* Every step keeps the invariant.
LEMMA SInvNext == SInv /\ [Next]_vars => SInv'
  <1> SUFFICES ASSUME SInv, [Next]_vars
               PROVE  SInv'
    OBVIOUS
  <1>1. CASE \E m \in Role : Join(m)
    BY <1>1, MembershipStep DEF Join, MaybeRole
  <1>2. CASE \E m \in MaybeRole : ChangeMembership(m)
    BY <1>2, MembershipStep DEF ChangeMembership
  <1>3. ASSUME NEW r \in Request, Login(r) \/ SwitchTenant(r)
        PROVE  SInv'
    <2>1. membership \in MaybeRole /\ (membership # NoRole) \in BOOLEAN
      BY DEF SInv, TypeOK
    <2>2. /\ held \in [Token -> SUBSET MaybeRole]
          /\ \A t \in issued : membership \in held[t]
      BY DEF SInv, TypeOK, Resolved
    <2>3. CASE Login(r)
      BY <2>1, <2>2, <2>3, StartStep DEF Login
    <2>4. CASE SwitchTenant(r)
      BY <2>1, <2>2, <2>4, StartStep DEF SwitchTenant
    <2> QED
      BY <1>3, <2>3, <2>4
  <1>4. ASSUME NEW r \in Request, Onboard(r)
        PROVE  SInv'
    <2>1. Owner \in MaybeRole
      BY RoleAssumption DEF MaybeRole
    <2>2. /\ held' \in [Token -> SUBSET MaybeRole] /\ membership' \in MaybeRole
          /\ \A t \in issued : held[t] \subseteq held'[t] /\ membership' \in held'[t]
      BY <1>4, <2>1 DEF Onboard, NowHolds, SInv, TypeOK
    <2> QED
      BY <1>4, <2>1, <2>2, StartStep DEF Onboard
  <1>5. ASSUME NEW r \in Request,
               Consume(r) \/ Resolve(r) \/ Issue(r) \/ RevokeFamily(r) \/ Fail(r)
        PROVE  SInv'
    BY <1>5, ConsumeStep, ResolveStep, IssueStep, RevokeStep, FailStep
  <1>6. ASSUME NEW r \in Request, NEW t \in Token, Refresh(r, t) \/ Logout(r, t)
        PROVE  SInv'
    BY <1>6, FindStep
  <1>7. CASE UNCHANGED vars
    BY <1>7 DEF vars, SInv, TypeOK, Working, Rooted, OneUnusedToken, OneRotation, Resolved,
       AuthorityIsRecent, QuietFamilies, Refreshing, Members, Rotating
  <1> QED
    BY <1>1, <1>2, <1>3, <1>4, <1>5, <1>6, <1>7 DEF Next

\* The inductive invariant of the sessions: in every reachable state a family
\* has at most one unconsumed token or rotating request (claim, issue).
THEOREM SessionInvariance == Spec => []SInv
  BY SInvInit, SInvNext, PTL DEF Spec

\* Tokens, families and the requests' positions keep their types (RefreshToken).
THEOREM SessionTypeCorrect == Spec => []TypeOK
  <1>1. SInv => TypeOK
    BY DEF SInv
  <1> QED
    BY <1>1, SessionInvariance, PTL

\* At most one token of a family is unconsumed (markUsedIfUnused).
THEOREM SessionOneUnusedToken == Spec => []OneUnusedToken
  <1>1. SInv => OneUnusedToken
    BY DEF SInv
  <1> QED
    BY <1>1, SessionInvariance, PTL

\* A rotated token carries a role held since its predecessor was issued
\* (refresh re-resolves the membership).
THEOREM SessionAuthorityIsRecent == Spec => []AuthorityIsRecent
  <1>1. SInv => AuthorityIsRecent
    BY DEF SInv
  <1> QED
    BY <1>1, SessionInvariance, PTL

\* A family revoked while no refresh of it runs is dead for good (revokeFamily).
THEOREM SessionQuietRevocationIsFinal == Spec => []QuietRevocationIsFinal
  <1>1. SInv => QuietRevocationIsFinal
    BY DEF SInv, QuietFamilies, QuietRevocationIsFinal, Live
  <1> QED
    BY <1>1, SessionInvariance, PTL
=============================================================================
