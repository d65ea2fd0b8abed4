--------------------------- MODULE IdentityProofs ---------------------------
(***************************************************************************)
(* Safety of accounts and credentials for every set of requests, emails,   *)
(* clients and verifiers, both values of InviteAllowExisting and any TTLs. *)
(***************************************************************************)
EXTENDS Identity, TLAPS, FiniteSetTheorems

HeldRows == [row : Nat, user : 0..MaxAccounts, client : Clients \cup {None},
             email : Emails \cup {None}, chain : 0..MaxCodes]

\* What a request that has read a row still knows of it.  Rows of invitations
\* are never deleted.
HeldOK ==
    /\ held \in [Requests -> HeldRows]
    /\ \A r \in Requests :
          /\ pc[r] \in {"invite", "find", "create"} => held[r].email \in Emails
          /\ pc[r] \in {"find", "create", "accept"} => held[r].row \in DOMAIN invites

\* The numbers of new rows have not been used.
SerialsOK ==
    /\ nextUser \in Nat \ {0} /\ nextCode \in Nat \ {0}
    /\ nextSession \in Nat \ {0} /\ nextKey \in Nat \ {0}
    /\ \A k \in DOMAIN grant : k < nextCode

\* A code carries the grant it was issued for, and so does a request that has
\* read a code or a session; a session goes back to a grant.
GrantsOK ==
    /\ \A k \in DOMAIN codes :
          /\ k \in DOMAIN grant
          /\ codes[k].user = grant[k].user /\ codes[k].client = grant[k].client
    /\ \A s \in DOMAIN sessions : s \in DOMAIN chain /\ chain[s] \in DOMAIN grant
    /\ \A r \in Requests : pc[r] \in {"consume", "drop", "issue"} =>
          /\ held[r].chain \in DOMAIN grant
          /\ held[r].user = grant[held[r].chain].user
          /\ held[r].client = grant[held[r].chain].client

\* The parts of TypeOK.
TablesOK ==
    /\ users \in Partial(Accounts, Emails) /\ keys \in Partial(Keys, Accounts)
    /\ grant \in Partial(Codes, Grants) /\ chain \in Partial(Sessions, Codes)

CredentialsOK ==
    /\ now \in 0..MaxTime
    /\ DOMAIN codes \subseteq Codes /\ DOMAIN sessions \subseteq Sessions
    /\ \A k \in DOMAIN codes :
          codes[k] \in [user : Accounts, client : Clients,
                        challenge : Verifiers \cup {None}, expires : Nat]
    /\ \A s \in DOMAIN sessions :
          sessions[s] \in [user : Accounts, client : Clients, expires : Nat]

InvitesOK ==
    /\ DOMAIN invites \subseteq Invites
    /\ \A i \in DOMAIN invites :
          invites[i] \in [email : Emails, expires : Nat, user : 0..MaxAccounts,
                          status : {"pending", "accepted", "revoked"}]
    /\ births \in [Invites -> Nat]

RequestsOK ==
    /\ pc \in [Requests -> {"idle", "consume", "drop", "issue", "key", "invite",
                            "find", "create", "accept"}]
    /\ \A r \in Requests :
          held[r].user \in (IF pc[r] \in {"consume", "drop", "issue", "key", "accept"}
                            THEN Accounts ELSE {0})

IndInv ==
    /\ TablesOK /\ CredentialsOK /\ InvitesOK /\ RequestsOK /\ HeldOK /\ SerialsOK
    /\ GrantsOK /\ SessionKeepsGrant /\ NothingOutlivesAccount

\* The type invariant in parts.
LEMMA TypeParts == TypeOK <=> TablesOK /\ CredentialsOK /\ InvitesOK /\ RequestsOK
  BY DEF TypeOK, TablesOK, CredentialsOK, InvitesOK, RequestsOK

\* Accounts, codes and sessions that rows and requests name are typed.
LEMMA TableFacts ==
    ASSUME TablesOK
    PROVE  /\ DOMAIN users \subseteq Accounts /\ DOMAIN keys \subseteq Keys
           /\ DOMAIN grant \subseteq Codes /\ DOMAIN chain \subseteq Sessions
           /\ \A u \in DOMAIN users : users[u] \in Emails
           /\ \A k \in DOMAIN keys : keys[k] \in Accounts
           /\ \A k \in DOMAIN grant : grant[k] \in Grants
           /\ \A s \in DOMAIN chain : chain[s] \in Codes
  BY DEF TablesOK, Partial

\* A table in which every row is typed.
LEMMA PartialFacts ==
    ASSUME NEW D, NEW R, NEW f \in Partial(D, R)
    PROVE  DOMAIN f \subseteq D /\ \A y \in DOMAIN f : f[y] \in R
  BY DEF Partial

\* Inserting a typed row.
LEMMA PartialWith ==
    ASSUME NEW D, NEW R, NEW f \in Partial(D, R), NEW k \in D, NEW v \in R
    PROVE  With(f, k, v) \in Partial(D, R)
<1>1. With(f, k, v) \in [DOMAIN f \cup {k} -> R]
  BY PartialFacts DEF With
<1>2. DOMAIN f \cup {k} \in SUBSET D
  BY PartialFacts
<1>3. QED BY <1>1, <1>2 DEF Partial

\* Deleting rows.
LEMMA PartialWithout ==
    ASSUME NEW D, NEW R, NEW f \in Partial(D, R), NEW K
    PROVE  Without(f, K) \in Partial(D, R)
<1>1. Without(f, K) \in [DOMAIN f \ K -> R]
  BY PartialFacts DEF Without
<1>2. DOMAIN f \ K \in SUBSET D
  BY PartialFacts
<1>3. QED BY <1>1, <1>2 DEF Partial

\* A request that goes on takes a typed row along.
LEMMA GoesOK ==
    ASSUME RequestsOK, HeldOK, NEW r \in Requests, NEW what \in HeldRows,
           NEW to \in {"idle", "consume", "drop", "issue", "key", "invite", "find", "create",
                       "accept"},
           Goes(r, to, what),
           what.user \in (IF to \in {"consume", "drop", "issue", "key", "accept"}
                          THEN Accounts ELSE {0}),
           to \in {"invite", "find", "create"} => what.email \in Emails,
           to \in {"find", "create", "accept"} => what.row \in DOMAIN invites',
           DOMAIN invites \subseteq DOMAIN invites'
    PROVE  (RequestsOK /\ HeldOK)'
<1>1. /\ pc' = [pc EXCEPT ![r] = to] /\ held' = [held EXCEPT ![r] = what]
      /\ pc'[r] = to /\ held'[r] = what
      /\ \A q \in Requests : q # r => pc'[q] = pc[q] /\ held'[q] = held[q]
  BY DEF Goes, RequestsOK, HeldOK
<1>2. RequestsOK'
  BY <1>1 DEF RequestsOK, HeldOK
<1>3. held' \in [Requests -> HeldRows]
  BY <1>1 DEF HeldOK
<1>4. QED
  BY <1>1, <1>2, <1>3 DEF HeldOK

\* What a request holds before it starts and after it ends.
LEMMA IdleOK == Idle \in HeldRows /\ Idle.user = 0
  BY BoundsAssumption DEF Idle, HeldRows

\* A request that has ended keeps the types.
LEMMA HasFinished ==
    ASSUME RequestsOK, HeldOK, NEW r \in Requests, Done(r),
           DOMAIN invites \subseteq DOMAIN invites'
    PROVE  (RequestsOK /\ HeldOK)'
  BY GoesOK, IdleOK DEF Done

\* The number of the next invitation.
LEMMA NextInvite ==
    ASSUME DOMAIN invites \subseteq Invites, Cardinality(DOMAIN invites) < MaxInvites
    PROVE  Cardinality(DOMAIN invites) + 1 \in Invites
<1>1. IsFiniteSet(Invites)
  BY FS_Interval, BoundsAssumption DEF Invites
<1>2. IsFiniteSet(DOMAIN invites)
  BY <1>1, FS_Subset
<1>3. Cardinality(DOMAIN invites) \in Nat
  BY <1>2, FS_CardinalityType
<1>4. QED BY <1>3, BoundsAssumption DEF Invites

\* Numbers are handed out once.
LEMMA SerialStep ==
    ASSUME IndInv, [Next]_vars
    PROVE  SerialsOK'
<1>1. ASSUME NEW u \in DOMAIN users, NEW c \in Clients, NEW ch \in Verifiers \cup {None},
             AuthorizePost(u, c, ch)
      PROVE  SerialsOK'
  BY <1>1, TableFacts, BoundsAssumption
    DEF AuthorizePost, IndInv, SerialsOK, Codes, ghosts, With
<1>2. ASSUME NEW r \in Requests, NEW k \in DOMAIN codes, NEW c \in Clients \cup {None},
             NEW v \in Verifiers \cup {None}, ExchangeRead(r, k, c, v)
      PROVE  SerialsOK'
  BY <1>2, TableFacts, BoundsAssumption
    DEF ExchangeRead, IndInv, SerialsOK, Codes, Goes, Idle, rows, serials, ghosts
<1>3. ASSUME NEW r \in Requests, NEW s \in DOMAIN sessions, RefreshRead(r, s) PROVE SerialsOK'
  BY <1>3, TableFacts, BoundsAssumption
    DEF RefreshRead, IndInv, SerialsOK, Codes, Goes, Idle, rows, serials, ghosts
<1>4. ASSUME NEW r \in Requests, DeleteOAuthCode(r) PROVE SerialsOK'
  BY <1>4, TableFacts, BoundsAssumption
    DEF DeleteOAuthCode, IndInv, SerialsOK, Codes, serials, ghosts, Without
<1>5. ASSUME NEW r \in Requests, DeleteOAuthSession(r) PROVE SerialsOK'
  BY <1>5, TableFacts, BoundsAssumption
    DEF DeleteOAuthSession, IndInv, SerialsOK, Codes, serials, ghosts, Without
<1>6. ASSUME NEW r \in Requests, CreateOAuthSession(r) PROVE SerialsOK'
  BY <1>6, TableFacts, BoundsAssumption
    DEF CreateOAuthSession, IndInv, SerialsOK, Codes, Goes, Done, Idle, ghosts, With
<1>7. ASSUME NEW r \in Requests, NEW u \in DOMAIN users, GenerateAPIKey(r, u) PROVE SerialsOK'
  BY <1>7, TableFacts, BoundsAssumption
    DEF GenerateAPIKey, IndInv, SerialsOK, Codes, Goes, Idle, rows, serials, ghosts
<1>8. ASSUME NEW r \in Requests, CreateAPIKey(r) PROVE SerialsOK'
  BY <1>8, TableFacts, BoundsAssumption
    DEF CreateAPIKey, IndInv, SerialsOK, Codes, Goes, Done, Idle, ghosts, With
<1>9. ASSUME NEW k \in DOMAIN codes, ExchangeExpired(k) PROVE SerialsOK'
  BY <1>9, TableFacts, BoundsAssumption
    DEF ExchangeExpired, IndInv, SerialsOK, Codes, serials, ghosts, Without
<1>10. ASSUME NEW s \in DOMAIN sessions, MiddlewareExpired(s) PROVE SerialsOK'
  BY <1>10, TableFacts, BoundsAssumption
    DEF MiddlewareExpired, IndInv, SerialsOK, Codes, serials, ghosts, Without
<1>11. ASSUME NEW k \in DOMAIN keys, DeleteAPIKey(k) PROVE SerialsOK'
  BY <1>11, TableFacts, BoundsAssumption
    DEF DeleteAPIKey, IndInv, SerialsOK, Codes, serials, ghosts, Without
<1>12. ASSUME NEW r \in Requests, NEW e \in Emails, AdminInvitesCreate(r, e) PROVE SerialsOK'
  BY <1>12, TableFacts, BoundsAssumption
    DEF AdminInvitesCreate, IndInv, SerialsOK, Codes, Goes, Idle, rows, serials, ghosts
<1>13. ASSUME NEW r \in Requests, CreateInvite(r) PROVE SerialsOK'
  BY <1>13, TableFacts, BoundsAssumption
    DEF CreateInvite, IndInv, SerialsOK, Codes, Goes, Done, Idle, serials, ghosts, With
<1>14. ASSUME NEW r \in Requests, NEW i \in DOMAIN invites,
              LookupValidInvite(r, i)
       PROVE  SerialsOK'
  BY <1>14, TableFacts, BoundsAssumption
    DEF LookupValidInvite, IndInv, SerialsOK, Reads, Codes, Goes, Idle, rows, serials, ghosts
<1>15. ASSUME NEW r \in Requests, GetUserByEmail(r) PROVE SerialsOK'
  BY <1>15, TableFacts, BoundsAssumption
    DEF GetUserByEmail, IndInv, SerialsOK, Codes, Goes, Done, Idle, rows, serials, ghosts
<1>16. ASSUME NEW r \in Requests, CreateUser(r) PROVE SerialsOK'
  BY <1>16, TableFacts, BoundsAssumption
    DEF CreateUser, IndInv, SerialsOK, Codes, Goes, Done, Idle, ghosts, With
<1>17. ASSUME NEW r \in Requests, MarkInviteAccepted(r) PROVE SerialsOK'
  BY <1>17, TableFacts, BoundsAssumption
    DEF MarkInviteAccepted, IndInv, SerialsOK, Codes, Goes, Done, Idle, serials, ghosts
<1>18. ASSUME NEW i \in DOMAIN invites, RevokeInvite(i) PROVE SerialsOK'
  BY <1>18, TableFacts, BoundsAssumption
    DEF RevokeInvite, IndInv, SerialsOK, Codes, serials, ghosts
<1>19. CASE Tick
  BY <1>19, TableFacts, BoundsAssumption
    DEF Tick, IndInv, SerialsOK, Codes, rows, serials, ghosts
<1>20. ASSUME NEW e \in Emails, AdminUsersCreate(e) PROVE SerialsOK'
  BY <1>20, TableFacts, BoundsAssumption
    DEF AdminUsersCreate, IndInv, SerialsOK, Codes, ghosts, With
<1>21. ASSUME NEW u \in DOMAIN users, DeleteUser(u) PROVE SerialsOK'
  BY <1>21, TableFacts, BoundsAssumption
    DEF DeleteUser, IndInv, SerialsOK, Codes, serials, ghosts, Without
<1>22. ASSUME NEW u \in DOMAIN users, NEW e \in Emails, AdminUsersEdit(u, e)
       PROVE  SerialsOK'
  BY <1>22, TableFacts, BoundsAssumption
    DEF AdminUsersEdit, IndInv, SerialsOK, Codes, serials, ghosts
<1>23. CASE Restart
  BY <1>23, TableFacts, BoundsAssumption
    DEF Restart, IndInv, SerialsOK, Codes, Idle, rows, serials, ghosts
<1>24. CASE UNCHANGED vars
  BY <1>24
    DEF vars, IndInv, SerialsOK, Codes, rows, serials, ghosts
<1>25. QED
  BY <1>1, <1>2, <1>3, <1>4, <1>5, <1>6, <1>7, <1>8, <1>9, <1>10, <1>11, <1>12, <1>13, <1>14,
     <1>15, <1>16, <1>17, <1>18, <1>19, <1>20, <1>21, <1>22, <1>23, <1>24
    DEF Next, OAuthNext, InviteNext

\* Codes, sessions and requests keep their grant.
LEMMA GrantsStep ==
    ASSUME IndInv, [Next]_vars
    PROVE  GrantsOK'
<1>1. ASSUME NEW u \in DOMAIN users, NEW c \in Clients, NEW ch \in Verifiers \cup {None},
             AuthorizePost(u, c, ch)
      PROVE  GrantsOK'
  BY <1>1, TableFacts
    DEF AuthorizePost, IndInv, GrantsOK, CredentialsOK, RequestsOK, HeldOK, SerialsOK,
       SessionKeepsGrant, ghosts, With
<1>2. ASSUME NEW r \in Requests, NEW k \in DOMAIN codes, NEW c \in Clients \cup {None},
             NEW v \in Verifiers \cup {None}, ExchangeRead(r, k, c, v)
      PROVE  GrantsOK'
  BY <1>2, TableFacts
    DEF ExchangeRead, IndInv, GrantsOK, CredentialsOK, RequestsOK, HeldOK, SerialsOK,
       SessionKeepsGrant, Goes, Idle, rows, serials, ghosts
<1>3. ASSUME NEW r \in Requests, NEW s \in DOMAIN sessions, RefreshRead(r, s) PROVE GrantsOK'
  BY <1>3, TableFacts
    DEF RefreshRead, IndInv, GrantsOK, CredentialsOK, RequestsOK, HeldOK, SerialsOK,
       SessionKeepsGrant, Goes, Idle, rows, serials, ghosts
<1>4. ASSUME NEW r \in Requests, DeleteOAuthCode(r) PROVE GrantsOK'
  BY <1>4, TableFacts
    DEF DeleteOAuthCode, IndInv, GrantsOK, CredentialsOK, RequestsOK, HeldOK, SerialsOK,
       SessionKeepsGrant, serials, ghosts, Without
<1>5. ASSUME NEW r \in Requests, DeleteOAuthSession(r) PROVE GrantsOK'
  BY <1>5, TableFacts
    DEF DeleteOAuthSession, IndInv, GrantsOK, CredentialsOK, RequestsOK, HeldOK, SerialsOK,
       SessionKeepsGrant, serials, ghosts, Without
<1>6. ASSUME NEW r \in Requests, CreateOAuthSession(r) PROVE GrantsOK'
  BY <1>6, TableFacts
    DEF CreateOAuthSession, IndInv, GrantsOK, CredentialsOK, RequestsOK, HeldOK, SerialsOK,
       SessionKeepsGrant, Goes, Done, Idle, ghosts, With
<1>7. ASSUME NEW r \in Requests, NEW u \in DOMAIN users, GenerateAPIKey(r, u) PROVE GrantsOK'
  BY <1>7, TableFacts
    DEF GenerateAPIKey, IndInv, GrantsOK, CredentialsOK, RequestsOK, HeldOK, SerialsOK,
       SessionKeepsGrant, Goes, Idle, rows, serials, ghosts
<1>8. ASSUME NEW r \in Requests, CreateAPIKey(r) PROVE GrantsOK'
  BY <1>8, TableFacts
    DEF CreateAPIKey, IndInv, GrantsOK, CredentialsOK, RequestsOK, HeldOK, SerialsOK,
       SessionKeepsGrant, Goes, Done, Idle, ghosts, With
<1>9. ASSUME NEW k \in DOMAIN codes, ExchangeExpired(k) PROVE GrantsOK'
  BY <1>9, TableFacts
    DEF ExchangeExpired, IndInv, GrantsOK, CredentialsOK, RequestsOK, HeldOK, SerialsOK,
       SessionKeepsGrant, serials, ghosts, Without
<1>10. ASSUME NEW s \in DOMAIN sessions, MiddlewareExpired(s) PROVE GrantsOK'
  BY <1>10, TableFacts
    DEF MiddlewareExpired, IndInv, GrantsOK, CredentialsOK, RequestsOK, HeldOK, SerialsOK,
       SessionKeepsGrant, serials, ghosts, Without
<1>11. ASSUME NEW k \in DOMAIN keys, DeleteAPIKey(k) PROVE GrantsOK'
  BY <1>11, TableFacts
    DEF DeleteAPIKey, IndInv, GrantsOK, CredentialsOK, RequestsOK, HeldOK, SerialsOK,
       SessionKeepsGrant, serials, ghosts, Without
<1>12. ASSUME NEW r \in Requests, NEW e \in Emails, AdminInvitesCreate(r, e) PROVE GrantsOK'
  BY <1>12, TableFacts
    DEF AdminInvitesCreate, IndInv, GrantsOK, CredentialsOK, RequestsOK, HeldOK, SerialsOK,
       SessionKeepsGrant, Goes, Idle, rows, serials, ghosts
<1>13. ASSUME NEW r \in Requests, CreateInvite(r) PROVE GrantsOK'
  BY <1>13, TableFacts
    DEF CreateInvite, IndInv, GrantsOK, CredentialsOK, RequestsOK, HeldOK, SerialsOK,
       SessionKeepsGrant, Goes, Done, Idle, serials, ghosts, With
<1>14. ASSUME NEW r \in Requests, NEW i \in DOMAIN invites,
              LookupValidInvite(r, i)
       PROVE  GrantsOK'
  BY <1>14, TableFacts
    DEF LookupValidInvite, IndInv, GrantsOK, CredentialsOK, RequestsOK, HeldOK, SerialsOK,
       SessionKeepsGrant, Reads, Goes, Idle, rows, serials, ghosts
<1>15. ASSUME NEW r \in Requests, GetUserByEmail(r) PROVE GrantsOK'
  BY <1>15, TableFacts
    DEF GetUserByEmail, IndInv, GrantsOK, CredentialsOK, RequestsOK, HeldOK, SerialsOK,
       SessionKeepsGrant, Goes, Done, Idle, rows, serials, ghosts
<1>16. ASSUME NEW r \in Requests, CreateUser(r) PROVE GrantsOK'
  BY <1>16, TableFacts
    DEF CreateUser, IndInv, GrantsOK, CredentialsOK, RequestsOK, HeldOK, SerialsOK,
       SessionKeepsGrant, Goes, Done, Idle, ghosts, With
<1>17. ASSUME NEW r \in Requests, MarkInviteAccepted(r) PROVE GrantsOK'
  BY <1>17, TableFacts
    DEF MarkInviteAccepted, IndInv, GrantsOK, CredentialsOK, RequestsOK, HeldOK, SerialsOK,
       SessionKeepsGrant, Goes, Done, Idle, serials, ghosts
<1>18. ASSUME NEW i \in DOMAIN invites, RevokeInvite(i) PROVE GrantsOK'
  BY <1>18, TableFacts
    DEF RevokeInvite, IndInv, GrantsOK, CredentialsOK, RequestsOK, HeldOK, SerialsOK,
       SessionKeepsGrant, serials, ghosts
<1>19. CASE Tick
  BY <1>19, TableFacts
    DEF Tick, IndInv, GrantsOK, CredentialsOK, RequestsOK, HeldOK, SerialsOK, SessionKeepsGrant,
       rows, serials, ghosts
<1>20. ASSUME NEW e \in Emails, AdminUsersCreate(e) PROVE GrantsOK'
  BY <1>20, TableFacts
    DEF AdminUsersCreate, IndInv, GrantsOK, CredentialsOK, RequestsOK, HeldOK, SerialsOK,
       SessionKeepsGrant, ghosts, With
<1>21. ASSUME NEW u \in DOMAIN users, DeleteUser(u) PROVE GrantsOK'
  BY <1>21, TableFacts
    DEF DeleteUser, IndInv, GrantsOK, CredentialsOK, RequestsOK, HeldOK, SerialsOK,
       SessionKeepsGrant, serials, ghosts, Without
<1>22. ASSUME NEW u \in DOMAIN users, NEW e \in Emails, AdminUsersEdit(u, e)
       PROVE  GrantsOK'
  BY <1>22, TableFacts
    DEF AdminUsersEdit, IndInv, GrantsOK, CredentialsOK, RequestsOK, HeldOK, SerialsOK,
       SessionKeepsGrant, serials, ghosts
<1>23. CASE Restart
  BY <1>23, TableFacts
    DEF Restart, IndInv, GrantsOK, CredentialsOK, RequestsOK, HeldOK, SerialsOK, SessionKeepsGrant,
       Idle, rows, serials, ghosts
<1>24. CASE UNCHANGED vars
  BY <1>24
    DEF vars, IndInv, GrantsOK, CredentialsOK, RequestsOK, HeldOK, SerialsOK, SessionKeepsGrant,
       rows, serials, ghosts
<1>25. QED
  BY <1>1, <1>2, <1>3, <1>4, <1>5, <1>6, <1>7, <1>8, <1>9, <1>10, <1>11, <1>12, <1>13, <1>14,
     <1>15, <1>16, <1>17, <1>18, <1>19, <1>20, <1>21, <1>22, <1>23, <1>24
    DEF Next, OAuthNext, InviteNext

\* Each step keeps SessionKeepsGrant.
LEMMA SessionStep ==
    ASSUME IndInv, [Next]_vars
    PROVE  SessionKeepsGrant'
<1>1. ASSUME NEW u \in DOMAIN users, NEW c \in Clients, NEW ch \in Verifiers \cup {None},
             AuthorizePost(u, c, ch)
      PROVE  SessionKeepsGrant'
  BY <1>1
    DEF AuthorizePost, IndInv, SessionKeepsGrant, GrantsOK, SerialsOK, CredentialsOK,
       ghosts, With
<1>2. ASSUME NEW r \in Requests, NEW k \in DOMAIN codes, NEW c \in Clients \cup {None},
             NEW v \in Verifiers \cup {None}, ExchangeRead(r, k, c, v)
      PROVE  SessionKeepsGrant'
  BY <1>2
    DEF ExchangeRead, IndInv, SessionKeepsGrant, GrantsOK, SerialsOK, CredentialsOK, Goes, Idle,
       rows, serials, ghosts
<1>3. ASSUME NEW r \in Requests, NEW s \in DOMAIN sessions,
             RefreshRead(r, s)
      PROVE  SessionKeepsGrant'
  BY <1>3
    DEF RefreshRead, IndInv, SessionKeepsGrant, GrantsOK, SerialsOK, CredentialsOK, Goes, Idle,
       rows, serials, ghosts
<1>4. ASSUME NEW r \in Requests, DeleteOAuthCode(r) PROVE SessionKeepsGrant'
  BY <1>4
    DEF DeleteOAuthCode, IndInv, SessionKeepsGrant, GrantsOK, SerialsOK, CredentialsOK, serials,
       ghosts, Without
<1>5. ASSUME NEW r \in Requests, DeleteOAuthSession(r) PROVE SessionKeepsGrant'
  BY <1>5
    DEF DeleteOAuthSession, IndInv, SessionKeepsGrant, GrantsOK, SerialsOK, CredentialsOK,
       serials, ghosts, Without
<1>6. ASSUME NEW r \in Requests, CreateOAuthSession(r) PROVE SessionKeepsGrant'
  BY <1>6
    DEF CreateOAuthSession, IndInv, SessionKeepsGrant, GrantsOK, SerialsOK, CredentialsOK, Goes,
       Done, Idle, ghosts, With
<1>7. ASSUME NEW r \in Requests, NEW u \in DOMAIN users,
             GenerateAPIKey(r, u)
      PROVE  SessionKeepsGrant'
  BY <1>7
    DEF GenerateAPIKey, IndInv, SessionKeepsGrant, GrantsOK, SerialsOK, CredentialsOK, Goes,
       Idle, rows, serials, ghosts
<1>8. ASSUME NEW r \in Requests, CreateAPIKey(r) PROVE SessionKeepsGrant'
  BY <1>8
    DEF CreateAPIKey, IndInv, SessionKeepsGrant, GrantsOK, SerialsOK, CredentialsOK, Goes, Done,
       Idle, ghosts, With
<1>9. ASSUME NEW k \in DOMAIN codes, ExchangeExpired(k) PROVE SessionKeepsGrant'
  BY <1>9
    DEF ExchangeExpired, IndInv, SessionKeepsGrant, GrantsOK, SerialsOK, CredentialsOK, serials,
       ghosts, Without
<1>10. ASSUME NEW s \in DOMAIN sessions, MiddlewareExpired(s) PROVE SessionKeepsGrant'
  BY <1>10
    DEF MiddlewareExpired, IndInv, SessionKeepsGrant, GrantsOK, SerialsOK, CredentialsOK,
       serials, ghosts, Without
<1>11. ASSUME NEW k \in DOMAIN keys, DeleteAPIKey(k) PROVE SessionKeepsGrant'
  BY <1>11
    DEF DeleteAPIKey, IndInv, SessionKeepsGrant, GrantsOK, SerialsOK, CredentialsOK, serials,
       ghosts, Without
<1>12. ASSUME NEW r \in Requests, NEW e \in Emails,
              AdminInvitesCreate(r, e)
       PROVE  SessionKeepsGrant'
  BY <1>12
    DEF AdminInvitesCreate, IndInv, SessionKeepsGrant, GrantsOK, SerialsOK, CredentialsOK, Goes,
       Idle, rows, serials, ghosts
<1>13. ASSUME NEW r \in Requests, CreateInvite(r) PROVE SessionKeepsGrant'
  BY <1>13
    DEF CreateInvite, IndInv, SessionKeepsGrant, GrantsOK, SerialsOK, CredentialsOK, Goes, Done,
       Idle, serials, ghosts, With
<1>14. ASSUME NEW r \in Requests, NEW i \in DOMAIN invites,
              LookupValidInvite(r, i)
       PROVE  SessionKeepsGrant'
  BY <1>14
    DEF LookupValidInvite, IndInv, SessionKeepsGrant, GrantsOK, SerialsOK, CredentialsOK, Reads,
       Goes, Idle, rows, serials, ghosts
<1>15. ASSUME NEW r \in Requests, GetUserByEmail(r) PROVE SessionKeepsGrant'
  BY <1>15
    DEF GetUserByEmail, IndInv, SessionKeepsGrant, GrantsOK, SerialsOK, CredentialsOK, Goes,
       Done, Idle, rows, serials, ghosts
<1>16. ASSUME NEW r \in Requests, CreateUser(r) PROVE SessionKeepsGrant'
  BY <1>16
    DEF CreateUser, IndInv, SessionKeepsGrant, GrantsOK, SerialsOK, CredentialsOK, Goes, Done,
       Idle, ghosts, With
<1>17. ASSUME NEW r \in Requests, MarkInviteAccepted(r) PROVE SessionKeepsGrant'
  BY <1>17
    DEF MarkInviteAccepted, IndInv, SessionKeepsGrant, GrantsOK, SerialsOK, CredentialsOK, Goes,
       Done, Idle, serials, ghosts
<1>18. ASSUME NEW i \in DOMAIN invites, RevokeInvite(i) PROVE SessionKeepsGrant'
  BY <1>18
    DEF RevokeInvite, IndInv, SessionKeepsGrant, GrantsOK, SerialsOK, CredentialsOK, serials,
       ghosts
<1>19. CASE Tick
  BY <1>19
    DEF Tick, IndInv, SessionKeepsGrant, GrantsOK, SerialsOK, CredentialsOK, rows, serials,
       ghosts
<1>20. ASSUME NEW e \in Emails, AdminUsersCreate(e) PROVE SessionKeepsGrant'
  BY <1>20
    DEF AdminUsersCreate, IndInv, SessionKeepsGrant, GrantsOK, SerialsOK, CredentialsOK,
       ghosts, With
<1>21. ASSUME NEW u \in DOMAIN users, DeleteUser(u) PROVE SessionKeepsGrant'
  BY <1>21
    DEF DeleteUser, IndInv, SessionKeepsGrant, GrantsOK, SerialsOK, CredentialsOK, serials,
       ghosts, Without
<1>22. ASSUME NEW u \in DOMAIN users, NEW e \in Emails, AdminUsersEdit(u, e)
       PROVE  SessionKeepsGrant'
  BY <1>22
    DEF AdminUsersEdit, IndInv, SessionKeepsGrant, GrantsOK, SerialsOK, CredentialsOK, serials,
       ghosts
<1>23. CASE Restart
  BY <1>23
    DEF Restart, IndInv, SessionKeepsGrant, GrantsOK, SerialsOK, CredentialsOK, Idle, rows, serials,
       ghosts
<1>24. CASE UNCHANGED vars
  BY <1>24
    DEF vars, IndInv, SessionKeepsGrant, GrantsOK, SerialsOK, CredentialsOK, rows, serials,
       ghosts
<1>25. QED
  BY <1>1, <1>2, <1>3, <1>4, <1>5, <1>6, <1>7, <1>8, <1>9, <1>10, <1>11, <1>12, <1>13, <1>14,
     <1>15, <1>16, <1>17, <1>18, <1>19, <1>20, <1>21, <1>22, <1>23, <1>24
    DEF Next, OAuthNext, InviteNext

\* Each step keeps NothingOutlivesAccount.
LEMMA OutliveStep ==
    ASSUME IndInv, [Next]_vars
    PROVE  NothingOutlivesAccount'
<1>1. ASSUME NEW u \in DOMAIN users, NEW c \in Clients, NEW ch \in Verifiers \cup {None},
             AuthorizePost(u, c, ch)
      PROVE  NothingOutlivesAccount'
  BY <1>1
    DEF AuthorizePost, IndInv, NothingOutlivesAccount, CredentialsOK, ghosts, With
<1>2. ASSUME NEW r \in Requests, NEW k \in DOMAIN codes, NEW c \in Clients \cup {None},
             NEW v \in Verifiers \cup {None}, ExchangeRead(r, k, c, v)
      PROVE  NothingOutlivesAccount'
  BY <1>2
    DEF ExchangeRead, IndInv, NothingOutlivesAccount, CredentialsOK, Goes, Idle, rows, serials,
       ghosts
<1>3. ASSUME NEW r \in Requests, NEW s \in DOMAIN sessions,
             RefreshRead(r, s)
      PROVE  NothingOutlivesAccount'
  BY <1>3
    DEF RefreshRead, IndInv, NothingOutlivesAccount, CredentialsOK, Goes, Idle, rows, serials,
       ghosts
<1>4. ASSUME NEW r \in Requests, DeleteOAuthCode(r) PROVE NothingOutlivesAccount'
  BY <1>4
    DEF DeleteOAuthCode, IndInv, NothingOutlivesAccount, CredentialsOK, serials, ghosts, Without
<1>5. ASSUME NEW r \in Requests, DeleteOAuthSession(r) PROVE NothingOutlivesAccount'
  BY <1>5
    DEF DeleteOAuthSession, IndInv, NothingOutlivesAccount, CredentialsOK, serials, ghosts, Without
<1>6. ASSUME NEW r \in Requests, CreateOAuthSession(r) PROVE NothingOutlivesAccount'
  BY <1>6
    DEF CreateOAuthSession, IndInv, NothingOutlivesAccount, CredentialsOK, Goes, Done, Idle,
       ghosts, With
<1>7. ASSUME NEW r \in Requests, NEW u \in DOMAIN users,
             GenerateAPIKey(r, u)
      PROVE  NothingOutlivesAccount'
  BY <1>7
    DEF GenerateAPIKey, IndInv, NothingOutlivesAccount, CredentialsOK, Goes, Idle, rows, serials,
       ghosts
<1>8. ASSUME NEW r \in Requests, CreateAPIKey(r) PROVE NothingOutlivesAccount'
  BY <1>8
    DEF CreateAPIKey, IndInv, NothingOutlivesAccount, CredentialsOK, Goes, Done, Idle,
       ghosts, With
<1>9. ASSUME NEW k \in DOMAIN codes, ExchangeExpired(k) PROVE NothingOutlivesAccount'
  BY <1>9
    DEF ExchangeExpired, IndInv, NothingOutlivesAccount, CredentialsOK, serials, ghosts, Without
<1>10. ASSUME NEW s \in DOMAIN sessions, MiddlewareExpired(s) PROVE NothingOutlivesAccount'
  BY <1>10
    DEF MiddlewareExpired, IndInv, NothingOutlivesAccount, CredentialsOK, serials, ghosts, Without
<1>11. ASSUME NEW k \in DOMAIN keys, DeleteAPIKey(k) PROVE NothingOutlivesAccount'
  BY <1>11
    DEF DeleteAPIKey, IndInv, NothingOutlivesAccount, CredentialsOK, serials, ghosts, Without
<1>12. ASSUME NEW r \in Requests, NEW e \in Emails,
              AdminInvitesCreate(r, e)
       PROVE  NothingOutlivesAccount'
  BY <1>12
    DEF AdminInvitesCreate, IndInv, NothingOutlivesAccount, CredentialsOK, Goes, Idle, rows,
       serials, ghosts
<1>13. ASSUME NEW r \in Requests, CreateInvite(r) PROVE NothingOutlivesAccount'
  BY <1>13
    DEF CreateInvite, IndInv, NothingOutlivesAccount, CredentialsOK, Goes, Done, Idle, serials,
       ghosts, With
<1>14. ASSUME NEW r \in Requests, NEW i \in DOMAIN invites,
              LookupValidInvite(r, i)
       PROVE  NothingOutlivesAccount'
  BY <1>14
    DEF LookupValidInvite, IndInv, NothingOutlivesAccount, CredentialsOK, Reads, Goes, Idle,
       rows, serials, ghosts
<1>15. ASSUME NEW r \in Requests, GetUserByEmail(r) PROVE NothingOutlivesAccount'
  BY <1>15
    DEF GetUserByEmail, IndInv, NothingOutlivesAccount, CredentialsOK, Goes, Done, Idle, rows,
       serials, ghosts
<1>16. ASSUME NEW r \in Requests, CreateUser(r) PROVE NothingOutlivesAccount'
  BY <1>16
    DEF CreateUser, IndInv, NothingOutlivesAccount, CredentialsOK, Goes, Done, Idle, ghosts,
       With
<1>17. ASSUME NEW r \in Requests, MarkInviteAccepted(r) PROVE NothingOutlivesAccount'
  BY <1>17
    DEF MarkInviteAccepted, IndInv, NothingOutlivesAccount, CredentialsOK, Goes, Done, Idle,
       serials, ghosts
<1>18. ASSUME NEW i \in DOMAIN invites, RevokeInvite(i) PROVE NothingOutlivesAccount'
  BY <1>18
    DEF RevokeInvite, IndInv, NothingOutlivesAccount, CredentialsOK, serials, ghosts
<1>19. CASE Tick
  BY <1>19
    DEF Tick, IndInv, NothingOutlivesAccount, CredentialsOK, rows, serials, ghosts
<1>20. ASSUME NEW e \in Emails, AdminUsersCreate(e) PROVE NothingOutlivesAccount'
  BY <1>20
    DEF AdminUsersCreate, IndInv, NothingOutlivesAccount, CredentialsOK, ghosts, With
<1>21. ASSUME NEW u \in DOMAIN users, DeleteUser(u) PROVE NothingOutlivesAccount'
  BY <1>21
    DEF DeleteUser, IndInv, NothingOutlivesAccount, CredentialsOK, serials, ghosts, Without
<1>22. ASSUME NEW u \in DOMAIN users, NEW e \in Emails, AdminUsersEdit(u, e)
       PROVE  NothingOutlivesAccount'
  BY <1>22
    DEF AdminUsersEdit, IndInv, NothingOutlivesAccount, CredentialsOK, serials, ghosts
<1>23. CASE Restart
  BY <1>23
    DEF Restart, IndInv, NothingOutlivesAccount, CredentialsOK, Idle, rows, serials, ghosts
<1>24. CASE UNCHANGED vars
  BY <1>24
    DEF vars, IndInv, NothingOutlivesAccount, CredentialsOK, rows, serials, ghosts
<1>25. QED
  BY <1>1, <1>2, <1>3, <1>4, <1>5, <1>6, <1>7, <1>8, <1>9, <1>10, <1>11, <1>12, <1>13, <1>14,
     <1>15, <1>16, <1>17, <1>18, <1>19, <1>20, <1>21, <1>22, <1>23, <1>24
    DEF Next, OAuthNext, InviteNext

\* Each step keeps the types of users, keys and ghosts.
LEMMA TablesStep ==
    ASSUME IndInv, [Next]_vars
    PROVE  TablesOK'
<1>1. ASSUME NEW u \in DOMAIN users, NEW c \in Clients, NEW ch \in Verifiers \cup {None},
             AuthorizePost(u, c, ch)
      PROVE  TablesOK'
  <2>1. nextCode \in Codes /\ [user |-> u, client |-> c] \in Grants
    BY <1>1, TableFacts, BoundsAssumption DEF AuthorizePost, IndInv, SerialsOK, Codes, Grants
  <2>2. grant' \in Partial(Codes, Grants)
    BY <1>1, <2>1, PartialWith DEF AuthorizePost, IndInv, TablesOK
  <2>3. QED
    BY <1>1, <2>2 DEF AuthorizePost, IndInv, TablesOK
<1>2. ASSUME NEW r \in Requests, NEW k \in DOMAIN codes, NEW c \in Clients \cup {None},
             NEW v \in Verifiers \cup {None}, ExchangeRead(r, k, c, v)
      PROVE  TablesOK'
  BY <1>2, PartialWithout
    DEF ExchangeRead, IndInv, TablesOK, rows, serials, ghosts
<1>3. ASSUME NEW r \in Requests, NEW s \in DOMAIN sessions, RefreshRead(r, s) PROVE TablesOK'
  BY <1>3, PartialWithout
    DEF RefreshRead, IndInv, TablesOK, rows, serials, ghosts
<1>4. ASSUME NEW r \in Requests, DeleteOAuthCode(r) PROVE TablesOK'
  BY <1>4, PartialWithout
    DEF DeleteOAuthCode, IndInv, TablesOK, serials, ghosts
<1>5. ASSUME NEW r \in Requests, DeleteOAuthSession(r) PROVE TablesOK'
  BY <1>5, PartialWithout
    DEF DeleteOAuthSession, IndInv, TablesOK, serials, ghosts
<1>6. ASSUME NEW r \in Requests, CreateOAuthSession(r) PROVE TablesOK'
  <2>1. CASE held[r].user \in DOMAIN users
    <3>1. nextSession \in Sessions /\ held[r].chain \in Codes
      BY <1>6, TableFacts, BoundsAssumption
        DEF CreateOAuthSession, IndInv, SerialsOK, GrantsOK, Sessions
    <3>2. chain' \in Partial(Sessions, Codes)
      BY <1>6, <2>1, <3>1, PartialWith DEF CreateOAuthSession, IndInv, TablesOK
    <3>3. QED
      BY <1>6, <3>2 DEF CreateOAuthSession, IndInv, TablesOK
  <2>2. CASE held[r].user \notin DOMAIN users
    BY <1>6, <2>2 DEF CreateOAuthSession, IndInv, TablesOK
  <2>3. QED BY <2>1, <2>2
<1>7. ASSUME NEW r \in Requests, NEW u \in DOMAIN users, GenerateAPIKey(r, u) PROVE TablesOK'
  BY <1>7, PartialWithout
    DEF GenerateAPIKey, IndInv, TablesOK, rows, serials, ghosts
<1>8. ASSUME NEW r \in Requests, CreateAPIKey(r) PROVE TablesOK'
  <2>1. CASE held[r].user \in DOMAIN users
    <3>1. nextKey \in Keys /\ held[r].user \in Accounts
      BY <1>8, <2>1, TableFacts, BoundsAssumption DEF CreateAPIKey, IndInv, SerialsOK, Keys
    <3>2. keys' \in Partial(Keys, Accounts)
      BY <1>8, <2>1, <3>1, PartialWith DEF CreateAPIKey, IndInv, TablesOK
    <3>3. QED
      BY <1>8, <3>2 DEF CreateAPIKey, IndInv, TablesOK, ghosts
  <2>2. CASE held[r].user \notin DOMAIN users
    BY <1>8, <2>2 DEF CreateAPIKey, IndInv, TablesOK, ghosts
  <2>3. QED BY <2>1, <2>2
<1>9. ASSUME NEW k \in DOMAIN codes, ExchangeExpired(k) PROVE TablesOK'
  BY <1>9, PartialWithout
    DEF ExchangeExpired, IndInv, TablesOK, serials, ghosts
<1>10. ASSUME NEW s \in DOMAIN sessions, MiddlewareExpired(s) PROVE TablesOK'
  BY <1>10, PartialWithout
    DEF MiddlewareExpired, IndInv, TablesOK, serials, ghosts
<1>11. ASSUME NEW k \in DOMAIN keys, DeleteAPIKey(k) PROVE TablesOK'
  BY <1>11, PartialWithout
    DEF DeleteAPIKey, IndInv, TablesOK, serials, ghosts
<1>12. ASSUME NEW r \in Requests, NEW e \in Emails, AdminInvitesCreate(r, e) PROVE TablesOK'
  BY <1>12, PartialWithout
    DEF AdminInvitesCreate, IndInv, TablesOK, rows, serials, ghosts
<1>13. ASSUME NEW r \in Requests, CreateInvite(r) PROVE TablesOK'
  BY <1>13, PartialWithout
    DEF CreateInvite, IndInv, TablesOK, serials, ghosts
<1>14. ASSUME NEW r \in Requests, NEW i \in DOMAIN invites,
              LookupValidInvite(r, i)
       PROVE  TablesOK'
  BY <1>14, PartialWithout
    DEF LookupValidInvite, IndInv, TablesOK, Reads, rows, serials, ghosts
<1>15. ASSUME NEW r \in Requests, GetUserByEmail(r) PROVE TablesOK'
  BY <1>15, PartialWithout
    DEF GetUserByEmail, IndInv, TablesOK, rows, serials, ghosts
<1>16. ASSUME NEW r \in Requests, CreateUser(r) PROVE TablesOK'
  <2>1. CASE ~Taken(held[r].email)
    <3>1. nextUser \in Accounts /\ held[r].email \in Emails
      BY <1>16, BoundsAssumption DEF CreateUser, IndInv, SerialsOK, HeldOK, Accounts
    <3>2. users' \in Partial(Accounts, Emails)
      BY <1>16, <2>1, <3>1, PartialWith DEF CreateUser, IndInv, TablesOK
    <3>3. QED
      BY <1>16, <3>2 DEF CreateUser, IndInv, TablesOK, ghosts
  <2>2. CASE Taken(held[r].email)
    BY <1>16, <2>2 DEF CreateUser, IndInv, TablesOK, ghosts
  <2>3. QED BY <2>1, <2>2
<1>17. ASSUME NEW r \in Requests, MarkInviteAccepted(r) PROVE TablesOK'
  BY <1>17, PartialWithout
    DEF MarkInviteAccepted, IndInv, TablesOK, serials, ghosts
<1>18. ASSUME NEW i \in DOMAIN invites, RevokeInvite(i) PROVE TablesOK'
  BY <1>18, PartialWithout
    DEF RevokeInvite, IndInv, TablesOK, serials, ghosts
<1>19. CASE Tick
  BY <1>19, PartialWithout
    DEF Tick, IndInv, TablesOK, rows, serials, ghosts
<1>20. ASSUME NEW e \in Emails, AdminUsersCreate(e) PROVE TablesOK'
  <2>1. nextUser \in Accounts
    BY <1>20, BoundsAssumption DEF AdminUsersCreate, IndInv, SerialsOK, Accounts
  <2>2. users' \in Partial(Accounts, Emails)
    BY <1>20, <2>1, PartialWith DEF AdminUsersCreate, IndInv, TablesOK
  <2>3. QED
    BY <1>20, <2>2 DEF AdminUsersCreate, IndInv, TablesOK, ghosts
<1>21. ASSUME NEW u \in DOMAIN users, DeleteUser(u) PROVE TablesOK'
  BY <1>21, PartialWithout
    DEF DeleteUser, IndInv, TablesOK, serials, ghosts
<1>22. ASSUME NEW u \in DOMAIN users, NEW e \in Emails, AdminUsersEdit(u, e)
       PROVE  TablesOK'
  <2>1. users' \in Partial(Accounts, Emails)
    <3>1. users' \in [DOMAIN users -> Emails] /\ DOMAIN users \in SUBSET Accounts
      BY <1>22, TableFacts DEF AdminUsersEdit, IndInv
    <3>2. QED BY <3>1 DEF Partial
  <2>2. QED
    BY <1>22, <2>1 DEF AdminUsersEdit, IndInv, TablesOK, serials, ghosts
<1>23. CASE Restart
  BY <1>23, PartialWithout
    DEF Restart, IndInv, TablesOK, Idle, rows, serials, ghosts
<1>24. CASE UNCHANGED vars
  BY <1>24 DEF vars, IndInv, TablesOK, rows, serials, ghosts
<1>25. QED
  BY <1>1, <1>2, <1>3, <1>4, <1>5, <1>6, <1>7, <1>8, <1>9, <1>10, <1>11, <1>12, <1>13, <1>14,
     <1>15, <1>16, <1>17, <1>18, <1>19, <1>20, <1>21, <1>22, <1>23, <1>24
    DEF Next, OAuthNext, InviteNext

\* Each step keeps the types of codes and sessions.
LEMMA CredentialsStep ==
    ASSUME IndInv, [Next]_vars
    PROVE  CredentialsOK'
<1>1. ASSUME NEW u \in DOMAIN users, NEW c \in Clients, NEW ch \in Verifiers \cup {None},
             AuthorizePost(u, c, ch)
      PROVE  CredentialsOK'
  BY <1>1, TableFacts, BoundsAssumption, TTLAssumption
    DEF AuthorizePost, IndInv, CredentialsOK, SerialsOK, Accounts, Codes, With, ghosts
<1>2. ASSUME NEW r \in Requests, NEW k \in DOMAIN codes, NEW c \in Clients \cup {None},
             NEW v \in Verifiers \cup {None}, ExchangeRead(r, k, c, v)
      PROVE  CredentialsOK'
  BY <1>2, TableFacts, BoundsAssumption, TTLAssumption
    DEF ExchangeRead, IndInv, CredentialsOK, SerialsOK, Accounts, Codes, rows, serials,
       ghosts
<1>3. ASSUME NEW r \in Requests, NEW s \in DOMAIN sessions,
             RefreshRead(r, s)
      PROVE  CredentialsOK'
  BY <1>3, TableFacts, BoundsAssumption, TTLAssumption
    DEF RefreshRead, IndInv, CredentialsOK, SerialsOK, Accounts, Codes, rows, serials,
       ghosts
<1>4. ASSUME NEW r \in Requests, DeleteOAuthCode(r) PROVE CredentialsOK'
  BY <1>4, TableFacts, BoundsAssumption, TTLAssumption
    DEF DeleteOAuthCode, IndInv, CredentialsOK, SerialsOK, Accounts, Codes, Without, serials,
       ghosts
<1>5. ASSUME NEW r \in Requests, DeleteOAuthSession(r) PROVE CredentialsOK'
  BY <1>5, TableFacts, BoundsAssumption, TTLAssumption
    DEF DeleteOAuthSession, IndInv, CredentialsOK, SerialsOK, Accounts, Codes, Without, serials,
       ghosts
<1>6. ASSUME NEW r \in Requests, CreateOAuthSession(r) PROVE CredentialsOK'
  <2>1. CASE held[r].user \in DOMAIN users
    <3>1. /\ nextSession \in Sessions /\ now + TokenTTL \in Nat
          /\ held[r].user \in Accounts /\ held[r].client \in Clients
      BY <1>6, TableFacts, BoundsAssumption, TTLAssumption
        DEF CreateOAuthSession, IndInv, SerialsOK, GrantsOK, Sessions, Grants, CredentialsOK
    <3>2. QED
      BY <1>6, <2>1, <3>1 DEF CreateOAuthSession, IndInv, CredentialsOK, With
  <2>2. CASE held[r].user \notin DOMAIN users
    BY <1>6, <2>2 DEF CreateOAuthSession, IndInv, CredentialsOK
  <2>3. QED BY <2>1, <2>2
<1>7. ASSUME NEW r \in Requests, NEW u \in DOMAIN users,
             GenerateAPIKey(r, u)
      PROVE  CredentialsOK'
  BY <1>7, TableFacts, BoundsAssumption, TTLAssumption
    DEF GenerateAPIKey, IndInv, CredentialsOK, SerialsOK, Accounts, Codes, rows, serials,
       ghosts
<1>8. ASSUME NEW r \in Requests, CreateAPIKey(r) PROVE CredentialsOK'
  BY <1>8, TableFacts, BoundsAssumption, TTLAssumption
    DEF CreateAPIKey, IndInv, CredentialsOK, SerialsOK, Accounts, Codes, With, ghosts
<1>9. ASSUME NEW k \in DOMAIN codes, ExchangeExpired(k) PROVE CredentialsOK'
  BY <1>9, TableFacts, BoundsAssumption, TTLAssumption
    DEF ExchangeExpired, IndInv, CredentialsOK, SerialsOK, Accounts, Codes, Without, serials,
       ghosts
<1>10. ASSUME NEW s \in DOMAIN sessions, MiddlewareExpired(s) PROVE CredentialsOK'
  BY <1>10, TableFacts, BoundsAssumption, TTLAssumption
    DEF MiddlewareExpired, IndInv, CredentialsOK, SerialsOK, Accounts, Codes, Without, serials,
       ghosts
<1>11. ASSUME NEW k \in DOMAIN keys, DeleteAPIKey(k) PROVE CredentialsOK'
  BY <1>11, TableFacts, BoundsAssumption, TTLAssumption
    DEF DeleteAPIKey, IndInv, CredentialsOK, SerialsOK, Accounts, Codes, Without, serials,
       ghosts
<1>12. ASSUME NEW r \in Requests, NEW e \in Emails,
              AdminInvitesCreate(r, e)
       PROVE  CredentialsOK'
  BY <1>12, TableFacts, BoundsAssumption, TTLAssumption
    DEF AdminInvitesCreate, IndInv, CredentialsOK, SerialsOK, Accounts, Codes, rows, serials,
       ghosts
<1>13. ASSUME NEW r \in Requests, CreateInvite(r) PROVE CredentialsOK'
  BY <1>13, TableFacts, BoundsAssumption, TTLAssumption
    DEF CreateInvite, IndInv, CredentialsOK, SerialsOK, Accounts, Codes, With, serials,
       ghosts
<1>14. ASSUME NEW r \in Requests, NEW i \in DOMAIN invites,
              LookupValidInvite(r, i)
       PROVE  CredentialsOK'
  BY <1>14, TableFacts, BoundsAssumption, TTLAssumption
    DEF LookupValidInvite, IndInv, CredentialsOK, SerialsOK, Accounts, Codes, Reads, rows,
       serials, ghosts
<1>15. ASSUME NEW r \in Requests, GetUserByEmail(r) PROVE CredentialsOK'
  BY <1>15, TableFacts, BoundsAssumption, TTLAssumption
    DEF GetUserByEmail, IndInv, CredentialsOK, SerialsOK, Accounts, Codes, rows, serials,
       ghosts
<1>16. ASSUME NEW r \in Requests, CreateUser(r) PROVE CredentialsOK'
  BY <1>16, TableFacts, BoundsAssumption, TTLAssumption
    DEF CreateUser, IndInv, CredentialsOK, SerialsOK, Accounts, Codes, With, ghosts
<1>17. ASSUME NEW r \in Requests, MarkInviteAccepted(r) PROVE CredentialsOK'
  BY <1>17, TableFacts, BoundsAssumption, TTLAssumption
    DEF MarkInviteAccepted, IndInv, CredentialsOK, SerialsOK, Accounts, Codes, serials,
       ghosts
<1>18. ASSUME NEW i \in DOMAIN invites, RevokeInvite(i) PROVE CredentialsOK'
  BY <1>18, TableFacts, BoundsAssumption, TTLAssumption
    DEF RevokeInvite, IndInv, CredentialsOK, SerialsOK, Accounts, Codes, serials, ghosts
<1>19. CASE Tick
  BY <1>19, TableFacts, BoundsAssumption, TTLAssumption
    DEF Tick, IndInv, CredentialsOK, SerialsOK, Accounts, Codes, rows, serials, ghosts
<1>20. ASSUME NEW e \in Emails, AdminUsersCreate(e) PROVE CredentialsOK'
  BY <1>20, TableFacts, BoundsAssumption, TTLAssumption
    DEF AdminUsersCreate, IndInv, CredentialsOK, SerialsOK, Accounts, Codes, With, ghosts
<1>21. ASSUME NEW u \in DOMAIN users, DeleteUser(u) PROVE CredentialsOK'
  BY <1>21, TableFacts, BoundsAssumption, TTLAssumption
    DEF DeleteUser, IndInv, CredentialsOK, SerialsOK, Accounts, Codes, Without, serials,
       ghosts
<1>22. ASSUME NEW u \in DOMAIN users, NEW e \in Emails, AdminUsersEdit(u, e)
       PROVE  CredentialsOK'
  BY <1>22, TableFacts, BoundsAssumption, TTLAssumption
    DEF AdminUsersEdit, IndInv, CredentialsOK, SerialsOK, Accounts, Codes, serials,
       ghosts
<1>23. CASE Restart
  BY <1>23, TableFacts, BoundsAssumption, TTLAssumption
    DEF Restart, IndInv, CredentialsOK, SerialsOK, Accounts, Codes, Idle, rows, serials, ghosts
<1>24. CASE UNCHANGED vars
  BY <1>24
    DEF vars, IndInv, CredentialsOK, SerialsOK, Accounts, Codes, rows, serials, ghosts
<1>25. QED
  BY <1>1, <1>2, <1>3, <1>4, <1>5, <1>6, <1>7, <1>8, <1>9, <1>10, <1>11, <1>12, <1>13, <1>14,
     <1>15, <1>16, <1>17, <1>18, <1>19, <1>20, <1>21, <1>22, <1>23, <1>24
    DEF Next, OAuthNext, InviteNext

\* Each step keeps the types of invitations.
LEMMA InvitesStep ==
    ASSUME IndInv, [Next]_vars
    PROVE  InvitesOK'
<1>1. ASSUME NEW u \in DOMAIN users, NEW c \in Clients, NEW ch \in Verifiers \cup {None},
             AuthorizePost(u, c, ch)
      PROVE  InvitesOK'
  BY <1>1, TTLAssumption, NextInvite
    DEF AuthorizePost, IndInv, InvitesOK, CredentialsOK, HeldOK, With, ghosts
<1>2. ASSUME NEW r \in Requests, NEW k \in DOMAIN codes, NEW c \in Clients \cup {None},
             NEW v \in Verifiers \cup {None}, ExchangeRead(r, k, c, v)
      PROVE  InvitesOK'
  BY <1>2, TTLAssumption, NextInvite
    DEF ExchangeRead, IndInv, InvitesOK, CredentialsOK, HeldOK, rows, serials, ghosts
<1>3. ASSUME NEW r \in Requests, NEW s \in DOMAIN sessions, RefreshRead(r, s) PROVE InvitesOK'
  BY <1>3, TTLAssumption, NextInvite
    DEF RefreshRead, IndInv, InvitesOK, CredentialsOK, HeldOK, rows, serials, ghosts
<1>4. ASSUME NEW r \in Requests, DeleteOAuthCode(r) PROVE InvitesOK'
  BY <1>4, TTLAssumption, NextInvite
    DEF DeleteOAuthCode, IndInv, InvitesOK, CredentialsOK, HeldOK, serials, ghosts
<1>5. ASSUME NEW r \in Requests, DeleteOAuthSession(r) PROVE InvitesOK'
  BY <1>5, TTLAssumption, NextInvite
    DEF DeleteOAuthSession, IndInv, InvitesOK, CredentialsOK, HeldOK, serials, ghosts
<1>6. ASSUME NEW r \in Requests, CreateOAuthSession(r) PROVE InvitesOK'
  BY <1>6, TTLAssumption, NextInvite
    DEF CreateOAuthSession, IndInv, InvitesOK, CredentialsOK, HeldOK, With, ghosts
<1>7. ASSUME NEW r \in Requests, NEW u \in DOMAIN users, GenerateAPIKey(r, u) PROVE InvitesOK'
  BY <1>7, TTLAssumption, NextInvite
    DEF GenerateAPIKey, IndInv, InvitesOK, CredentialsOK, HeldOK, rows, serials, ghosts
<1>8. ASSUME NEW r \in Requests, CreateAPIKey(r) PROVE InvitesOK'
  BY <1>8, TTLAssumption, NextInvite
    DEF CreateAPIKey, IndInv, InvitesOK, CredentialsOK, HeldOK, With, ghosts
<1>9. ASSUME NEW k \in DOMAIN codes, ExchangeExpired(k) PROVE InvitesOK'
  BY <1>9, TTLAssumption, NextInvite
    DEF ExchangeExpired, IndInv, InvitesOK, CredentialsOK, HeldOK, serials, ghosts
<1>10. ASSUME NEW s \in DOMAIN sessions, MiddlewareExpired(s) PROVE InvitesOK'
  BY <1>10, TTLAssumption, NextInvite
    DEF MiddlewareExpired, IndInv, InvitesOK, CredentialsOK, HeldOK, serials, ghosts
<1>11. ASSUME NEW k \in DOMAIN keys, DeleteAPIKey(k) PROVE InvitesOK'
  BY <1>11, TTLAssumption, NextInvite
    DEF DeleteAPIKey, IndInv, InvitesOK, CredentialsOK, HeldOK, serials, ghosts
<1>12. ASSUME NEW r \in Requests, NEW e \in Emails, AdminInvitesCreate(r, e) PROVE InvitesOK'
  BY <1>12, TTLAssumption, NextInvite
    DEF AdminInvitesCreate, IndInv, InvitesOK, CredentialsOK, HeldOK, rows, serials, ghosts
<1>13. ASSUME NEW r \in Requests, CreateInvite(r) PROVE InvitesOK'
  <2>1. Cardinality(DOMAIN invites) + 1 \in Invites
    BY <1>13, NextInvite DEF CreateInvite, IndInv, InvitesOK
  <2>2. held[r].email \in Emails /\ now + InviteTTL \in Nat /\ 0 \in 0..MaxAccounts
    BY <1>13, TTLAssumption, BoundsAssumption DEF CreateInvite, IndInv, HeldOK, CredentialsOK
  <2>3. QED
    BY <1>13, <2>1, <2>2 DEF CreateInvite, IndInv, InvitesOK, With, ghosts
<1>14. ASSUME NEW r \in Requests, NEW i \in DOMAIN invites,
              LookupValidInvite(r, i)
       PROVE  InvitesOK'
  BY <1>14, TTLAssumption, NextInvite
    DEF LookupValidInvite, IndInv, InvitesOK, CredentialsOK, HeldOK, Reads, rows, serials,
       ghosts
<1>15. ASSUME NEW r \in Requests, GetUserByEmail(r) PROVE InvitesOK'
  BY <1>15, TTLAssumption, NextInvite
    DEF GetUserByEmail, IndInv, InvitesOK, CredentialsOK, HeldOK, rows, serials, ghosts
<1>16. ASSUME NEW r \in Requests, CreateUser(r) PROVE InvitesOK'
  BY <1>16, TTLAssumption, NextInvite
    DEF CreateUser, IndInv, InvitesOK, CredentialsOK, HeldOK, With, ghosts
<1>17. ASSUME NEW r \in Requests, MarkInviteAccepted(r) PROVE InvitesOK'
  <2>1. held[r].row \in DOMAIN invites /\ births' = births
    BY <1>17 DEF MarkInviteAccepted, IndInv, HeldOK, ghosts
  <2>2. CASE invites' = invites
    BY <2>1, <2>2 DEF IndInv, InvitesOK
  <2>3. CASE invites' = [invites EXCEPT ![held[r].row].status = "accepted",
                                        ![held[r].row].user = held[r].user]
    <3>1. /\ DOMAIN invites' = DOMAIN invites
          /\ \A j \in DOMAIN invites : j # held[r].row => invites'[j] = invites[j]
      BY <2>1, <2>3
    <3>2. held[r].user \in 0..MaxAccounts
      BY <1>17, BoundsAssumption DEF MarkInviteAccepted, IndInv, RequestsOK, Accounts
    <3>3. invites'[held[r].row] =
             [[invites[held[r].row] EXCEPT !.status = "accepted"] EXCEPT !.user = held[r].user]
      BY <2>1, <2>3
    <3>4. invites'[held[r].row] \in [email : Emails, expires : Nat, user : 0..MaxAccounts,
                                      status : {"pending", "accepted", "revoked"}]
      BY <2>1, <3>2, <3>3 DEF IndInv, InvitesOK
    <3>5. QED
      BY <2>1, <3>1, <3>4 DEF IndInv, InvitesOK
  <2>4. QED
    BY <1>17, <2>2, <2>3 DEF MarkInviteAccepted
<1>18. ASSUME NEW i \in DOMAIN invites, RevokeInvite(i) PROVE InvitesOK'
  <2>1. i \in DOMAIN invites
    BY <1>18 DEF RevokeInvite, IndInv, HeldOK
  <2>2. /\ DOMAIN invites' = DOMAIN invites
        /\ \A j \in DOMAIN invites : j # i => invites'[j] = invites[j]
    BY <1>18, <2>1 DEF RevokeInvite
  <2>3. invites'[i] \in [email : Emails, expires : Nat, user : 0..MaxAccounts,
                        status : {"pending", "accepted", "revoked"}]
    BY <1>18, <2>1 DEF RevokeInvite, IndInv, InvitesOK
  <2>4. QED
    BY <1>18, <2>2, <2>3 DEF RevokeInvite, IndInv, InvitesOK, ghosts
<1>19. CASE Tick
  BY <1>19, TTLAssumption, NextInvite
    DEF Tick, IndInv, InvitesOK, CredentialsOK, HeldOK, rows, serials, ghosts
<1>20. ASSUME NEW e \in Emails, AdminUsersCreate(e) PROVE InvitesOK'
  BY <1>20, TTLAssumption, NextInvite
    DEF AdminUsersCreate, IndInv, InvitesOK, CredentialsOK, HeldOK, With, ghosts
<1>21. ASSUME NEW u \in DOMAIN users, DeleteUser(u) PROVE InvitesOK'
  BY <1>21, TTLAssumption, NextInvite
    DEF DeleteUser, IndInv, InvitesOK, CredentialsOK, HeldOK, serials, ghosts
<1>22. ASSUME NEW u \in DOMAIN users, NEW e \in Emails, AdminUsersEdit(u, e)
       PROVE  InvitesOK'
  BY <1>22, TTLAssumption, NextInvite
    DEF AdminUsersEdit, IndInv, InvitesOK, CredentialsOK, HeldOK, serials, ghosts
<1>23. CASE Restart
  BY <1>23, TTLAssumption, NextInvite
    DEF Restart, IndInv, InvitesOK, CredentialsOK, HeldOK, Idle, rows, serials, ghosts
<1>24. CASE UNCHANGED vars
  BY <1>24
    DEF vars, IndInv, InvitesOK, CredentialsOK, HeldOK, rows, serials, ghosts
<1>25. QED
  BY <1>1, <1>2, <1>3, <1>4, <1>5, <1>6, <1>7, <1>8, <1>9, <1>10, <1>11, <1>12, <1>13, <1>14,
     <1>15, <1>16, <1>17, <1>18, <1>19, <1>20, <1>21, <1>22, <1>23, <1>24
    DEF Next, OAuthNext, InviteNext

\* Each step keeps the control of requests and what they have read.
LEMMA RequestsStep ==
    ASSUME IndInv, [Next]_vars
    PROVE  (RequestsOK /\ HeldOK)'
<1>1. ASSUME NEW u \in DOMAIN users, NEW c \in Clients, NEW ch \in Verifiers \cup {None},
             AuthorizePost(u, c, ch)
      PROVE  (RequestsOK /\ HeldOK)'
  BY <1>1
    DEF AuthorizePost, IndInv, RequestsOK, HeldOK, ghosts
<1>2. ASSUME NEW r \in Requests, NEW k \in DOMAIN codes, NEW c \in Clients \cup {None},
             NEW v \in Verifiers \cup {None}, ExchangeRead(r, k, c, v)
      PROVE  (RequestsOK /\ HeldOK)'
  <2> DEFINE what == [Idle EXCEPT !.row = k, !.user = codes[k].user,
                                  !.client = codes[k].client, !.chain = k]
  <2>0. /\ k \in Nat /\ k \in 0..MaxCodes /\ codes[k].client \in Clients
        /\ codes[k].user \in Accounts /\ codes[k].user \in 0..MaxAccounts
    BY <1>2, BoundsAssumption DEF ExchangeRead, IndInv, CredentialsOK, RequestsOK, Accounts, Codes
  <2>1. what \in HeldRows
    BY <2>0, IdleOK DEF HeldRows
  <2>2. QED
    BY <1>2, <2>0, <2>1, GoesOK, BoundsAssumption DEF ExchangeRead, IndInv, Idle, CredentialsOK,
       RequestsOK, Accounts, Codes, rows, serials, ghosts
<1>3. ASSUME NEW r \in Requests, NEW s \in DOMAIN sessions,
             RefreshRead(r, s)
      PROVE  (RequestsOK /\ HeldOK)'
  <2> DEFINE what == [Idle EXCEPT !.row = s, !.user = sessions[s].user,
                                  !.client = sessions[s].client, !.chain = chain[s]]
  <2>0. /\ s \in Nat /\ chain[s] \in 0..MaxCodes /\ sessions[s].client \in Clients
        /\ sessions[s].user \in Accounts /\ sessions[s].user \in 0..MaxAccounts
    BY <1>3, BoundsAssumption, TableFacts DEF RefreshRead, IndInv, CredentialsOK, RequestsOK,
       GrantsOK, Accounts, Codes, Sessions
  <2>1. what \in HeldRows
    BY <2>0, IdleOK DEF HeldRows
  <2>2. QED
    BY <1>3, <2>0, <2>1, GoesOK, BoundsAssumption, TableFacts DEF RefreshRead, IndInv, Idle,
       CredentialsOK, RequestsOK, GrantsOK, Accounts, Codes, Sessions, rows, serials,
       ghosts
<1>4. ASSUME NEW r \in Requests, DeleteOAuthCode(r) PROVE (RequestsOK /\ HeldOK)'
  BY <1>4
    DEF DeleteOAuthCode, IndInv, RequestsOK, HeldOK, serials, ghosts
<1>5. ASSUME NEW r \in Requests, DeleteOAuthSession(r) PROVE (RequestsOK /\ HeldOK)'
  BY <1>5
    DEF DeleteOAuthSession, IndInv, RequestsOK, HeldOK, serials, ghosts
<1>6. ASSUME NEW r \in Requests, CreateOAuthSession(r) PROVE (RequestsOK /\ HeldOK)'
  BY <1>6, HasFinished DEF CreateOAuthSession, IndInv, RequestsOK
<1>7. ASSUME NEW r \in Requests, NEW u \in DOMAIN users,
             GenerateAPIKey(r, u)
      PROVE  (RequestsOK /\ HeldOK)'
  <2> DEFINE what == [Idle EXCEPT !.user = u]
  <2>1. what \in HeldRows
    BY <1>7, BoundsAssumption, TableFacts DEF GenerateAPIKey, IndInv, HeldRows, Idle, RequestsOK,
       Accounts
  <2>2. QED
    BY <1>7, <2>1, GoesOK, BoundsAssumption, TableFacts DEF GenerateAPIKey, IndInv, Idle,
       RequestsOK, Accounts, rows, serials, ghosts
<1>8. ASSUME NEW r \in Requests, CreateAPIKey(r) PROVE (RequestsOK /\ HeldOK)'
  BY <1>8, HasFinished DEF CreateAPIKey, IndInv, RequestsOK, ghosts
<1>9. ASSUME NEW k \in DOMAIN codes, ExchangeExpired(k) PROVE (RequestsOK /\ HeldOK)'
  BY <1>9
    DEF ExchangeExpired, IndInv, RequestsOK, HeldOK, serials, ghosts
<1>10. ASSUME NEW s \in DOMAIN sessions, MiddlewareExpired(s) PROVE (RequestsOK /\ HeldOK)'
  BY <1>10
    DEF MiddlewareExpired, IndInv, RequestsOK, HeldOK, serials, ghosts
<1>11. ASSUME NEW k \in DOMAIN keys, DeleteAPIKey(k) PROVE (RequestsOK /\ HeldOK)'
  BY <1>11
    DEF DeleteAPIKey, IndInv, RequestsOK, HeldOK, serials, ghosts
<1>12. ASSUME NEW r \in Requests, NEW e \in Emails,
              AdminInvitesCreate(r, e)
       PROVE  (RequestsOK /\ HeldOK)'
  <2> DEFINE what == [Idle EXCEPT !.email = e]
  <2>1. what \in HeldRows
    BY <1>12, BoundsAssumption DEF AdminInvitesCreate, IndInv, HeldRows, Idle, RequestsOK
  <2>2. QED
    BY <1>12, <2>1, GoesOK, BoundsAssumption DEF AdminInvitesCreate, IndInv, Idle, RequestsOK,
       rows, serials, ghosts
<1>13. ASSUME NEW r \in Requests, CreateInvite(r) PROVE (RequestsOK /\ HeldOK)'
  BY <1>13, HasFinished DEF CreateInvite, IndInv, RequestsOK, With, ghosts
<1>14. ASSUME NEW r \in Requests, NEW i \in DOMAIN invites,
              LookupValidInvite(r, i)
       PROVE  (RequestsOK /\ HeldOK)'
  <2> DEFINE what == [Idle EXCEPT !.row = i, !.email = invites[i].email]
  <2>0. i \in Nat /\ invites[i].email \in Emails
    BY <1>14, BoundsAssumption DEF LookupValidInvite, IndInv, RequestsOK, InvitesOK, Invites,
       Reads
  <2>1. what \in HeldRows
    BY <2>0, IdleOK DEF HeldRows
  <2>2. QED
    BY <1>14, <2>0, <2>1, GoesOK, BoundsAssumption DEF LookupValidInvite, IndInv, Idle,
       RequestsOK, InvitesOK, Invites, Reads, rows, serials, ghosts
<1>15. ASSUME NEW r \in Requests, GetUserByEmail(r) PROVE (RequestsOK /\ HeldOK)'
  <2>1. held[r] \in HeldRows /\ held[r].user = 0 /\ held[r].email \in Emails
        /\ held[r].row \in DOMAIN invites /\ invites' = invites
    BY <1>15 DEF GetUserByEmail, IndInv, RequestsOK, HeldOK, rows, ghosts
  <2>2. CASE Goes(r, "create", held[r])
    BY <2>1, <2>2, GoesOK DEF IndInv
  <2>3. ASSUME NEW u \in DOMAIN users, Goes(r, "accept", [held[r] EXCEPT !.user = u])
        PROVE  (RequestsOK /\ HeldOK)'
    <3> DEFINE what == [held[r] EXCEPT !.user = u]
    <3>1. what \in HeldRows /\ what.user \in Accounts /\ what.row = held[r].row
      BY <2>1, TableFacts DEF IndInv, HeldRows, Accounts
    <3>2. QED
      BY <2>1, <2>3, <3>1, GoesOK DEF IndInv
  <2>4. CASE Done(r)
    BY <2>1, <2>4, HasFinished DEF IndInv
  <2>5. QED
    BY <1>15, <2>2, <2>3, <2>4 DEF GetUserByEmail
<1>16. ASSUME NEW r \in Requests, CreateUser(r) PROVE (RequestsOK /\ HeldOK)'
  <2>1. held[r] \in HeldRows /\ held[r].row \in DOMAIN invites
        /\ invites' = invites /\ nextUser \in Accounts
    BY <1>16, BoundsAssumption
      DEF CreateUser, IndInv, RequestsOK, HeldOK, SerialsOK, Accounts, ghosts
  <2>2. CASE Taken(held[r].email)
    BY <1>16, <2>1, <2>2, HasFinished DEF CreateUser, IndInv
  <2>3. CASE ~Taken(held[r].email)
    <3> DEFINE what == [held[r] EXCEPT !.user = nextUser]
    <3>1. what \in HeldRows /\ what.user \in Accounts /\ what.row = held[r].row
      BY <2>1 DEF HeldRows, Accounts
    <3>2. Goes(r, "accept", what)
      BY <1>16, <2>3 DEF CreateUser
    <3>3. QED
      BY <2>1, <3>1, <3>2, GoesOK DEF IndInv
  <2>4. QED BY <2>2, <2>3
<1>17. ASSUME NEW r \in Requests, MarkInviteAccepted(r) PROVE (RequestsOK /\ HeldOK)'
  BY <1>17, HasFinished DEF MarkInviteAccepted, IndInv, RequestsOK, ghosts
<1>18. ASSUME NEW i \in DOMAIN invites, RevokeInvite(i) PROVE (RequestsOK /\ HeldOK)'
  BY <1>18
    DEF RevokeInvite, IndInv, RequestsOK, HeldOK, serials, ghosts
<1>19. CASE Tick
  BY <1>19 DEF Tick, IndInv, RequestsOK, HeldOK, rows, serials, ghosts
<1>20. ASSUME NEW e \in Emails, AdminUsersCreate(e) PROVE (RequestsOK /\ HeldOK)'
  BY <1>20
    DEF AdminUsersCreate, IndInv, RequestsOK, HeldOK, ghosts
<1>21. ASSUME NEW u \in DOMAIN users, DeleteUser(u) PROVE (RequestsOK /\ HeldOK)'
  BY <1>21 DEF DeleteUser, IndInv, RequestsOK, HeldOK, serials, ghosts
<1>22. ASSUME NEW u \in DOMAIN users, NEW e \in Emails, AdminUsersEdit(u, e)
       PROVE  (RequestsOK /\ HeldOK)'
  BY <1>22 DEF AdminUsersEdit, IndInv, RequestsOK, HeldOK, serials, ghosts
<1>23. CASE Restart
  <2>1. /\ pc' = [r \in Requests |-> "idle"] /\ held' = [r \in Requests |-> Idle]
        /\ invites' = invites
    BY <1>23 DEF Restart, rows
  <2>2. QED
    BY <2>1, IdleOK DEF RequestsOK, HeldOK
<1>24. CASE UNCHANGED vars
  BY <1>24 DEF vars, IndInv, RequestsOK, HeldOK, rows, serials, ghosts
<1>25. QED
  BY <1>1, <1>2, <1>3, <1>4, <1>5, <1>6, <1>7, <1>8, <1>9, <1>10, <1>11, <1>12, <1>13, <1>14,
     <1>15, <1>16, <1>17, <1>18, <1>19, <1>20, <1>21, <1>22, <1>23, <1>24
    DEF Next, OAuthNext, InviteNext

\* The bridge without accounts satisfies the invariant.
LEMMA InitIndInv == Init => IndInv
<1>1. ASSUME NEW D, NEW R PROVE << >> \in Partial(D, R)
  <2>1. << >> \in [{} -> R]
    OBVIOUS
  <2>2. QED BY <2>1 DEF Partial
<1>2. SUFFICES ASSUME Init PROVE IndInv
  OBVIOUS
<1>3. TablesOK
  BY <1>1, <1>2 DEF Init, TablesOK
<1>4. CredentialsOK /\ InvitesOK
  BY <1>2, BoundsAssumption DEF Init, CredentialsOK, InvitesOK
<1>5. RequestsOK /\ HeldOK
  BY <1>2, IdleOK DEF Init, RequestsOK, HeldOK
<1>6. SerialsOK /\ GrantsOK /\ SessionKeepsGrant /\ NothingOutlivesAccount
  BY <1>2 DEF Init, SerialsOK, GrantsOK, SessionKeepsGrant, NothingOutlivesAccount
<1>7. QED
  BY <1>3, <1>4, <1>5, <1>6 DEF IndInv

\* IndInv is an inductive invariant.
THEOREM IdentityInvariance == Spec => []IndInv
<1>1. Init => IndInv
  BY InitIndInv
<1>2. IndInv /\ [Next]_vars => IndInv'
  BY TablesStep, CredentialsStep, InvitesStep, RequestsStep, SerialStep, GrantsStep,
     SessionStep, OutliveStep
    DEF IndInv
<1>3. QED BY <1>1, <1>2, PTL DEF Spec

\* The types hold always.
THEOREM IdentityTypes == Spec => []TypeOK
<1>1. IndInv => TypeOK
  BY TypeParts DEF IndInv
<1>2. QED BY <1>1, IdentityInvariance, PTL

\* No credential outlives its account, however the statements of any number of
\* requests interleave.
THEOREM IdentityNothingOutlives == Spec => []NothingOutlivesAccount
<1>1. IndInv => NothingOutlivesAccount
  BY DEF IndInv
<1>2. QED BY <1>1, IdentityInvariance, PTL

\* Through any number of refreshes a session belongs to the user and the client
\* of its authorization.
THEOREM IdentitySessions == Spec => []SessionKeepsGrant
<1>1. IndInv => SessionKeepsGrant
  BY DEF IndInv
<1>2. QED BY <1>1, IdentityInvariance, PTL

(***************************************************************************)
(* Settled invitations: a second layer, inductive relative to IndInv.      *)
(***************************************************************************)

\* Invitations are numbered without gaps.
DenseInvites == DOMAIN invites = 1..Cardinality(DOMAIN invites)

\* The number of a new invitation has not been used.
LEMMA InviteSerial ==
    ASSUME DOMAIN invites \subseteq Invites, DenseInvites
    PROVE  /\ IsFiniteSet(DOMAIN invites) /\ Cardinality(DOMAIN invites) \in Nat
           /\ Cardinality(DOMAIN invites) + 1 \notin DOMAIN invites
<1>1. IsFiniteSet(DOMAIN invites)
  <2>1. IsFiniteSet(Invites)
    BY FS_Interval, BoundsAssumption DEF Invites
  <2>2. QED BY <2>1, FS_Subset
<1>2. Cardinality(DOMAIN invites) \in Nat
  BY <1>1, FS_CardinalityType
<1>3. QED BY <1>1, <1>2 DEF DenseInvites

\* Invitations are numbered without gaps.
LEMMA DenseStep ==
    ASSUME IndInv, DenseInvites, [Next]_vars
    PROVE  DenseInvites'
<1>1. CASE DOMAIN invites' = DOMAIN invites
  BY <1>1 DEF DenseInvites
<1>2. ASSUME NEW r \in Requests, CreateInvite(r) PROVE DenseInvites'
  <2> DEFINE n == Cardinality(DOMAIN invites)
  <2>1. /\ IsFiniteSet(DOMAIN invites) /\ n \in Nat /\ n + 1 \notin DOMAIN invites
    BY InviteSerial DEF IndInv, InvitesOK
  <2>2. DOMAIN invites' = DOMAIN invites \cup {n + 1}
    BY <1>2 DEF CreateInvite, With
  <2>3. Cardinality(DOMAIN invites') = n + 1
    BY <2>1, <2>2, FS_AddElement
  <2>4. DOMAIN invites' = 1..(n + 1)
    BY <2>1, <2>2 DEF DenseInvites
  <2>5. QED BY <2>3, <2>4 DEF DenseInvites
<1>3. ASSUME ~\E r \in Requests : CreateInvite(r) PROVE DOMAIN invites' = DOMAIN invites
  BY <1>3 DEF Next, OAuthNext, InviteNext, AuthorizePost, ExchangeRead, RefreshRead,
     DeleteOAuthCode, DeleteOAuthSession, CreateOAuthSession, GenerateAPIKey, CreateAPIKey,
     ExchangeExpired, MiddlewareExpired, DeleteAPIKey, AdminInvitesCreate, LookupValidInvite,
     Reads, GetUserByEmail, CreateUser, MarkInviteAccepted, RevokeInvite, Tick,
     Restart, AdminUsersCreate, AdminUsersEdit, DeleteUser, vars, rows
<1>4. QED BY <1>1, <1>2, <1>3

\* The numbering holds always.
THEOREM IdentityNumbering == Spec => []DenseInvites
<1>1. Init => DenseInvites
  BY FS_EmptySet DEF Init, DenseInvites
<1>2. IndInv /\ DenseInvites /\ [Next]_vars => DenseInvites'
  BY DenseStep
<1>3. QED BY <1>1, <1>2, IdentityInvariance, PTL DEF Spec

\* Who works on a settled invitation: nobody, and nobody begins to.
LEMMA SettledStep ==
    ASSUME IndInv, DenseInvites, [Next]_vars, NEW i \in DOMAIN invites, Settled(i)
    PROVE  Settled(i)' /\ births'[i] = births[i] /\ invites'[i] = invites[i]
<1> USE DEF Settled, Readers
<1>0. \A r \in Requests : ~(pc[r] \in {"find", "create", "accept"} /\ held[r].row = i)
  OBVIOUS
<1>1. ASSUME NEW u \in DOMAIN users, NEW c \in Clients, NEW ch \in Verifiers \cup {None},
             AuthorizePost(u, c, ch)
      PROVE  Settled(i)' /\ births'[i] = births[i] /\ invites'[i] = invites[i]
  BY <1>0, <1>1
    DEF AuthorizePost, IndInv, RequestsOK, HeldOK, rows, ghosts
<1>2. ASSUME NEW r \in Requests, NEW k \in DOMAIN codes, NEW c \in Clients \cup {None},
             NEW v \in Verifiers \cup {None}, ExchangeRead(r, k, c, v)
      PROVE  Settled(i)' /\ births'[i] = births[i] /\ invites'[i] = invites[i]
  BY <1>0, <1>2
    DEF ExchangeRead, IndInv, RequestsOK, HeldOK, Goes, rows, ghosts
<1>3. ASSUME NEW r \in Requests, NEW s \in DOMAIN sessions, RefreshRead(r, s)
      PROVE  Settled(i)' /\ births'[i] = births[i] /\ invites'[i] = invites[i]
  BY <1>0, <1>3
    DEF RefreshRead, IndInv, RequestsOK, HeldOK, Goes, rows, ghosts
<1>4. ASSUME NEW r \in Requests, DeleteOAuthCode(r)
      PROVE  Settled(i)' /\ births'[i] = births[i] /\ invites'[i] = invites[i]
  BY <1>0, <1>4
    DEF DeleteOAuthCode, IndInv, RequestsOK, HeldOK, rows, ghosts
<1>5. ASSUME NEW r \in Requests, DeleteOAuthSession(r)
      PROVE  Settled(i)' /\ births'[i] = births[i] /\ invites'[i] = invites[i]
  BY <1>0, <1>5
    DEF DeleteOAuthSession, IndInv, RequestsOK, HeldOK, rows, ghosts
<1>6. ASSUME NEW r \in Requests, CreateOAuthSession(r)
      PROVE  Settled(i)' /\ births'[i] = births[i] /\ invites'[i] = invites[i]
  BY <1>0, <1>6
    DEF CreateOAuthSession, IndInv, RequestsOK, HeldOK, Goes, Done, rows, ghosts
<1>7. ASSUME NEW r \in Requests, NEW u \in DOMAIN users, GenerateAPIKey(r, u)
      PROVE  Settled(i)' /\ births'[i] = births[i] /\ invites'[i] = invites[i]
  BY <1>0, <1>7
    DEF GenerateAPIKey, IndInv, RequestsOK, HeldOK, Goes, rows, ghosts
<1>8. ASSUME NEW r \in Requests, CreateAPIKey(r)
      PROVE  Settled(i)' /\ births'[i] = births[i] /\ invites'[i] = invites[i]
  BY <1>0, <1>8
    DEF CreateAPIKey, IndInv, RequestsOK, HeldOK, Goes, Done, rows, ghosts
<1>9. ASSUME NEW k \in DOMAIN codes, ExchangeExpired(k)
      PROVE  Settled(i)' /\ births'[i] = births[i] /\ invites'[i] = invites[i]
  BY <1>0, <1>9
    DEF ExchangeExpired, IndInv, RequestsOK, HeldOK, rows, ghosts
<1>10. ASSUME NEW s \in DOMAIN sessions, MiddlewareExpired(s)
      PROVE  Settled(i)' /\ births'[i] = births[i] /\ invites'[i] = invites[i]
  BY <1>0, <1>10
    DEF MiddlewareExpired, IndInv, RequestsOK, HeldOK, rows, ghosts
<1>11. ASSUME NEW k \in DOMAIN keys, DeleteAPIKey(k)
      PROVE  Settled(i)' /\ births'[i] = births[i] /\ invites'[i] = invites[i]
  BY <1>0, <1>11
    DEF DeleteAPIKey, IndInv, RequestsOK, HeldOK, rows, ghosts
<1>12. ASSUME NEW r \in Requests, NEW e \in Emails, AdminInvitesCreate(r, e)
      PROVE  Settled(i)' /\ births'[i] = births[i] /\ invites'[i] = invites[i]
  BY <1>0, <1>12
    DEF AdminInvitesCreate, IndInv, RequestsOK, HeldOK, Goes, rows, ghosts
<1>13. ASSUME NEW r \in Requests, CreateInvite(r)
      PROVE  Settled(i)' /\ births'[i] = births[i] /\ invites'[i] = invites[i]
  <2>1. Cardinality(DOMAIN invites) + 1 # i
    BY InviteSerial DEF IndInv, InvitesOK
  <2>2. QED
    BY <1>0, <1>13, <2>1
      DEF CreateInvite, IndInv, RequestsOK, HeldOK, Goes, Done, With, ghosts
<1>14. ASSUME NEW r \in Requests, NEW j \in DOMAIN invites, LookupValidInvite(r, j)
      PROVE  Settled(i)' /\ births'[i] = births[i] /\ invites'[i] = invites[i]
  BY <1>0, <1>14
    DEF LookupValidInvite, IndInv, RequestsOK, HeldOK, Goes, Done, Reads, rows, ghosts
<1>15. ASSUME NEW r \in Requests, GetUserByEmail(r)
      PROVE  Settled(i)' /\ births'[i] = births[i] /\ invites'[i] = invites[i]
  <2>1. /\ pc[r] \in {"find", "create"} /\ held[r].row # i /\ held[r] \in HeldRows
    BY <1>0, <1>15 DEF GetUserByEmail, IndInv, HeldOK
  <2>2. held'[r].row = held[r].row \/ pc'[r] = "idle"
    BY <1>15, <2>1 DEF GetUserByEmail, Goes, Done, IndInv, RequestsOK, HeldOK, HeldRows
  <2>3. \A q \in Requests : q # r => pc'[q] = pc[q] /\ held'[q] = held[q]
    BY <1>15 DEF GetUserByEmail, Goes, Done, IndInv, RequestsOK, HeldOK
  <2>4. invites' = invites /\ births'[i] = births[i]
    BY <1>15, <2>1 DEF GetUserByEmail, IndInv, InvitesOK, rows, ghosts
  <2>5. QED BY <1>0, <2>1, <2>2, <2>3, <2>4
<1>16. ASSUME NEW r \in Requests, CreateUser(r)
      PROVE  Settled(i)' /\ births'[i] = births[i] /\ invites'[i] = invites[i]
  <2>1. /\ pc[r] \in {"find", "create"} /\ held[r].row # i /\ held[r] \in HeldRows
    BY <1>0, <1>16 DEF CreateUser, IndInv, HeldOK
  <2>2. held'[r].row = held[r].row \/ pc'[r] = "idle"
    BY <1>16, <2>1 DEF CreateUser, Goes, Done, IndInv, RequestsOK, HeldOK, HeldRows
  <2>3. \A q \in Requests : q # r => pc'[q] = pc[q] /\ held'[q] = held[q]
    BY <1>16 DEF CreateUser, Goes, Done, IndInv, RequestsOK, HeldOK
  <2>4. invites' = invites /\ births'[i] = births[i]
    BY <1>16, <2>1 DEF CreateUser, IndInv, InvitesOK, rows, ghosts
  <2>5. QED BY <1>0, <2>1, <2>2, <2>3, <2>4
<1>17. ASSUME NEW r \in Requests, MarkInviteAccepted(r)
      PROVE  Settled(i)' /\ births'[i] = births[i] /\ invites'[i] = invites[i]
  BY <1>0, <1>17
    DEF MarkInviteAccepted, IndInv, RequestsOK, HeldOK, Goes, Done, rows, ghosts
<1>18. ASSUME NEW j \in DOMAIN invites, RevokeInvite(j)
      PROVE  Settled(i)' /\ births'[i] = births[i] /\ invites'[i] = invites[i]
  BY <1>0, <1>18
    DEF RevokeInvite, IndInv, RequestsOK, HeldOK, rows, ghosts
<1>19. CASE Tick
  BY <1>0, <1>19
    DEF Tick, IndInv, RequestsOK, HeldOK, rows, ghosts
<1>20. ASSUME NEW e \in Emails, AdminUsersCreate(e)
      PROVE  Settled(i)' /\ births'[i] = births[i] /\ invites'[i] = invites[i]
  BY <1>0, <1>20
    DEF AdminUsersCreate, IndInv, RequestsOK, HeldOK, rows, ghosts
<1>21. ASSUME NEW u \in DOMAIN users, DeleteUser(u)
      PROVE  Settled(i)' /\ births'[i] = births[i] /\ invites'[i] = invites[i]
  BY <1>0, <1>21
    DEF DeleteUser, IndInv, RequestsOK, HeldOK, rows, ghosts
<1>22. ASSUME NEW u \in DOMAIN users, NEW e \in Emails, AdminUsersEdit(u, e)
      PROVE  Settled(i)' /\ births'[i] = births[i] /\ invites'[i] = invites[i]
  BY <1>0, <1>22
    DEF AdminUsersEdit, IndInv, RequestsOK, HeldOK, rows, ghosts
<1>23. CASE Restart
  BY <1>0, <1>23
    DEF Restart, IndInv, RequestsOK, HeldOK, rows, ghosts
<1>24. CASE UNCHANGED vars
  BY <1>0, <1>24
    DEF vars, IndInv, RequestsOK, HeldOK, rows, ghosts
<1>25. QED
  BY <1>1, <1>2, <1>3, <1>4, <1>5, <1>6, <1>7, <1>8, <1>9, <1>10, <1>11, <1>12, <1>13, <1>14,
     <1>15, <1>16, <1>17, <1>18, <1>19, <1>20, <1>21, <1>22, <1>23, <1>24
    DEF Next, OAuthNext, InviteNext

\* A revocation or an acceptance stands, for any number of requests, once the
\* signups that had found the invitation pending have ended: through failed
\* statements, restarts, and deletions and edits of the account.
THEOREM IdentitySettled == Spec => SettledForGood
<1>1. ASSUME IndInv, DenseInvites, [Next]_vars
      PROVE  [\A i \in DOMAIN invites : Settled(i) =>
                 Settled(i)' /\ births'[i] = births[i] /\ invites'[i] = invites[i]]_vars
  BY <1>1, SettledStep
<1>2. QED
  BY <1>1, IdentityInvariance, IdentityNumbering, PTL DEF Spec, SettledForGood

=============================================================================
