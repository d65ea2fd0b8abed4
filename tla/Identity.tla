------------------------------ MODULE Identity ------------------------------
(***************************************************************************)
(* The tables that say who somebody is: users, invitations, OAuth codes    *)
(* and sessions, API keys (store/user.go, invite.go, oauth.go, apikey.go), *)
(* and the handlers that change them (auth/auth.go, web/invite.go,         *)
(* web/user.go, web/admin.go).                                             *)
(*                                                                         *)
(* Every SQL statement is atomic and a handler runs several of them        *)
(* without a transaction, so each statement that another request may come  *)
(* before is a step.  Codes, tokens and keys are random and never reused:  *)
(* each is the number of its row.  client_id and redirect_uri are checked  *)
(* in the same way, one value stands for the pair; a refresh token names   *)
(* the row of its session.  A request refused before it changes anything   *)
(* is no step.  The errors of three statements are ignored or only logged; *)
(* Faults names those that fail now and then.                              *)
(***************************************************************************)
EXTENDS Integers, FiniteSets

CONSTANTS
    Emails, Clients, Verifiers,
    None,                       \* a form value or a challenge left out
    Requests,                   \* requests under way, each in its goroutine
    InviteAllowExisting,        \* configuration: invite people with an account
    Faults,                     \* statements that may fail
    CodeTTL, TokenTTL, InviteTTL,
    MaxTime, MaxAccounts, MaxCodes, MaxSessions, MaxKeys, MaxInvites  \* bounds

ASSUME TTLAssumption == CodeTTL \in Nat /\ TokenTTL \in Nat /\ InviteTTL \in Nat
ASSUME ConfigAssumption == InviteAllowExisting \in BOOLEAN /\ None \notin Clients \cup Verifiers
ASSUME FaultsAssumption ==
    Faults \subseteq {"DeleteOAuthCode", "DeleteOAuthSession", "MarkInviteAccepted"}
ASSUME BoundsAssumption ==
    /\ MaxTime \in Nat /\ MaxAccounts \in Nat /\ MaxCodes \in Nat
    /\ MaxSessions \in Nat /\ MaxKeys \in Nat /\ MaxInvites \in Nat

VARIABLES
    now,
    users,      \* account -> email
    codes,      \* code -> row
    sessions,   \* access token -> row
    keys,       \* API key -> account
    invites,    \* invitation -> row
    pc, held,   \* what each request does, and the row and account it has read
    nextUser, nextCode, nextSession, nextKey,
    grant,      \* code -> the user and client it was issued for
    chain,      \* session -> the code it goes back to
    births      \* accounts each invitation led to

rows == <<users, codes, sessions, keys, invites>>
serials == <<nextUser, nextCode, nextSession, nextKey>>
ghosts == <<grant, chain, births>>
vars == <<now, rows, pc, held, serials, ghosts>>

Accounts == 1..MaxAccounts
Codes == 1..MaxCodes
Sessions == 1..MaxSessions
Keys == 1..MaxKeys
Invites == 1..MaxInvites
Grants == [user : Accounts, client : Clients]
Partial(D, R) == UNION {[X -> R] : X \in SUBSET D}

Idle == [row |-> 0, user |-> 0, client |-> None, email |-> None, chain |-> 0]

TypeOK ==
    /\ now \in 0..MaxTime
    /\ users \in Partial(Accounts, Emails)
    /\ DOMAIN codes \subseteq Codes /\ DOMAIN sessions \subseteq Sessions
    /\ \A k \in DOMAIN codes :
          codes[k] \in [user : Accounts, client : Clients,
                        challenge : Verifiers \cup {None}, expires : Nat]
    /\ \A s \in DOMAIN sessions :
          sessions[s] \in [user : Accounts, client : Clients, expires : Nat]
    /\ keys \in Partial(Keys, Accounts)
    /\ DOMAIN invites \subseteq Invites
    /\ \A i \in DOMAIN invites :
          invites[i] \in [email : Emails, expires : Nat, user : 0..MaxAccounts,
                          status : {"pending", "accepted", "revoked"}]
    /\ pc \in [Requests -> {"idle", "consume", "drop", "issue", "key", "invite",
                            "find", "create", "accept"}]
    /\ \A r \in Requests :
          held[r].user \in (IF pc[r] \in {"consume", "drop", "issue", "key", "accept"}
                            THEN Accounts ELSE {0})
    /\ grant \in Partial(Codes, Grants) /\ chain \in Partial(Sessions, Codes)
    /\ births \in [Invites -> Nat]

Init ==
    /\ now = 0
    /\ users = << >> /\ codes = << >> /\ sessions = << >> /\ keys = << >> /\ invites = << >>
    /\ pc = [r \in Requests |-> "idle"] /\ held = [r \in Requests |-> Idle]
    /\ nextUser = 1 /\ nextCode = 1 /\ nextSession = 1 /\ nextKey = 1
    /\ grant = << >> /\ chain = << >> /\ births = [i \in Invites |-> 0]

With(f, k, v) == [x \in DOMAIN f \cup {k} |-> IF x = k THEN v ELSE f[x]]
Without(f, K) == [x \in DOMAIN f \ K |-> f[x]]
Taken(e) == \E u \in DOMAIN users : users[u] = e

Goes(r, to, what) == pc' = [pc EXCEPT ![r] = to] /\ held' = [held EXCEPT ![r] = what]
Done(r) == Goes(r, "idle", Idle)

(***************************************************************************)
(* Users.                                                                  *)
(***************************************************************************)

\* AdminUsersCreateHandler: the email is unique.
AdminUsersCreate(e) ==
    /\ nextUser <= MaxAccounts /\ ~Taken(e)
    /\ users' = With(users, nextUser, e) /\ nextUser' = nextUser + 1
    /\ UNCHANGED <<now, codes, sessions, keys, invites, pc, held, nextCode, nextSession,
                   nextKey, ghosts>>

\* AdminUsersEditHandler gives an account another address.
AdminUsersEdit(u, e) ==
    /\ u \in DOMAIN users /\ ~Taken(e)
    /\ users' = [users EXCEPT ![u] = e]
    /\ UNCHANGED <<now, codes, sessions, keys, invites, pc, held, serials, ghosts>>

\* Mutant: the schema's ON DELETE CASCADE is missing for API keys.
DeleteUserMutant(u) ==
    /\ u \in DOMAIN users
    /\ users' = Without(users, {u})
    /\ codes' = Without(codes, {k \in DOMAIN codes : codes[k].user = u})
    /\ sessions' = Without(sessions, {s \in DOMAIN sessions : sessions[s].user = u})
    /\ UNCHANGED <<now, keys, invites, pc, held, serials, ghosts>>

\* DeleteUser: ON DELETE CASCADE takes the rows that refer to the user along.
DeleteUser(u) ==
    /\ u \in DOMAIN users
    /\ users' = Without(users, {u})
    /\ codes' = Without(codes, {k \in DOMAIN codes : codes[k].user = u})
    /\ sessions' = Without(sessions, {s \in DOMAIN sessions : sessions[s].user = u})
    /\ keys' = Without(keys, {k \in DOMAIN keys : keys[k] = u})
    /\ UNCHANGED <<now, invites, pc, held, serials, ghosts>>

(***************************************************************************)
(* The OAuth endpoints.                                                    *)
(***************************************************************************)

\* authorizePost with the right password.
AuthorizePost(u, c, ch) ==
    /\ u \in DOMAIN users /\ nextCode <= MaxCodes
    /\ codes' = With(codes, nextCode, [user |-> u, client |-> c, challenge |-> ch,
                                       expires |-> now + CodeTTL])
    /\ grant' = With(grant, nextCode, [user |-> u, client |-> c])
    /\ nextCode' = nextCode + 1
    /\ UNCHANGED <<now, users, sessions, keys, invites, pc, held, nextUser, nextSession,
                   nextKey, chain, births>>

PKCE(code, verifier) == code.challenge \in {None, verifier}

\* Mutant: the session is issued for the client of the form.
ExchangeReadMutant(r, k, client, verifier) ==
    /\ pc[r] = "idle" /\ k \in DOMAIN codes
    /\ now <= codes[k].expires
    /\ PKCE(codes[k], verifier)
    /\ Goes(r, "consume", [Idle EXCEPT !.row = k, !.user = codes[k].user, !.chain = k,
                                       !.client = IF client = None THEN codes[k].client
                                                  ELSE client])
    /\ UNCHANGED <<now, rows, serials, ghosts>>

\* tokenAuthorizationCode reads the code and compares it with the form.
ExchangeRead(r, k, client, verifier) ==
    /\ pc[r] = "idle" /\ k \in DOMAIN codes
    /\ now <= codes[k].expires
    /\ client \in {None, codes[k].client}
    /\ PKCE(codes[k], verifier)
    /\ Goes(r, "consume", [Idle EXCEPT !.row = k, !.user = codes[k].user,
                                       !.client = codes[k].client, !.chain = k])
    /\ UNCHANGED <<now, rows, serials, ghosts>>

\* An expired code is deleted when somebody presents it.
ExchangeExpired(k) ==
    /\ k \in DOMAIN codes /\ now > codes[k].expires
    /\ codes' = Without(codes, {k})
    /\ UNCHANGED <<now, users, sessions, keys, invites, pc, held, serials, ghosts>>

\* An ignored error: the statement did nothing and the handler goes on.
Fails(statement) == statement \in Faults

\* DeleteOAuthCode, whether or not the row is still there; its error is ignored.
DeleteOAuthCode(r) ==
    /\ pc[r] = "consume"
    /\ \/ codes' = Without(codes, {held[r].row})
       \/ Fails("DeleteOAuthCode") /\ codes' = codes
    /\ pc' = [pc EXCEPT ![r] = "issue"]
    /\ UNCHANGED <<now, users, sessions, keys, invites, held, serials, ghosts>>

\* tokenRefresh finds the session; its expiry is not looked at.
RefreshRead(r, s) ==
    /\ pc[r] = "idle" /\ s \in DOMAIN sessions
    /\ Goes(r, "drop", [Idle EXCEPT !.row = s, !.user = sessions[s].user,
                                    !.client = sessions[s].client, !.chain = chain[s]])
    /\ UNCHANGED <<now, rows, serials, ghosts>>

\* The old session is deleted; the error is ignored.
DeleteOAuthSession(r) ==
    /\ pc[r] = "drop"
    /\ \/ sessions' = Without(sessions, {held[r].row})
       \/ Fails("DeleteOAuthSession") /\ sessions' = sessions
    /\ pc' = [pc EXCEPT ![r] = "issue"]
    /\ UNCHANGED <<now, users, codes, keys, invites, held, serials, ghosts>>

\* CreateOAuthSession, the last step of both grants: it fails when the user
\* is gone.
CreateOAuthSession(r) ==
    /\ pc[r] = "issue" /\ nextSession <= MaxSessions
    /\ IF held[r].user \in DOMAIN users
       THEN /\ sessions' = With(sessions, nextSession,
                                [user |-> held[r].user, client |-> held[r].client,
                                 expires |-> now + TokenTTL])
            /\ chain' = With(chain, nextSession, held[r].chain)
            /\ nextSession' = nextSession + 1
       ELSE UNCHANGED <<sessions, chain, nextSession>>
    /\ Done(r)
    /\ UNCHANGED <<now, users, codes, keys, invites, nextUser, nextCode, nextKey, grant, births>>

\* Middleware: a session that has expired is deleted when its token is used.
MiddlewareExpired(s) ==
    /\ s \in DOMAIN sessions /\ now > sessions[s].expires
    /\ sessions' = Without(sessions, {s})
    /\ UNCHANGED <<now, users, codes, keys, invites, pc, held, serials, ghosts>>

(***************************************************************************)
(* API keys.                                                               *)
(***************************************************************************)

\* APIKeysCreateHandler has found its user and computes the hash.
GenerateAPIKey(r, u) ==
    /\ pc[r] = "idle" /\ u \in DOMAIN users /\ nextKey <= MaxKeys
    /\ Goes(r, "key", [Idle EXCEPT !.user = u])
    /\ UNCHANGED <<now, rows, serials, ghosts>>

CreateAPIKey(r) ==
    /\ pc[r] = "key" /\ nextKey <= MaxKeys
    /\ IF held[r].user \in DOMAIN users
       THEN keys' = With(keys, nextKey, held[r].user) /\ nextKey' = nextKey + 1
       ELSE UNCHANGED <<keys, nextKey>>
    /\ Done(r)
    /\ UNCHANGED <<now, users, codes, sessions, invites, nextUser, nextCode, nextSession,
                   ghosts>>

DeleteAPIKey(k) ==
    /\ k \in DOMAIN keys
    /\ keys' = Without(keys, {k})
    /\ UNCHANGED <<now, users, codes, sessions, invites, pc, held, serials, ghosts>>

(***************************************************************************)
(* Invitations.                                                            *)
(***************************************************************************)

Pending(e) == \E i \in DOMAIN invites : invites[i].email = e /\ invites[i].status = "pending"

\* Requests that read invitation i as pending and have not finished.
Readers(i) == {r \in Requests : pc[r] \in {"find", "create", "accept"} /\ held[r].row = i}

\* AdminInvitesCreateHandler: people with an account or a pending invitation
\* are skipped.
AdminInvitesCreate(r, e) ==
    /\ pc[r] = "idle" /\ Cardinality(DOMAIN invites) < MaxInvites
    /\ InviteAllowExisting \/ ~Taken(e)
    /\ ~Pending(e)
    /\ Goes(r, "invite", [Idle EXCEPT !.email = e])
    /\ UNCHANGED <<now, rows, serials, ghosts>>

\* The row is inserted; it stays when the mail cannot be sent.
CreateInvite(r) ==
    /\ pc[r] = "invite" /\ Cardinality(DOMAIN invites) < MaxInvites
    /\ invites' = With(invites, Cardinality(DOMAIN invites) + 1,
                       [email |-> held[r].email, expires |-> now + InviteTTL, user |-> 0,
                        status |-> "pending"])
    /\ Done(r)
    /\ UNCHANGED <<now, users, codes, sessions, keys, serials, ghosts>>

RevokeInvite(i) ==
    /\ i \in DOMAIN invites /\ invites[i].status = "pending"
    /\ invites' = [invites EXCEPT ![i].status = "revoked"]
    /\ UNCHANGED <<now, users, codes, sessions, keys, pc, held, serials, ghosts>>

Reads(r, i) ==
    /\ Goes(r, "find", [Idle EXCEPT !.row = i, !.email = invites[i].email])
    /\ UNCHANGED <<now, rows, serials, ghosts>>

\* Mutant: the status is not looked at.
LookupValidInviteMutant(r, i) ==
    /\ pc[r] = "idle" /\ i \in DOMAIN invites
    /\ now <= invites[i].expires
    /\ Reads(r, i)

\* lookupValidInvite of a signup whose form is complete.
LookupValidInvite(r, i) ==
    /\ pc[r] = "idle" /\ i \in DOMAIN invites
    /\ invites[i].status = "pending" /\ now <= invites[i].expires
    /\ Reads(r, i)

\* inviteSignupPost looks for an account with the email.
GetUserByEmail(r) ==
    /\ pc[r] = "find"
    /\ \/ /\ ~Taken(held[r].email)
          /\ Goes(r, "create", held[r])
       \/ \E u \in DOMAIN users :
             /\ users[u] = held[r].email
             /\ IF InviteAllowExisting
                THEN Goes(r, "accept", [held[r] EXCEPT !.user = u])
                ELSE Done(r)
    /\ UNCHANGED <<now, rows, serials, ghosts>>

\* CreateUser after the password was hashed: it fails when the email is taken.
CreateUser(r) ==
    /\ pc[r] = "create" /\ nextUser <= MaxAccounts
    /\ IF Taken(held[r].email)
       THEN Done(r) /\ UNCHANGED <<users, nextUser, births>>
       ELSE /\ users' = With(users, nextUser, held[r].email) /\ nextUser' = nextUser + 1
            /\ births' = [births EXCEPT ![held[r].row] = @ + 1]
            /\ Goes(r, "accept", [held[r] EXCEPT !.user = nextUser])
    /\ UNCHANGED <<now, codes, sessions, keys, invites, nextCode, nextSession, nextKey,
                   grant, chain>>

\* MarkInviteAccepted, whatever the status is by now; an error is only logged.
MarkInviteAccepted(r) ==
    /\ pc[r] = "accept"
    /\ \/ invites' = [invites EXCEPT ![held[r].row].status = "accepted",
                                     ![held[r].row].user = held[r].user]
       \/ Fails("MarkInviteAccepted") /\ invites' = invites
    /\ Done(r)
    /\ UNCHANGED <<now, users, codes, sessions, keys, serials, ghosts>>

\* The bridge stops and starts again: the tables stay, requests are cut off.
Restart ==
    /\ \E r \in Requests : pc[r] # "idle"
    /\ pc' = [r \in Requests |-> "idle"] /\ held' = [r \in Requests |-> Idle]
    /\ UNCHANGED <<now, rows, serials, ghosts>>

Tick ==
    /\ now < MaxTime /\ now' = now + 1
    /\ UNCHANGED <<rows, pc, held, serials, ghosts>>

OAuthNext ==
    \/ \E u \in DOMAIN users, c \in Clients, ch \in Verifiers \cup {None} :
          AuthorizePost(u, c, ch)
    \/ \E r \in Requests :
          \/ \E k \in DOMAIN codes, c \in Clients \cup {None}, v \in Verifiers \cup {None} :
                ExchangeRead(r, k, c, v)
          \/ \E s \in DOMAIN sessions : RefreshRead(r, s)
          \/ DeleteOAuthCode(r) \/ DeleteOAuthSession(r) \/ CreateOAuthSession(r)
          \/ (\E u \in DOMAIN users : GenerateAPIKey(r, u)) \/ CreateAPIKey(r)
    \/ \E k \in DOMAIN codes : ExchangeExpired(k)
    \/ \E s \in DOMAIN sessions : MiddlewareExpired(s)
    \/ \E k \in DOMAIN keys : DeleteAPIKey(k)

InviteNext ==
    \/ \E r \in Requests :
          \/ (\E e \in Emails : AdminInvitesCreate(r, e)) \/ CreateInvite(r)
          \/ (\E i \in DOMAIN invites : LookupValidInvite(r, i))
          \/ GetUserByEmail(r) \/ CreateUser(r) \/ MarkInviteAccepted(r)
    \/ \E i \in DOMAIN invites : RevokeInvite(i)

Next ==
    \/ OAuthNext \/ InviteNext \/ Tick \/ Restart
    \/ \E e \in Emails : AdminUsersCreate(e)
    \/ \E u \in DOMAIN users : DeleteUser(u) \/ \E e \in Emails : AdminUsersEdit(u, e)

Spec == Init /\ [][Next]_vars

(***************************************************************************)
(* Properties.                                                             *)
(***************************************************************************)

\* No code, session or API key refers to an account that was deleted, not even
\* one whose request had read the account or the code before the deletion.
NothingOutlivesAccount ==
    /\ \A k \in DOMAIN codes : codes[k].user \in DOMAIN users
    /\ \A s \in DOMAIN sessions : sessions[s].user \in DOMAIN users
    /\ \A k \in DOMAIN keys : keys[k] \in DOMAIN users

\* "Consume the code (one-time use)" (auth.go:427): the sessions that go back to
\* one code, by exchange and by refreshing, are never two at a time.
CodeIsUsedOnce ==
    \A k \in DOMAIN grant : Cardinality({s \in DOMAIN sessions : chain[s] = k}) <= 1

\* However often it was refreshed, a session belongs to the user and the client
\* that the authorization was given for.
SessionKeepsGrant ==
    \A s \in DOMAIN sessions :
        /\ sessions[s].user = grant[chain[s]].user
        /\ sessions[s].client = grant[chain[s]].client

\* Accepted or revoked, and no signup is under way that found it pending before.
Settled(i) == invites[i].status # "pending" /\ Readers(i) = {}

\* A revocation or an acceptance comes too late only for signups that have found
\* the invitation pending before: once they have ended, it leads to no account
\* and its status stays, whatever failed, was cut off or happened to the account.
SettledForGood ==
    [][\A i \in DOMAIN invites : Settled(i) =>
          Settled(i)' /\ births'[i] = births[i] /\ invites'[i] = invites[i]]_vars

=============================================================================
