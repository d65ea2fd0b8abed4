------------------------------- MODULE Account -------------------------------
(***************************************************************************)
(* One user's account in the web interface: password login, the second     *)
(* factor, sessions and the keys derived from the password                 *)
(* (web/auth.go, web/twofa.go, web/user.go, web/admin.go, store/user.go,   *)
(* store/twofa.go, internal/twofa/twofa.go).                               *)
(*                                                                         *)
(* A login derives a key (DEK) from the password and the user's salt and   *)
(* keeps it in memory.  The second factor's secret and the tokens for      *)
(* backends are stored wrapped with it; a token is also stored under the   *)
(* master key.  A DEK is a byte slice: the maps sessionDEKStore,           *)
(* pendingLogins and pendingSetups share slices, and Zeroize overwrites    *)
(* the slice that all of them see.  Ref is the identity of a slice and mem *)
(* its contents.                                                           *)
(*                                                                         *)
(* Browsers are cookie jars of the same user, who knows the password and   *)
(* has the authenticator at hand.  Every handler is a step except          *)
(* loginPost, which reads the row of the user some time before it writes   *)
(* it, and PasswordHandler, whose statements other requests come between.  *)
(* A login creates a session before it looks for a second factor and       *)
(* another one when it is complete: the token of the first is sent to      *)
(* nobody, but its row and its DEK are there.                              *)
(***************************************************************************)
EXTENDS Naturals, FiniteSets

CONSTANTS
    Browsers,
    Passwords,
    NoPassword,         \* the empty password that autoLogin passes
    Values,             \* what a token may be
    Salts,              \* bound: salts referred to at the same time
    Refs,               \* bound: slices referred to at the same time
    None,
    InviteAllowExisting, \* configuration: an invitation logs an account in
    MaxBegun            \* bound: requests, expiries and restarts

ASSUME NoneAssumption == None \notin Browsers \cup Passwords \cup {NoPassword} \cup Values
ASSUME BoundAssumption ==
    Refs \cup Salts \subseteq Nat /\ MaxBegun \in Nat /\ NoPassword \notin Passwords
ASSUME ConfigAssumption == InviteAllowExisting \in BOOLEAN

VARIABLES
    required,   \* configuration: everybody must have a second factor
    bypass,     \* configuration: ALLOW_TWOFA_BYPASS
    user,       \* the row of the user: password and salt
    twofa,      \* row of user_2fa: the key the secret is wrapped with, or None
    token,      \* row of user_tokens: its value and key, or None
    read,       \* the row as the login under way in each browser read it
    cookie,     \* the session each browser's cookie names
    unsent,     \* whether there are rows and DEKs of sessions nobody was sent
    dek,        \* sessionDEKStore for that session
    pending,    \* pendingLogins for the browser's cookie
    setup,      \* pendingSetups for the browser's cookie
    mem,        \* the contents of the slices
    pc, job,    \* the password change under way in each browser
    saved,      \* the value the user saved last, None if deleted
    overlap,    \* the token was changed under a password change
    factor,     \* how each browser's session was obtained, and when
    begun

config == <<required, bypass>>
rows == <<user, twofa, token>>
logins == <<read, unsent>>
memory == <<dek, pending, setup, mem>>
change == <<pc, job>>
ghosts == <<saved, overlap, factor>>
vars == <<config, rows, logins, cookie, memory, change, ghosts, begun>>

DeriveUserDEK(password, salt) == [password |-> password, salt |-> salt]
Zero == [password |-> None, salt |-> None]
Keys == [password : Passwords \cup {NoPassword, None}, salt : Salts \cup {None}]
Tokens == [value : Values, key : Keys \cup {None}]
Users == [password : Passwords, salt : Salts \cup {None}]
Factors == [how : {"none", "password", "bypass", "code", "enrolled"}, due : BOOLEAN]
NoFactor == [how |-> "none", due |-> FALSE]
NoJob == [password |-> None, salt |-> None, old |-> None, new |-> None,
          listed |-> None, text |-> None, mine |-> FALSE]

\* None is no slice, no salt and no record.
ASSUME AbsentAssumption ==
    /\ None \notin Refs \cup Salts \cup Keys \cup Tokens \cup Users
    /\ None \notin [method : BOOLEAN, dek : Refs \cup {None}]
    /\ None \notin [forced : BOOLEAN, dek : Refs]

TypeOK ==
    /\ required \in BOOLEAN /\ bypass \in BOOLEAN
    /\ user \in Users
    /\ twofa \in Keys \cup {None}
    /\ token \in Tokens \cup {None}
    /\ read \in [Browsers -> Users \cup {None}]
    /\ unsent \subseteq {"row", "dek"}
    /\ cookie \in [Browsers -> {"none", "live", "dead"}]
    /\ dek \in [Browsers -> Refs \cup {None}]
    /\ pending \in [Browsers -> [method : BOOLEAN, dek : Refs \cup {None}] \cup {None}]
    /\ setup \in [Browsers -> [forced : BOOLEAN, dek : Refs] \cup {None}]
    /\ mem \in [Refs -> Keys]
    /\ pc \in [Browsers -> {"idle", "token", "write", "2fa", "rewrap", "session", "update"}]
    /\ \A b \in Browsers : pc[b] = "idle" <=> job[b] = NoJob
    /\ saved \in Values \cup {None} /\ overlap \in BOOLEAN
    /\ factor \in [Browsers -> Factors]
    /\ begun \in 0..MaxBegun

\* The account exists, possibly from before salts, with a token from before
\* user keys.
Init ==
    /\ required \in BOOLEAN /\ bypass \in BOOLEAN
    /\ user \in [password : Passwords, salt : {None}]
    /\ twofa = None
    /\ token \in [value : Values, key : {None}] \cup {None}
    /\ read = [b \in Browsers |-> None] /\ unsent = {}
    /\ cookie = [b \in Browsers |-> "none"]
    /\ dek = [b \in Browsers |-> None]
    /\ pending = [b \in Browsers |-> None] /\ setup = [b \in Browsers |-> None]
    /\ mem = [r \in Refs |-> Zero]
    /\ pc = [b \in Browsers |-> "idle"] /\ job = [b \in Browsers |-> NoJob]
    /\ saved = IF token = None THEN None ELSE token.value
    /\ overlap = FALSE /\ begun = 0
    /\ factor = [b \in Browsers |-> NoFactor]

(***************************************************************************)
(* Slices and salts.                                                       *)
(***************************************************************************)

\* The slices that a browser's session, pending login, pending setup and
\* password change refer to.
Slices(b) ==
    ({dek[b], job[b].old, job[b].new}
       \cup (IF pending[b] = None THEN {} ELSE {pending[b].dek})
       \cup (IF setup[b] = None THEN {} ELSE {setup[b].dek})) \ {None}
Reachable == UNION {Slices(b) : b \in Browsers}

\* The slices have the contents m, as far as anything still refers to them.
Memory(m) == mem' = [r \in Refs |-> IF r \in Reachable' THEN m[r] ELSE Zero]

Unused == Refs \ Reachable
NewRef == CHOOSE r \in Unused : \A o \in Unused : r <= o

SaltsInUse ==
    {user.salt} \cup {mem[r].salt : r \in Reachable} \cup {job[b].salt : b \in Browsers}
      \cup {read[b].salt : b \in {o \in Browsers : read[o] # None}}
      \cup (IF twofa = None THEN {} ELSE {twofa.salt})
      \cup (IF token = None \/ token.key = None THEN {} ELSE {token.key.salt})
FreshSalts == Salts \ SaltsInUse
NewSalt == CHOOSE s \in FreshSalts : \A o \in FreshSalts : s <= o

Zeroized(m, r) == IF r = None THEN m ELSE [m EXCEPT ![r] = Zero]

LoggedIn(b) == cookie[b] = "live"

\* A request arrives, something expires, or the bridge restarts.
Begins == begun < MaxBegun /\ begun' = begun + 1

(***************************************************************************)
(* Login and the second factor.                                            *)
(***************************************************************************)

\* completeLogin: a new session, its cookie and its DEK.  A password change
\* that still runs in this browser belongs to the session before.
CompleteLogin(b, ref, how) ==
    /\ cookie' = [cookie EXCEPT ![b] = "live"]
    /\ dek' = [dek EXCEPT ![b] = ref]
    /\ factor' = [factor EXCEPT ![b] = [how |-> how, due |-> required /\ ~bypass]]
    /\ job' = [job EXCEPT ![b].mine = FALSE]

\* Mutant: enrolment is not asked for.
EnterMutant(b, ref) ==
    IF twofa # None
    THEN /\ pending' = [pending EXCEPT ![b] = [method |-> TRUE, dek |-> ref]]
         /\ UNCHANGED <<cookie, dek, factor, job>>
    ELSE CompleteLogin(b, ref, "password") /\ UNCHANGED pending

\* The password is right: a user with a second factor, or who must have one,
\* gets a pending login, the others a session.
Enter(b, ref) ==
    IF twofa # None \/ required
    THEN /\ pending' = [pending EXCEPT ![b] = [method |-> twofa # None, dek |-> ref]]
         /\ UNCHANGED <<cookie, dek, factor, job>>
    ELSE CompleteLogin(b, ref, "password") /\ UNCHANGED pending

\* loginPost with the right password: the row is read.
LoginRead(b) ==
    /\ Begins
    /\ read[b] = None
    /\ read' = [read EXCEPT ![b] = user]
    /\ UNCHANGED <<config, rows, unsent, cookie, memory, change, ghosts>>

\* The row with the salt that a user without one gets.
Salted(row) == IF row.salt = None THEN [row EXCEPT !.salt = NewSalt] ELSE row

\* Mutant: logins of the same user share the key they derive.
LoginPostMutant(b) ==
    /\ read[b] # None
    /\ Unused # {} /\ FreshSalts # {}
    /\ user' = IF read[b].salt = None THEN Salted(read[b]) ELSE user
    /\ read' = [read EXCEPT ![b] = None]
    /\ unsent' = {"row", "dek"}
    /\ UNCHANGED <<config, twofa, token, setup, pc, saved, overlap, begun>>
    /\ LET row == Salted(read[b])
           key == DeriveUserDEK(row.password, row.salt)
           cached == {r \in Reachable : mem[r] = key}
           ref == IF cached = {} THEN NewRef ELSE CHOOSE r \in cached : TRUE
       IN  Enter(b, ref) /\ Memory([mem EXCEPT ![ref] = key])

\* The rest of loginPost: a user without a salt gets one, and the row is
\* written as it was read; a session and its DEK, sent to nobody; a second
\* slice with the same DEK for the second factor and the session that follows.
LoginPost(b) ==
    /\ read[b] # None
    /\ Unused # {} /\ FreshSalts # {}
    /\ user' = IF read[b].salt = None THEN Salted(read[b]) ELSE user
    /\ read' = [read EXCEPT ![b] = None]
    /\ unsent' = {"row", "dek"}
    /\ Enter(b, NewRef)
    /\ UNCHANGED <<config, twofa, token, setup, pc, saved, overlap, begun>>
    /\ LET row == Salted(read[b])
       IN  Memory([mem EXCEPT ![NewRef] = DeriveUserDEK(row.password, row.salt)])

\* inviteSignupPost of somebody who has an account: autoLogin derives the DEK
\* from an empty password, or none without a salt.
AutoLogin(b) ==
    /\ Begins
    /\ InviteAllowExisting /\ Unused # {}
    /\ UNCHANGED <<config, logins, rows, setup, pc, saved, overlap>>
    /\ IF user.salt = None
       THEN Enter(b, None) /\ Memory(mem)
       ELSE /\ Enter(b, NewRef)
            /\ Memory([mem EXCEPT ![NewRef] = DeriveUserDEK(NoPassword, user.salt)])

\* VerifyLogin with the right code: the secret must unwrap with the DEK.
Unwraps(key, ref) == ref # None /\ key = mem[ref]

\* login2FAPost where the bypass is allowed: no code is asked for.
Login2FABypass(b) ==
    /\ Begins
    /\ bypass /\ pending[b] # None
    /\ pending' = [pending EXCEPT ![b] = None]
    /\ CompleteLogin(b, pending[b].dek, "bypass")
    /\ UNCHANGED <<config, logins, rows, setup, pc, saved, overlap>>
    /\ Memory(mem)

\* login2FAPost with the right code.
Login2FAPost(b) ==
    /\ Begins
    /\ ~bypass
    /\ pending[b] # None /\ pending[b].method
    /\ twofa # None /\ Unwraps(twofa, pending[b].dek)
    /\ pending' = [pending EXCEPT ![b] = None]
    /\ CompleteLogin(b, pending[b].dek, "code")
    /\ UNCHANGED <<config, logins, rows, setup, pc, saved, overlap>>
    /\ Memory(mem)

\* twoFACreds: the pending login comes before the session.
TwoFACreds(b) == IF pending[b] # None THEN pending[b].dek ELSE dek[b]

\* Mutant: a session without a DEK is not refused.
Setup2FAGetMutant(b) ==
    /\ Begins
    /\ pending[b] # None \/ LoggedIn(b)
    /\ setup' = [setup EXCEPT ![b] = [forced |-> pending[b] # None, dek |-> TwoFACreds(b)]]
    /\ UNCHANGED <<config, logins, rows, cookie, dek, pending, change, ghosts>>
    /\ Memory(mem)

\* setup2FAGet: a secret is shown and kept, with the DEK, until it is confirmed.
\* Without a DEK the confirmation would be refused at the latest.
Setup2FAGet(b) ==
    /\ Begins
    /\ pending[b] # None \/ LoggedIn(b)
    /\ TwoFACreds(b) # None
    /\ setup' = [setup EXCEPT ![b] = [forced |-> pending[b] # None, dek |-> TwoFACreds(b)]]
    /\ UNCHANGED <<config, logins, rows, cookie, dek, pending, change, ghosts>>
    /\ Memory(mem)

\* setup2FAPost with the right code: the secret is stored under the DEK, and a
\* pending login is completed.
Setup2FAPost(b) ==
    /\ Begins
    /\ setup[b] # None
    /\ twofa' = mem[setup[b].dek]
    /\ setup' = [setup EXCEPT ![b] = None]
    /\ IF setup[b].forced
       THEN /\ pending' = [pending EXCEPT ![b] = None]
            /\ CompleteLogin(b, setup[b].dek, "enrolled")
       ELSE UNCHANGED <<cookie, dek, factor, job, pending>>
    /\ UNCHANGED <<config, logins, user, token, pc, saved, overlap>>
    /\ Memory(mem)

\* Manager.Delete: the secret goes and every session with it, the ones nobody
\* was sent too.  The DEKs of the sessions stay in memory.
Delete2FA ==
    /\ Begins
    /\ twofa' = None
    /\ unsent' = unsent \ {"row"}
    /\ cookie' = [b \in Browsers |-> IF cookie[b] = "live" THEN "dead" ELSE cookie[b]]
    /\ UNCHANGED <<config, user, token, read, memory, change, ghosts>>

TwoFADisablePost(b) == LoggedIn(b) /\ Delete2FA

AdminUsers2FAReset == twofa # None /\ Delete2FA

\* The session, the pending login or the pending setup of b expires, or all
\* sessions that nobody was sent do.
Expires(b) ==
    /\ Begins
    /\ \/ /\ LoggedIn(b) /\ cookie' = [cookie EXCEPT ![b] = "dead"]
          /\ UNCHANGED <<pending, setup, unsent>>
       \/ /\ pending[b] # None /\ pending' = [pending EXCEPT ![b] = None]
          /\ UNCHANGED <<cookie, setup, unsent>>
       \/ /\ setup[b] # None /\ setup' = [setup EXCEPT ![b] = None]
          /\ UNCHANGED <<cookie, pending, unsent>>
       \/ /\ "row" \in unsent /\ unsent' = unsent \ {"row"}
          /\ UNCHANGED <<cookie, pending, setup>>
    /\ UNCHANGED <<config, rows, read, dek, change, ghosts>>
    /\ Memory(mem)

\* LogoutHandler overwrites the DEK and forgets the session.
Logout(b) ==
    /\ Begins
    /\ cookie[b] # "none"
    /\ cookie' = [cookie EXCEPT ![b] = "none"]
    /\ dek' = [dek EXCEPT ![b] = None]
    /\ factor' = [factor EXCEPT ![b] = NoFactor]
    /\ job' = [job EXCEPT ![b].mine = FALSE]
    /\ UNCHANGED <<config, logins, rows, pending, setup, pc, saved, overlap>>
    /\ Memory(Zeroized(mem, dek[b]))

(***************************************************************************)
(* Tokens.                                                                 *)
(***************************************************************************)

\* TokensHandler: after showing the tokens it overwrites the DEK it used, the
\* slice of the session.
TokensPage(b) ==
    /\ Begins
    /\ LoggedIn(b) /\ dek[b] # None
    /\ mem' = Zeroized(mem, dek[b])
    /\ UNCHANGED <<config, logins, rows, cookie, dek, pending, setup, change, ghosts>>

\* TokensSaveHandler: the token under both keys, then the DEK is overwritten.
TokensSave(b, v) ==
    /\ Begins
    /\ LoggedIn(b) /\ dek[b] # None
    /\ token' = [value |-> v, key |-> mem[dek[b]]]
    /\ saved' = v
    /\ overlap' = (overlap \/ \E o \in Browsers : pc[o] = "write")
    /\ mem' = Zeroized(mem, dek[b])
    /\ UNCHANGED <<config, logins, user, twofa, cookie, dek, pending, setup, change, factor>>

TokensDelete(b) ==
    /\ Begins
    /\ LoggedIn(b) /\ token # None
    /\ token' = None /\ saved' = None
    /\ overlap' = (overlap \/ \E o \in Browsers : pc[o] \in {"token", "write"})
    /\ UNCHANGED <<config, logins, user, twofa, cookie, memory, change, factor>>

(***************************************************************************)
(* PasswordHandler, statement by statement.                                *)
(***************************************************************************)

Step(b, to) == pc' = [pc EXCEPT ![b] = to]
ThenStep(b, to) == Step(b, to) /\ UNCHANGED begun

\* The current password is right: new salt, new DEK, and the list of tokens.
PasswordStart(b, password) ==
    /\ Begins
    /\ LoggedIn(b) /\ pc[b] = "idle" /\ dek[b] # None
    /\ Unused # {} /\ FreshSalts # {}
    /\ job' = [job EXCEPT ![b] =
                  [password |-> password, salt |-> NewSalt, old |-> dek[b], new |-> NewRef,
                   listed |-> token, text |-> None, mine |-> TRUE]]
    /\ Step(b, IF token = None THEN "2fa" ELSE "token")
    /\ UNCHANGED <<config, logins, rows, cookie, dek, pending, setup, ghosts>>
    /\ Memory([mem EXCEPT ![NewRef] = DeriveUserDEK(password, NewSalt)])

\* Mutant: the value of the list is written back, however old it is.
PasswordReadTokenMutant(b) ==
    /\ pc[b] = "token"
    /\ job' = [job EXCEPT ![b].text = job[b].listed.value]
    /\ ThenStep(b, "write")
    /\ UNCHANGED <<config, logins, rows, cookie, memory, ghosts>>

\* The token as it is now: with the user's key, else with the master key; when
\* the row is gone, the plain value of the list, which only old rows have.
PasswordReadToken(b) ==
    /\ pc[b] = "token"
    /\ LET text == IF token # None THEN token.value
                   ELSE IF job[b].listed.key = None THEN job[b].listed.value ELSE None
       IN  /\ job' = [job EXCEPT ![b].text = text]
           /\ ThenStep(b, IF text = None THEN "2fa" ELSE "write")
    /\ UNCHANGED <<config, logins, rows, cookie, memory, ghosts>>

PasswordWriteToken(b) ==
    /\ pc[b] = "write"
    /\ token' = [value |-> job[b].text, key |-> mem[job[b].new]]
    /\ ThenStep(b, "2fa")
    /\ UNCHANGED <<config, logins, user, twofa, cookie, memory, job, ghosts>>

\* The secret is unwrapped with the DEK of the session; when that fails the
\* handler goes on without it.
PasswordRead2FA(b) ==
    /\ pc[b] = "2fa"
    /\ ThenStep(b, IF twofa # None /\ Unwraps(twofa, job[b].old) THEN "rewrap" ELSE "session")
    /\ UNCHANGED <<config, logins, rows, cookie, memory, job, ghosts>>

PasswordRewrap2FA(b) ==
    /\ pc[b] = "rewrap"
    /\ twofa' = mem[job[b].new]
    /\ ThenStep(b, "session")
    /\ UNCHANGED <<config, logins, user, token, cookie, memory, job, ghosts>>

\* The session gets the new DEK and the old slice is overwritten.
PasswordSession(b) ==
    /\ pc[b] = "session"
    /\ dek' = IF job[b].mine THEN [dek EXCEPT ![b] = job[b].new] ELSE dek
    /\ ThenStep(b, "update")
    /\ UNCHANGED <<config, logins, rows, cookie, pending, setup, job, ghosts>>
    /\ Memory(Zeroized(mem, IF job[b].mine THEN dek[b] ELSE job[b].old))

\* UpdateUser; then the deferred calls overwrite both DEKs, the one the session
\* has just got included.
PasswordUpdate(b) ==
    /\ pc[b] = "update"
    /\ user' = [password |-> job[b].password, salt |-> job[b].salt]
    /\ job' = [job EXCEPT ![b] = NoJob]
    /\ ThenStep(b, "idle")
    /\ UNCHANGED <<config, logins, twofa, token, cookie, dek, pending, setup, ghosts>>
    /\ Memory(Zeroized(Zeroized(mem, job[b].old), job[b].new))

(***************************************************************************)
(* Administrators and restarts.                                            *)
(***************************************************************************)

\* AdminUsersEditHandler: the row is written without the salt.
AdminUsersEdit(password) ==
    /\ Begins
    /\ user' = [password |-> password, salt |-> None]
    /\ UNCHANGED <<config, logins, twofa, token, cookie, memory, change, ghosts>>

\* The maps are lost, the rows and the cookies stay, and the configuration may
\* be another one.
Restart ==
    /\ Begins
    /\ required' \in BOOLEAN /\ bypass' \in BOOLEAN
    /\ read' = [b \in Browsers |-> None] /\ unsent' = unsent \ {"dek"}
    /\ dek' = [b \in Browsers |-> None]
    /\ pending' = [b \in Browsers |-> None] /\ setup' = [b \in Browsers |-> None]
    /\ mem' = [r \in Refs |-> Zero]
    /\ pc' = [b \in Browsers |-> "idle"] /\ job' = [b \in Browsers |-> NoJob]
    /\ UNCHANGED <<rows, cookie, ghosts>>

PasswordNext(b) ==
    \/ \E password \in Passwords : PasswordStart(b, password)
    \/ PasswordReadToken(b) \/ PasswordWriteToken(b) \/ PasswordRead2FA(b)
    \/ PasswordRewrap2FA(b) \/ PasswordSession(b) \/ PasswordUpdate(b)

Next ==
    \/ \E b \in Browsers :
          \/ LoginRead(b) \/ LoginPost(b) \/ AutoLogin(b)
          \/ Login2FABypass(b) \/ Login2FAPost(b) \/ Logout(b) \/ Expires(b)
          \/ Setup2FAGet(b) \/ Setup2FAPost(b) \/ TwoFADisablePost(b)
          \/ TokensPage(b) \/ TokensDelete(b) \/ (\E v \in Values : TokensSave(b, v))
          \/ PasswordNext(b)
    \/ AdminUsers2FAReset \/ Restart
    \/ \E password \in Passwords : AdminUsersEdit(password)

Spec == Init /\ [][Next]_vars

(***************************************************************************)
(* Properties.                                                             *)
(***************************************************************************)

\* What a backend is started with is what the user saved last, through any
\* number of password changes and whatever became of the user's keys, unless
\* the token is changed between the reads and the write of a password change.
TokenIsLastSaved ==
    ~overlap => IF saved = None THEN token = None
                ELSE token # None /\ token.value = saved

\* No two browsers have a slice in common, so a handler that overwrites the key
\* it has used (TokensHandler, TokensSaveHandler, LogoutHandler and
\* PasswordHandler all do) overwrites nobody else's, although a key travels from
\* the login over the second factor and the enrolment to the session.
KeysAreApart ==
    \A b, o \in Browsers : b # o => Slices(b) \cap Slices(o) = {}

\* Nobody holds a session that was issued while a second factor was required,
\* and the bypass off, without having verified a code, of a stored secret or of
\* a new one.  A session that was issued before the requirement keeps its rights.
SecondFactorIsPassed ==
    \A b \in Browsers :
        LoggedIn(b) /\ factor[b].due => factor[b].how \in {"code", "enrolled"}
=============================================================================
