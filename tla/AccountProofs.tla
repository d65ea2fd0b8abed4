---------------------------- MODULE AccountProofs ----------------------------
(***************************************************************************)
(* The account of a user, for any number of browsers, passwords, token     *)
(* values, salts and slices, with and without a required second factor.    *)
(***************************************************************************)
EXTENDS Account, TLAPS, WellFoundedInduction

\* The parts of TypeOK.
RowsOK ==
    /\ required \in BOOLEAN /\ bypass \in BOOLEAN /\ begun \in 0..MaxBegun
    /\ user \in Users
    /\ twofa \in Keys \cup {None} /\ token \in Tokens \cup {None}
    /\ saved \in Values \cup {None} /\ overlap \in BOOLEAN

LoginsOK == read \in [Browsers -> Users \cup {None}] /\ unsent \subseteq {"row", "dek"}

BrowsersOK ==
    /\ cookie \in [Browsers -> {"none", "live", "dead"}]
    /\ dek \in [Browsers -> Refs \cup {None}]
    /\ pending \in [Browsers -> [method : BOOLEAN, dek : Refs \cup {None}] \cup {None}]
    /\ setup \in [Browsers -> [forced : BOOLEAN, dek : Refs] \cup {None}]
    /\ factor \in [Browsers -> Factors]

MemOK == mem \in [Refs -> Keys]

\* What a password change carries from statement to statement.
Jobs == [password : Passwords \cup {None}, salt : Salts \cup {None}, old : Refs \cup {None},
         new : Refs \cup {None}, listed : Tokens \cup {None}, text : Values \cup {None},
         mine : BOOLEAN]

JobsOK ==
    /\ pc \in [Browsers -> {"idle", "token", "write", "2fa", "rewrap", "session", "update"}]
    /\ job \in [Browsers -> Jobs]
    /\ \A b \in Browsers :
          /\ pc[b] = "idle" => job[b] = NoJob
          /\ pc[b] # "idle" => /\ job[b].password \in Passwords /\ job[b].salt \in Salts
                               /\ job[b].old \in Refs /\ job[b].new \in Refs
          /\ pc[b] = "token" => job[b].listed # None
          /\ pc[b] = "write" => job[b].text # None

\* Unless the token was changed under a password change, what a change is about
\* to write back is what the row holds.
TokenUnderChange ==
    ~overlap =>
        \A b \in Browsers :
            /\ pc[b] \in {"token", "write"} => token # None
            /\ pc[b] = "write" => job[b].text = token.value

IndInv ==
    /\ RowsOK /\ LoginsOK /\ BrowsersOK /\ MemOK /\ JobsOK
    /\ TokenUnderChange /\ TokenIsLastSaved /\ KeysAreApart /\ SecondFactorIsPassed

-----------------------------------------------------------------------------
(* Facts about slices, salts and keys.                                     *)

\* A browser without a password change has nothing to write back.
LEMMA NoJobFacts ==
    NoJob \in Jobs /\ NoJob.password = None /\ [NoJob EXCEPT !.mine = FALSE] = NoJob
<1>1. NoJob \in Jobs /\ NoJob.password = None /\ NoJob.mine = FALSE
  BY DEF NoJob, Jobs
<1>2. DOMAIN NoJob = {"password", "salt", "old", "new", "listed", "text", "mine"}
  BY DEF NoJob
<1>3. NoJob = [x \in DOMAIN NoJob |-> NoJob[x]]
  BY DEF NoJob
<1>4. QED BY <1>1, <1>2, <1>3

\* The type invariant in parts.
LEMMA TypeParts ==
    ASSUME RowsOK, LoginsOK, BrowsersOK, MemOK, JobsOK
    PROVE  TypeOK
<1>1. \A b \in Browsers : pc[b] = "idle" <=> job[b] = NoJob
  BY NoJobFacts, NoneAssumption DEF JobsOK
<1>2. QED BY <1>1 DEF RowsOK, LoginsOK, BrowsersOK, MemOK, JobsOK, TypeOK

\* A set of numbers has a least element.
LEMMA LeastNumber ==
    ASSUME NEW S, S \subseteq Nat, S # {}
    PROVE  \E n \in S : \A m \in S : n <= m
<1>1. PICK n \in S : \A m \in S : <<m, n>> \notin OpToRel(<, Nat)
  BY NatLessThanWellFounded, WFMin, Zenon
<1>2. ASSUME NEW m \in S PROVE n <= m
  <2>1. ~(m < n)
    BY <1>1, Zenon DEF OpToRel
  <2>2. QED BY <2>1
<1>3. QED BY <1>2

\* A salt and a slice that are chosen are new.
LEMMA ChoiceFacts ==
    /\ FreshSalts # {} => NewSalt \in Salts
    /\ Unused # {} => NewRef \in Refs /\ NewRef \notin Reachable
<1>1. FreshSalts \subseteq Nat /\ Unused \subseteq Nat
  BY BoundAssumption DEF FreshSalts, Unused
<1>2. FreshSalts # {} => NewSalt \in FreshSalts
  <2>1. FreshSalts # {} => \E s \in FreshSalts : \A o \in FreshSalts : s <= o
    <3>1. CASE FreshSalts # {}
      BY <1>1, <3>1, LeastNumber, Zenon
    <3>2. QED BY <3>1
  <2>2. QED BY <2>1 DEF NewSalt
<1>3. Unused # {} => NewRef \in Unused
  <2>1. Unused # {} => \E r \in Unused : \A o \in Unused : r <= o
    <3>1. CASE Unused # {}
      BY <1>1, <3>1, LeastNumber, Zenon
    <3>2. QED BY <3>1
  <2>2. QED BY <2>1 DEF NewRef
<1>4. QED BY <1>2, <1>3 DEF FreshSalts, Unused

\* A key derived from a password of the user is a key.
LEMMA KeyFacts ==
    /\ Zero \in Keys
    /\ \A p \in Passwords \cup {NoPassword}, s \in Salts : DeriveUserDEK(p, s) \in Keys
BY DEF Zero, Keys, DeriveUserDEK

\* The row that a login goes on with is a row with a salt, and a login writes a row.
LEMMA SaltedFacts ==
    ASSUME NEW row \in Users, FreshSalts # {}
    PROVE  /\ Salted(row) \in Users
           /\ Salted(row).password \in Passwords /\ Salted(row).salt \in Salts
BY ChoiceFacts DEF Salted, Users

\* Reachable is what the browsers refer to.
LEMMA ReachableSlices == \A b \in Browsers : Slices(b) \subseteq Reachable
<1>1. ASSUME NEW b \in Browsers, NEW r \in Slices(b) PROVE r \in Reachable
  <2>1. Slices(b) \in {Slices(c) : c \in Browsers}
    OBVIOUS
  <2>2. QED BY <1>1, <2>1 DEF Reachable
<1>2. QED BY <1>1

\* Overwriting a slice keeps the types of all.
LEMMA ZeroizedFacts ==
    ASSUME NEW m \in [Refs -> Keys], NEW r \in Refs \cup {None}
    PROVE  /\ Zeroized(m, r) \in [Refs -> Keys]
           /\ \A x \in Refs : Zeroized(m, r)[x] = IF x = r THEN Zero ELSE m[x]
BY KeyFacts, AbsentAssumption DEF Zeroized

\* What is referred to keeps its contents, the rest is forgotten.
LEMMA MemoryFacts ==
    ASSUME NEW m \in [Refs -> Keys], Memory(m)
    PROVE  /\ mem' \in [Refs -> Keys]
           /\ \A r \in Refs : mem'[r] \in {m[r], Zero}
           /\ \A r \in Refs : r \in Reachable' => mem'[r] = m[r]
BY KeyFacts DEF Memory

\* A change of the password may lose its session; all else it carries stays.
LEMMA OwnJobs ==
    ASSUME JobsOK, NEW b \in Browsers, job' = job \/ job' = [job EXCEPT ![b].mine = FALSE],
           pc' = pc
    PROVE  /\ JobsOK'
           /\ \A o \in Browsers :
                 /\ job'[o].password = job[o].password /\ job'[o].salt = job[o].salt
                 /\ job'[o].old = job[o].old /\ job'[o].new = job[o].new
                 /\ job'[o].text = job[o].text
<1>1. CASE job' = job
  BY <1>1 DEF JobsOK
<1>2. CASE job' = [job EXCEPT ![b].mine = FALSE]
  <2>1. job[b] \in Jobs /\ job'[b] = [job[b] EXCEPT !.mine = FALSE]
        /\ \A o \in Browsers : o # b => job'[o] = job[o]
    BY <1>2 DEF JobsOK
  <2>2. /\ job'[b].password = job[b].password /\ job'[b].salt = job[b].salt
        /\ job'[b].old = job[b].old /\ job'[b].new = job[b].new
        /\ job'[b].text = job[b].text /\ job'[b].listed = job[b].listed
        /\ job'[b] \in Jobs
    BY <2>1 DEF Jobs
  <2>3. job[b] = NoJob => job'[b] = NoJob
    BY <2>1, NoJobFacts
  <2>4. job' \in [Browsers -> Jobs]
    BY <1>2, <2>1, <2>2 DEF JobsOK
  <2>5. JobsOK'
    BY <2>1, <2>2, <2>3, <2>4 DEF JobsOK
  <2>6. QED BY <2>1, <2>2, <2>5
<1>3. QED BY <1>1, <1>2

\* How a session is obtained is one of the ways there are.
LEMMA CompletedFactor ==
    ASSUME NEW how \in {"password", "bypass", "code", "enrolled"}
    PROVE  [how |-> how, due |-> required /\ ~bypass] \in Factors
BY DEF Factors

\* A login that is not yet complete waits, the others get a session; what it refers
\* to besides what it did is the new slice.
LEMMA EnterFacts ==
    ASSUME BrowsersOK, JobsOK, NEW b \in Browsers, NEW ref \in Refs \cup {None},
           Enter(b, ref), setup' = setup, pc' = pc
    PROVE  /\ BrowsersOK' /\ JobsOK'
           /\ job' = job \/ job' = [job EXCEPT ![b].mine = FALSE]
           /\ Slices(b)' \subseteq Slices(b) \cup ({ref} \ {None})
           /\ \A o \in Browsers : o # b => Slices(o)' = Slices(o)
<1>1. CASE twofa # None \/ required
  <2>1. /\ pending' = [pending EXCEPT ![b] = [method |-> twofa # None, dek |-> ref]]
        /\ cookie' = cookie /\ dek' = dek /\ factor' = factor /\ job' = job
    BY <1>1 DEF Enter
  <2>2. [method |-> twofa # None, dek |-> ref] \in [method : BOOLEAN, dek : Refs \cup {None}]
    OBVIOUS
  <2>3. pending' \in [Browsers -> [method : BOOLEAN, dek : Refs \cup {None}] \cup {None}]
    BY <2>1, <2>2 DEF BrowsersOK
  <2>4. /\ pending'[b] = [method |-> twofa # None, dek |-> ref]
        /\ \A o \in Browsers : o # b => pending'[o] = pending[o]
    BY <2>1 DEF BrowsersOK
  <2>5. BrowsersOK'
    BY <2>1, <2>3 DEF BrowsersOK
  <2>6. QED BY <2>1, <2>4, <2>5, OwnJobs DEF Slices
<1>2. CASE ~(twofa # None \/ required)
  <2>1. CompleteLogin(b, ref, "password") /\ pending' = pending
    BY <1>2 DEF Enter
  <2>2. /\ dek'[b] = ref /\ \A o \in Browsers : o # b => dek'[o] = dek[o]
        /\ job' = [job EXCEPT ![b].mine = FALSE]
    BY <2>1 DEF CompleteLogin, BrowsersOK
  <2>3. BrowsersOK'
    BY <2>1, CompletedFactor DEF CompleteLogin, BrowsersOK
  <2>4. QED BY <2>1, <2>2, <2>3, OwnJobs DEF Slices
<1>3. QED BY <1>1, <1>2

\* Each step keeps the types of the rows.
LEMMA RowsStep ==
    ASSUME IndInv, [Next]_vars
    PROVE  RowsOK'
<1>1. ASSUME NEW b \in Browsers, LoginPost(b) PROVE RowsOK'
  <2>1. user' \in Users
    BY <1>1, SaltedFacts DEF LoginPost, IndInv, RowsOK, LoginsOK
  <2>2. QED
    BY <1>1, <2>1 DEF LoginPost, config, IndInv, RowsOK
<1>2. ASSUME NEW b \in Browsers, AutoLogin(b) PROVE RowsOK'
  BY <1>2, BoundAssumption, ChoiceFacts
    DEF AutoLogin, IndInv, RowsOK, config, Users, Begins, Enter, CompleteLogin, rows
<1>3. ASSUME NEW b \in Browsers, Login2FAPost(b) PROVE RowsOK'
  BY <1>3, BoundAssumption, ChoiceFacts
    DEF Login2FAPost, IndInv, RowsOK, config, Users, Begins, CompleteLogin, rows
<1>4. ASSUME NEW b \in Browsers, Logout(b) PROVE RowsOK'
  BY <1>4, BoundAssumption, ChoiceFacts
    DEF Logout, IndInv, RowsOK, config, Users, Begins, rows
<1>5. ASSUME NEW b \in Browsers, Expires(b) PROVE RowsOK'
  BY <1>5, BoundAssumption, ChoiceFacts
    DEF Expires, IndInv, RowsOK, config, Users, Begins, rows, change, ghosts
<1>6. ASSUME NEW b \in Browsers, Setup2FAGet(b) PROVE RowsOK'
  BY <1>6, BoundAssumption, ChoiceFacts
    DEF Setup2FAGet, IndInv, RowsOK, config, Users, Begins, rows, change, ghosts
<1>7. ASSUME NEW b \in Browsers, Setup2FAPost(b) PROVE RowsOK'
  BY <1>7, BoundAssumption, ChoiceFacts
    DEF Setup2FAPost, IndInv, RowsOK, BrowsersOK, MemOK, JobsOK, config, Users, Begins,
        CompleteLogin
<1>8. CASE Delete2FA
  BY <1>8, BoundAssumption DEF Delete2FA, config, ghosts, IndInv, RowsOK, Begins
<1>9. ASSUME NEW b \in Browsers, TokensPage(b) PROVE RowsOK'
  BY <1>9, BoundAssumption, ChoiceFacts
    DEF TokensPage, IndInv, RowsOK, config, ghosts, Users, Begins, rows, change
<1>10. ASSUME NEW b \in Browsers, TokensDelete(b) PROVE RowsOK'
  BY <1>10, BoundAssumption, ChoiceFacts
    DEF TokensDelete, IndInv, RowsOK, config, Users, Begins, memory, change
<1>11. ASSUME NEW b \in Browsers, NEW v \in Values, TokensSave(b, v) PROVE RowsOK'
  BY <1>11, BoundAssumption, ChoiceFacts
    DEF TokensSave, IndInv, RowsOK, BrowsersOK, MemOK, JobsOK, config, Users, Begins,
        change, Tokens
<1>12. ASSUME NEW b \in Browsers, NEW p \in Passwords, PasswordStart(b, p) PROVE RowsOK'
  BY <1>12, BoundAssumption, ChoiceFacts
    DEF PasswordStart, IndInv, RowsOK, config, ghosts, Users, Begins, Step, rows
<1>13. ASSUME NEW b \in Browsers, PasswordReadToken(b) PROVE RowsOK'
  BY <1>13, BoundAssumption, ChoiceFacts
    DEF PasswordReadToken, IndInv, RowsOK, config, Users, ThenStep, Step, rows, memory, ghosts
<1>14. ASSUME NEW b \in Browsers, PasswordWriteToken(b) PROVE RowsOK'
  <2>1. job[b].text \in Values /\ mem[job[b].new] \in Keys
    BY <1>14 DEF PasswordWriteToken, IndInv, JobsOK, Jobs, MemOK
  <2>2. token' \in Tokens
    BY <1>14, <2>1 DEF PasswordWriteToken, Tokens
  <2>3. QED
    BY <1>14, <2>2 DEF PasswordWriteToken, config, IndInv, RowsOK, ThenStep, ghosts
<1>15. ASSUME NEW b \in Browsers, PasswordRead2FA(b) PROVE RowsOK'
  BY <1>15, BoundAssumption, ChoiceFacts
    DEF PasswordRead2FA, IndInv, RowsOK, config, Users, ThenStep, Step, rows, memory, ghosts
<1>16. ASSUME NEW b \in Browsers, PasswordRewrap2FA(b) PROVE RowsOK'
  BY <1>16, BoundAssumption, ChoiceFacts
    DEF PasswordRewrap2FA, IndInv, RowsOK, BrowsersOK, MemOK, JobsOK, config, Users,
        ThenStep, Step, memory, ghosts
<1>17. ASSUME NEW b \in Browsers, PasswordSession(b) PROVE RowsOK'
  BY <1>17, BoundAssumption, ChoiceFacts
    DEF PasswordSession, IndInv, RowsOK, config, Users, ThenStep, Step, rows, ghosts
<1>18. ASSUME NEW b \in Browsers, PasswordUpdate(b) PROVE RowsOK'
  BY <1>18, BoundAssumption, ChoiceFacts
    DEF PasswordUpdate, IndInv, RowsOK, JobsOK, config, Users, ThenStep, Step, ghosts
<1>19. ASSUME NEW p \in Passwords, AdminUsersEdit(p) PROVE RowsOK'
  BY <1>19, BoundAssumption, ChoiceFacts
    DEF AdminUsersEdit, IndInv, RowsOK, config, ghosts, Users, Begins, memory, change
<1>20. CASE Restart
  BY <1>20, BoundAssumption, ChoiceFacts
    DEF Restart, IndInv, RowsOK, ghosts, Users, Begins, rows
<1>21. CASE UNCHANGED vars
  BY <1>21
    DEF IndInv, RowsOK, BrowsersOK, MemOK, JobsOK, config, vars, rows, memory, change, ghosts
<1>22. ASSUME NEW b \in Browsers, Login2FABypass(b) PROVE RowsOK'
  BY <1>22, BoundAssumption, ChoiceFacts
    DEF Login2FABypass, IndInv, RowsOK, config, Users, Begins, CompleteLogin, rows
<1>23. ASSUME NEW b \in Browsers, LoginRead(b) PROVE RowsOK'
  BY <1>23, BoundAssumption DEF LoginRead, config, rows, ghosts, Begins, IndInv, RowsOK
<1>24. QED
  BY <1>1, <1>2, <1>3, <1>4, <1>5, <1>6, <1>7, <1>8, <1>9, <1>10, <1>11, <1>12, <1>13, <1>14,
     <1>15, <1>16, <1>17, <1>18, <1>19, <1>20, <1>21, <1>22, <1>23
    DEF Next, PasswordNext, TwoFADisablePost, AdminUsers2FAReset

\* Each step keeps the types of what logins read and leave.
LEMMA LoginsStep ==
    ASSUME IndInv, [Next]_vars
    PROVE  LoginsOK'
<1>1. ASSUME NEW b \in Browsers, LoginRead(b) \/ LoginPost(b) PROVE LoginsOK'
  BY <1>1 DEF LoginRead, LoginPost, IndInv, RowsOK, LoginsOK
<1>2. CASE Delete2FA
  BY <1>2 DEF Delete2FA, IndInv, LoginsOK
<1>3. ASSUME NEW b \in Browsers, Expires(b) PROVE LoginsOK'
  BY <1>3 DEF Expires, IndInv, LoginsOK
<1>4. CASE Restart
  BY <1>4 DEF Restart, IndInv, LoginsOK
<1>5. ASSUME NEW b \in Browsers,
             \/ AutoLogin(b) \/ Login2FABypass(b) \/ Login2FAPost(b) \/ Logout(b)
             \/ Setup2FAGet(b) \/ Setup2FAPost(b) \/ TokensPage(b) \/ TokensDelete(b)
             \/ (\E v \in Values : TokensSave(b, v)) \/ PasswordNext(b)
      PROVE  LoginsOK'
  <2>1. logins' = logins
    BY <1>5
      DEF AutoLogin, Login2FABypass, Login2FAPost, Logout, Setup2FAGet, Setup2FAPost,
          TokensPage, TokensDelete, TokensSave, PasswordNext, PasswordStart, PasswordReadToken,
          PasswordWriteToken, PasswordRead2FA, PasswordRewrap2FA, PasswordSession,
          PasswordUpdate, logins
  <2>2. QED BY <2>1 DEF logins, IndInv, LoginsOK
<1>6. CASE (\E p \in Passwords : AdminUsersEdit(p)) \/ UNCHANGED vars
  BY <1>6 DEF AdminUsersEdit, vars, logins, IndInv, LoginsOK
<1>7. QED
  BY <1>1, <1>2, <1>3, <1>4, <1>5, <1>6 DEF Next, TwoFADisablePost, AdminUsers2FAReset

\* Each step keeps the types of sessions and pending logins.
LEMMA BrowsersStep ==
    ASSUME IndInv, [Next]_vars
    PROVE  BrowsersOK'
<1>1. ASSUME NEW b \in Browsers, LoginPost(b) PROVE BrowsersOK'
  <2>1. setup' = setup /\ pc' = pc /\ \E ref \in Refs \cup {None} : Enter(b, ref)
    BY <1>1, ChoiceFacts DEF LoginPost
  <2>2. QED BY <2>1, EnterFacts DEF IndInv
<1>2. ASSUME NEW b \in Browsers, AutoLogin(b) PROVE BrowsersOK'
  <2>1. setup' = setup /\ pc' = pc /\ \E ref \in Refs \cup {None} : Enter(b, ref)
    BY <1>2, ChoiceFacts DEF AutoLogin
  <2>2. QED BY <2>1, EnterFacts DEF IndInv
<1>3. ASSUME NEW b \in Browsers, Login2FAPost(b) PROVE BrowsersOK'
  BY <1>3, CompletedFactor, ChoiceFacts
    DEF Login2FAPost, IndInv, BrowsersOK, JobsOK, Begins, CompleteLogin, rows
<1>4. ASSUME NEW b \in Browsers, Logout(b) PROVE BrowsersOK'
  BY <1>4, ChoiceFacts
    DEF Logout, IndInv, BrowsersOK, JobsOK, Begins, NoFactor, Factors, rows
<1>5. ASSUME NEW b \in Browsers, Expires(b) PROVE BrowsersOK'
  BY <1>5, ChoiceFacts
    DEF Expires, IndInv, BrowsersOK, JobsOK, Begins, rows, change, ghosts
<1>6. ASSUME NEW b \in Browsers, Setup2FAGet(b) PROVE BrowsersOK'
  BY <1>6, ChoiceFacts
    DEF Setup2FAGet, IndInv, BrowsersOK, JobsOK, TwoFACreds, Begins, rows, change, ghosts
<1>7. ASSUME NEW b \in Browsers, Setup2FAPost(b) PROVE BrowsersOK'
  <2>1. setup[b].dek \in Refs /\ setup' = [setup EXCEPT ![b] = None]
    BY <1>7 DEF Setup2FAPost, IndInv, BrowsersOK
  <2>2. CASE setup[b].forced
    <3>1. CompleteLogin(b, setup[b].dek, "enrolled") /\ pending' = [pending EXCEPT ![b] = None]
      BY <1>7, <2>2 DEF Setup2FAPost
    <3>2. QED BY <2>1, <3>1, CompletedFactor DEF CompleteLogin, IndInv, BrowsersOK
  <2>3. CASE ~setup[b].forced
    BY <1>7, <2>1, <2>3 DEF Setup2FAPost, IndInv, BrowsersOK
  <2>4. QED BY <2>2, <2>3
<1>8. CASE Delete2FA
  BY <1>8, ChoiceFacts
    DEF Delete2FA, IndInv, BrowsersOK, JobsOK, Begins, ghosts, memory, change
<1>9. ASSUME NEW b \in Browsers, TokensPage(b) PROVE BrowsersOK'
  BY <1>9, ChoiceFacts
    DEF TokensPage, IndInv, BrowsersOK, JobsOK, Begins, ghosts, rows, change
<1>10. ASSUME NEW b \in Browsers, TokensDelete(b) PROVE BrowsersOK'
  BY <1>10, ChoiceFacts
    DEF TokensDelete, IndInv, BrowsersOK, JobsOK, Begins, memory, change
<1>11. ASSUME NEW b \in Browsers, NEW v \in Values, TokensSave(b, v) PROVE BrowsersOK'
  BY <1>11, ChoiceFacts
    DEF TokensSave, IndInv, BrowsersOK, JobsOK, Begins, change
<1>12. ASSUME NEW b \in Browsers, NEW p \in Passwords, PasswordStart(b, p) PROVE BrowsersOK'
  BY <1>12, ChoiceFacts
    DEF PasswordStart, IndInv, BrowsersOK, JobsOK, Begins, ghosts, Step, rows
<1>13. ASSUME NEW b \in Browsers, PasswordReadToken(b) PROVE BrowsersOK'
  BY <1>13, ChoiceFacts
    DEF PasswordReadToken, IndInv, BrowsersOK, JobsOK, ThenStep, Step, rows, memory, ghosts
<1>14. ASSUME NEW b \in Browsers, PasswordWriteToken(b) PROVE BrowsersOK'
  BY <1>14, ChoiceFacts
    DEF PasswordWriteToken, IndInv, BrowsersOK, JobsOK, ThenStep, Step, memory, ghosts
<1>15. ASSUME NEW b \in Browsers, PasswordRead2FA(b) PROVE BrowsersOK'
  BY <1>15, ChoiceFacts
    DEF PasswordRead2FA, IndInv, BrowsersOK, JobsOK, ThenStep, Step, rows, memory, ghosts
<1>16. ASSUME NEW b \in Browsers, PasswordRewrap2FA(b) PROVE BrowsersOK'
  BY <1>16, ChoiceFacts
    DEF PasswordRewrap2FA, IndInv, BrowsersOK, JobsOK, ThenStep, Step, memory, ghosts
<1>17. ASSUME NEW b \in Browsers, PasswordSession(b) PROVE BrowsersOK'
  BY <1>17, ChoiceFacts
    DEF PasswordSession, IndInv, BrowsersOK, JobsOK, ThenStep, Step, rows, ghosts
<1>18. ASSUME NEW b \in Browsers, PasswordUpdate(b) PROVE BrowsersOK'
  BY <1>18, ChoiceFacts
    DEF PasswordUpdate, IndInv, BrowsersOK, JobsOK, ThenStep, Step, ghosts
<1>19. ASSUME NEW p \in Passwords, AdminUsersEdit(p) PROVE BrowsersOK'
  BY <1>19, ChoiceFacts
    DEF AdminUsersEdit, IndInv, BrowsersOK, JobsOK, Begins, ghosts, memory, change
<1>20. CASE Restart
  BY <1>20, ChoiceFacts
    DEF Restart, IndInv, BrowsersOK, JobsOK, Begins, ghosts, rows
<1>21. CASE UNCHANGED vars
  BY <1>21
    DEF IndInv, BrowsersOK, JobsOK, TwoFACreds, vars, rows, memory, change, ghosts
<1>22. ASSUME NEW b \in Browsers, Login2FABypass(b) PROVE BrowsersOK'
  BY <1>22, CompletedFactor, ChoiceFacts
    DEF Login2FABypass, IndInv, BrowsersOK, JobsOK, Begins, CompleteLogin, rows
<1>23. ASSUME NEW b \in Browsers, LoginRead(b) PROVE BrowsersOK'
  BY <1>23 DEF LoginRead, memory, ghosts, IndInv, BrowsersOK
<1>24. QED
  BY <1>1, <1>2, <1>3, <1>4, <1>5, <1>6, <1>7, <1>8, <1>9, <1>10, <1>11, <1>12, <1>13, <1>14,
     <1>15, <1>16, <1>17, <1>18, <1>19, <1>20, <1>21, <1>22, <1>23
    DEF Next, PasswordNext, TwoFADisablePost, AdminUsers2FAReset

\* Each step keeps the types of password changes.
LEMMA JobsStep ==
    ASSUME IndInv, [Next]_vars
    PROVE  JobsOK'
<1>1. ASSUME NEW b \in Browsers, LoginPost(b) PROVE JobsOK'
  <2>1. setup' = setup /\ pc' = pc /\ \E ref \in Refs \cup {None} : Enter(b, ref)
    BY <1>1, ChoiceFacts DEF LoginPost
  <2>2. QED BY <2>1, EnterFacts DEF IndInv
<1>2. ASSUME NEW b \in Browsers, AutoLogin(b) PROVE JobsOK'
  <2>1. setup' = setup /\ pc' = pc /\ \E ref \in Refs \cup {None} : Enter(b, ref)
    BY <1>2, ChoiceFacts DEF AutoLogin
  <2>2. QED BY <2>1, EnterFacts DEF IndInv
<1>3. ASSUME NEW b \in Browsers, Login2FAPost(b) PROVE JobsOK'
  BY <1>3, OwnJobs DEF Login2FAPost, CompleteLogin, IndInv
<1>4. ASSUME NEW b \in Browsers, Logout(b) PROVE JobsOK'
  BY <1>4, OwnJobs DEF Logout, IndInv
<1>5. ASSUME NEW b \in Browsers, Expires(b) PROVE JobsOK'
  BY <1>5, ChoiceFacts, NoneAssumption
    DEF Expires, IndInv, JobsOK, RowsOK, BrowsersOK, Jobs, NoJob, Begins, rows, change, ghosts
<1>6. ASSUME NEW b \in Browsers, Setup2FAGet(b) PROVE JobsOK'
  BY <1>6, ChoiceFacts, NoneAssumption
    DEF Setup2FAGet, IndInv, JobsOK, RowsOK, BrowsersOK, Jobs, NoJob, Begins, rows, change,
        ghosts
<1>7. ASSUME NEW b \in Browsers, Setup2FAPost(b) PROVE JobsOK'
  BY <1>7, OwnJobs DEF Setup2FAPost, CompleteLogin, IndInv
<1>8. CASE Delete2FA
  BY <1>8, ChoiceFacts, NoneAssumption
    DEF Delete2FA, IndInv, JobsOK, RowsOK, BrowsersOK, Jobs, NoJob, Begins, memory, change
<1>9. ASSUME NEW b \in Browsers, TokensPage(b) PROVE JobsOK'
  BY <1>9, ChoiceFacts, NoneAssumption
    DEF TokensPage, IndInv, JobsOK, RowsOK, BrowsersOK, Jobs, NoJob, Begins, rows, change
<1>10. ASSUME NEW b \in Browsers, TokensDelete(b) PROVE JobsOK'
  BY <1>10, ChoiceFacts, NoneAssumption
    DEF TokensDelete, IndInv, JobsOK, RowsOK, BrowsersOK, Jobs, NoJob, Begins, memory, change
<1>11. ASSUME NEW b \in Browsers, NEW v \in Values, TokensSave(b, v) PROVE JobsOK'
  BY <1>11, ChoiceFacts, NoneAssumption
    DEF TokensSave, IndInv, JobsOK, RowsOK, BrowsersOK, Jobs, NoJob, Begins, change
<1>12. ASSUME NEW b \in Browsers, NEW p \in Passwords, PasswordStart(b, p) PROVE JobsOK'
  BY <1>12, ChoiceFacts, NoneAssumption
    DEF PasswordStart, IndInv, JobsOK, RowsOK, BrowsersOK, Jobs, NoJob, Begins, Step, rows
<1>13. ASSUME NEW b \in Browsers, PasswordReadToken(b) PROVE JobsOK'
  <2> DEFINE text == IF token # None THEN token.value
                     ELSE IF job[b].listed.key = None THEN job[b].listed.value ELSE None
  <2>1. /\ pc[b] = "token" /\ job[b] \in Jobs /\ job[b].listed \in Tokens
        /\ job' = [job EXCEPT ![b].text = text]
        /\ pc' = [pc EXCEPT ![b] = IF text = None THEN "2fa" ELSE "write"]
    BY <1>13 DEF PasswordReadToken, ThenStep, Step, IndInv, JobsOK, Jobs
  <2>2. text \in Values \cup {None}
    BY <2>1 DEF IndInv, RowsOK, Tokens
  <2> HIDE DEF text
  <2>3. job'[b] = [job[b] EXCEPT !.text = text]
        /\ \A o \in Browsers : o # b => job'[o] = job[o] /\ pc'[o] = pc[o]
    BY <2>1 DEF IndInv, JobsOK
  <2>4. /\ job'[b] \in Jobs /\ job'[b].text = text
        /\ job'[b].password = job[b].password /\ job'[b].salt = job[b].salt
        /\ job'[b].old = job[b].old /\ job'[b].new = job[b].new
    BY <2>1, <2>2, <2>3 DEF Jobs
  <2>5. job' \in [Browsers -> Jobs] /\ pc'[b] = IF text = None THEN "2fa" ELSE "write"
    BY <2>1, <2>3, <2>4 DEF IndInv, JobsOK
  <2>6. QED
    BY <2>1, <2>3, <2>4, <2>5 DEF IndInv, JobsOK
<1>14. ASSUME NEW b \in Browsers, PasswordWriteToken(b) PROVE JobsOK'
  BY <1>14, ChoiceFacts, NoneAssumption
    DEF PasswordWriteToken, IndInv, JobsOK, RowsOK, BrowsersOK, Jobs, NoJob, ThenStep, Step,
        memory, ghosts
<1>15. ASSUME NEW b \in Browsers, PasswordRead2FA(b) PROVE JobsOK'
  BY <1>15, ChoiceFacts, NoneAssumption
    DEF PasswordRead2FA, IndInv, JobsOK, RowsOK, BrowsersOK, Jobs, NoJob, ThenStep, Step,
        rows, memory, ghosts
<1>16. ASSUME NEW b \in Browsers, PasswordRewrap2FA(b) PROVE JobsOK'
  BY <1>16, ChoiceFacts, NoneAssumption
    DEF PasswordRewrap2FA, IndInv, JobsOK, RowsOK, BrowsersOK, Jobs, NoJob, ThenStep, Step,
        memory, ghosts
<1>17. ASSUME NEW b \in Browsers, PasswordSession(b) PROVE JobsOK'
  BY <1>17, ChoiceFacts, NoneAssumption
    DEF PasswordSession, IndInv, JobsOK, RowsOK, BrowsersOK, Jobs, NoJob, ThenStep, Step,
        rows, ghosts
<1>18. ASSUME NEW b \in Browsers, PasswordUpdate(b) PROVE JobsOK'
  BY <1>18, ChoiceFacts, NoneAssumption
    DEF PasswordUpdate, IndInv, JobsOK, RowsOK, BrowsersOK, Jobs, NoJob, ThenStep, Step, ghosts
<1>19. ASSUME NEW p \in Passwords, AdminUsersEdit(p) PROVE JobsOK'
  BY <1>19, ChoiceFacts, NoneAssumption
    DEF AdminUsersEdit, IndInv, JobsOK, RowsOK, BrowsersOK, Jobs, NoJob, Begins, memory, change
<1>20. CASE Restart
  BY <1>20, ChoiceFacts, NoneAssumption
    DEF Restart, IndInv, JobsOK, RowsOK, BrowsersOK, Jobs, NoJob, Begins, rows
<1>21. CASE UNCHANGED vars
  BY <1>21
    DEF IndInv, JobsOK, RowsOK, BrowsersOK, Jobs, NoJob, vars, rows, memory, change, ghosts
<1>22. ASSUME NEW b \in Browsers, Login2FABypass(b) PROVE JobsOK'
  BY <1>22, OwnJobs DEF Login2FABypass, CompleteLogin, IndInv
<1>23. ASSUME NEW b \in Browsers, LoginRead(b) PROVE JobsOK'
  BY <1>23 DEF LoginRead, change, IndInv, JobsOK
<1>24. QED
  BY <1>1, <1>2, <1>3, <1>4, <1>5, <1>6, <1>7, <1>8, <1>9, <1>10, <1>11, <1>12, <1>13, <1>14,
     <1>15, <1>16, <1>17, <1>18, <1>19, <1>20, <1>21, <1>22, <1>23
    DEF Next, PasswordNext, TwoFADisablePost, AdminUsers2FAReset

\* A password alone leads to a session only where no second factor is required.
LEMMA EnterPasses ==
    ASSUME BrowsersOK, SecondFactorIsPassed, NEW b \in Browsers, NEW ref, Enter(b, ref)
    PROVE  SecondFactorIsPassed'
<1>1. CASE twofa # None \/ required
  BY <1>1 DEF Enter, SecondFactorIsPassed, LoggedIn
<1>2. CASE ~(twofa # None \/ required)
  <2>1. /\ cookie' = [cookie EXCEPT ![b] = "live"] /\ ~required
        /\ factor' = [factor EXCEPT ![b] = [how |-> "password", due |-> required /\ ~bypass]]
    BY <1>2 DEF Enter, CompleteLogin
  <2>2. ~factor'[b].due
    BY <2>1 DEF BrowsersOK
  <2>3. \A o \in Browsers : o # b => cookie'[o] = cookie[o] /\ factor'[o] = factor[o]
    BY <2>1 DEF BrowsersOK
  <2>4. QED BY <2>2, <2>3 DEF SecondFactorIsPassed, LoggedIn
<1>3. QED BY <1>1, <1>2

\* No step sends a session without the second factor while it is required.
LEMMA FactorStep ==
    ASSUME IndInv, [Next]_vars
    PROVE  SecondFactorIsPassed'
<1>1. ASSUME NEW b \in Browsers, LoginPost(b) PROVE SecondFactorIsPassed'
  <2>1. \E ref : Enter(b, ref)
    BY <1>1 DEF LoginPost
  <2>2. QED BY <2>1, EnterPasses DEF IndInv
<1>2. ASSUME NEW b \in Browsers, AutoLogin(b) PROVE SecondFactorIsPassed'
  <2>1. \E ref : Enter(b, ref)
    BY <1>2 DEF AutoLogin
  <2>2. QED BY <2>1, EnterPasses DEF IndInv
<1>3. ASSUME NEW b \in Browsers, Login2FAPost(b) PROVE SecondFactorIsPassed'
  BY <1>3
    DEF Login2FAPost, IndInv, SecondFactorIsPassed, BrowsersOK, LoggedIn, CompleteLogin
<1>4. ASSUME NEW b \in Browsers, Logout(b) PROVE SecondFactorIsPassed'
  BY <1>4
    DEF Logout, IndInv, SecondFactorIsPassed, BrowsersOK, LoggedIn, NoFactor
<1>5. ASSUME NEW b \in Browsers, Expires(b) PROVE SecondFactorIsPassed'
  BY <1>5
    DEF Expires, IndInv, SecondFactorIsPassed, BrowsersOK, LoggedIn, ghosts
<1>6. ASSUME NEW b \in Browsers, Setup2FAGet(b) PROVE SecondFactorIsPassed'
  BY <1>6
    DEF Setup2FAGet, IndInv, SecondFactorIsPassed, BrowsersOK, LoggedIn, ghosts
<1>7. ASSUME NEW b \in Browsers, Setup2FAPost(b) PROVE SecondFactorIsPassed'
  BY <1>7
    DEF Setup2FAPost, IndInv, SecondFactorIsPassed, BrowsersOK, LoggedIn, CompleteLogin
<1>8. CASE Delete2FA
  BY <1>8
    DEF Delete2FA, IndInv, SecondFactorIsPassed, BrowsersOK, LoggedIn, ghosts
<1>9. ASSUME NEW b \in Browsers, TokensPage(b) PROVE SecondFactorIsPassed'
  BY <1>9
    DEF TokensPage, IndInv, SecondFactorIsPassed, BrowsersOK, LoggedIn, ghosts
<1>10. ASSUME NEW b \in Browsers, TokensDelete(b) PROVE SecondFactorIsPassed'
  BY <1>10
    DEF TokensDelete, IndInv, SecondFactorIsPassed, BrowsersOK, LoggedIn
<1>11. ASSUME NEW b \in Browsers, NEW v \in Values, TokensSave(b, v) PROVE SecondFactorIsPassed'
  BY <1>11
    DEF TokensSave, IndInv, SecondFactorIsPassed, BrowsersOK, LoggedIn
<1>12. ASSUME NEW b \in Browsers, NEW p \in Passwords,
             PasswordStart(b, p)
      PROVE  SecondFactorIsPassed'
  BY <1>12
    DEF PasswordStart, IndInv, SecondFactorIsPassed, BrowsersOK, LoggedIn, ghosts, Step
<1>13. ASSUME NEW b \in Browsers, PasswordReadToken(b) PROVE SecondFactorIsPassed'
  BY <1>13
    DEF PasswordReadToken, IndInv, SecondFactorIsPassed, BrowsersOK, LoggedIn, ThenStep,
        Step, ghosts
<1>14. ASSUME NEW b \in Browsers, PasswordWriteToken(b) PROVE SecondFactorIsPassed'
  BY <1>14
    DEF PasswordWriteToken, IndInv, SecondFactorIsPassed, BrowsersOK, LoggedIn, ThenStep,
        Step, ghosts
<1>15. ASSUME NEW b \in Browsers, PasswordRead2FA(b) PROVE SecondFactorIsPassed'
  BY <1>15
    DEF PasswordRead2FA, IndInv, SecondFactorIsPassed, BrowsersOK, LoggedIn, ThenStep, Step,
        ghosts
<1>16. ASSUME NEW b \in Browsers, PasswordRewrap2FA(b) PROVE SecondFactorIsPassed'
  BY <1>16
    DEF PasswordRewrap2FA, IndInv, SecondFactorIsPassed, BrowsersOK, LoggedIn, ThenStep,
        Step, ghosts
<1>17. ASSUME NEW b \in Browsers, PasswordSession(b) PROVE SecondFactorIsPassed'
  BY <1>17
    DEF PasswordSession, IndInv, SecondFactorIsPassed, BrowsersOK, LoggedIn, ThenStep, Step,
        ghosts
<1>18. ASSUME NEW b \in Browsers, PasswordUpdate(b) PROVE SecondFactorIsPassed'
  BY <1>18
    DEF PasswordUpdate, IndInv, SecondFactorIsPassed, BrowsersOK, LoggedIn, ThenStep, Step,
        ghosts
<1>19. ASSUME NEW p \in Passwords, AdminUsersEdit(p) PROVE SecondFactorIsPassed'
  BY <1>19
    DEF AdminUsersEdit, IndInv, SecondFactorIsPassed, BrowsersOK, LoggedIn, ghosts
<1>20. CASE Restart
  BY <1>20
    DEF Restart, IndInv, SecondFactorIsPassed, BrowsersOK, LoggedIn, ghosts
<1>21. CASE UNCHANGED vars
  BY <1>21
    DEF IndInv, SecondFactorIsPassed, BrowsersOK, LoggedIn, config, vars, rows, memory,
        change, ghosts
<1>22. ASSUME NEW b \in Browsers, Login2FABypass(b) PROVE SecondFactorIsPassed'
  BY <1>22
    DEF Login2FABypass, IndInv, SecondFactorIsPassed, BrowsersOK, LoggedIn, CompleteLogin
<1>23. ASSUME NEW b \in Browsers, LoginRead(b) PROVE SecondFactorIsPassed'
  BY <1>23 DEF LoginRead, ghosts, IndInv, SecondFactorIsPassed, LoggedIn
<1>24. QED
  BY <1>1, <1>2, <1>3, <1>4, <1>5, <1>6, <1>7, <1>8, <1>9, <1>10, <1>11, <1>12, <1>13, <1>14,
     <1>15, <1>16, <1>17, <1>18, <1>19, <1>20, <1>21, <1>22, <1>23
    DEF Next, PasswordNext, TwoFADisablePost, AdminUsers2FAReset

\* Each step keeps the value the user saved, as long as no token is changed under a
\* password change.
LEMMA TokenStep ==
    ASSUME IndInv, [Next]_vars
    PROVE  (TokenUnderChange /\ TokenIsLastSaved)'
<1>1. ASSUME NEW b \in Browsers, LoginPost(b) PROVE (TokenUnderChange /\ TokenIsLastSaved)'
  <2>1. setup' = setup /\ pc' = pc /\ \E ref \in Refs \cup {None} : Enter(b, ref)
    BY <1>1, ChoiceFacts DEF LoginPost
  <2>2. \A o \in Browsers : job'[o].text = job[o].text
    BY <2>1, EnterFacts, OwnJobs DEF IndInv
  <2>3. token' = token /\ saved' = saved /\ overlap' = overlap
    BY <1>1 DEF LoginPost
  <2>4. QED BY <2>1, <2>2, <2>3 DEF IndInv, TokenUnderChange, TokenIsLastSaved
<1>2. ASSUME NEW b \in Browsers, AutoLogin(b) PROVE (TokenUnderChange /\ TokenIsLastSaved)'
  <2>1. setup' = setup /\ pc' = pc /\ \E ref \in Refs \cup {None} : Enter(b, ref)
    BY <1>2, ChoiceFacts DEF AutoLogin
  <2>2. \A o \in Browsers : job'[o].text = job[o].text
    BY <2>1, EnterFacts, OwnJobs DEF IndInv
  <2>3. token' = token /\ saved' = saved /\ overlap' = overlap
    BY <1>2 DEF AutoLogin, rows
  <2>4. QED BY <2>1, <2>2, <2>3 DEF IndInv, TokenUnderChange, TokenIsLastSaved
<1>3. ASSUME NEW b \in Browsers, Login2FAPost(b) PROVE (TokenUnderChange /\ TokenIsLastSaved)'
  BY <1>3, NoneAssumption, AbsentAssumption
    DEF Login2FAPost, IndInv, TokenUnderChange, TokenIsLastSaved, RowsOK, JobsOK, Tokens,
        Begins, CompleteLogin, rows
<1>4. ASSUME NEW b \in Browsers, Logout(b) PROVE (TokenUnderChange /\ TokenIsLastSaved)'
  BY <1>4, NoneAssumption, AbsentAssumption
    DEF Logout, IndInv, TokenUnderChange, TokenIsLastSaved, RowsOK, JobsOK, Tokens, Begins, rows
<1>5. ASSUME NEW b \in Browsers, Expires(b) PROVE (TokenUnderChange /\ TokenIsLastSaved)'
  BY <1>5, NoneAssumption, AbsentAssumption
    DEF Expires, IndInv, TokenUnderChange, TokenIsLastSaved, RowsOK, JobsOK, Tokens, Begins,
        rows, change, ghosts
<1>6. ASSUME NEW b \in Browsers, Setup2FAGet(b) PROVE (TokenUnderChange /\ TokenIsLastSaved)'
  BY <1>6, NoneAssumption, AbsentAssumption
    DEF Setup2FAGet, IndInv, TokenUnderChange, TokenIsLastSaved, RowsOK, JobsOK, Tokens,
        Begins, rows, change, ghosts
<1>7. ASSUME NEW b \in Browsers, Setup2FAPost(b) PROVE (TokenUnderChange /\ TokenIsLastSaved)'
  <2>1. token' = token /\ saved' = saved /\ overlap' = overlap /\ pc' = pc
        /\ \A o \in Browsers : job'[o].text = job[o].text
    BY <1>7, OwnJobs DEF Setup2FAPost, CompleteLogin, IndInv
  <2>2. QED BY <2>1 DEF IndInv, TokenUnderChange, TokenIsLastSaved
<1>8. CASE Delete2FA
  BY <1>8, NoneAssumption, AbsentAssumption
    DEF Delete2FA, ghosts, IndInv, TokenUnderChange, TokenIsLastSaved, RowsOK, JobsOK,
        Tokens, Begins, memory, change
<1>9. ASSUME NEW b \in Browsers, TokensPage(b) PROVE (TokenUnderChange /\ TokenIsLastSaved)'
  BY <1>9, NoneAssumption, AbsentAssumption
    DEF TokensPage, ghosts, IndInv, TokenUnderChange, TokenIsLastSaved, RowsOK, JobsOK,
        Tokens, Begins, rows, change
<1>10. ASSUME NEW b \in Browsers, TokensDelete(b) PROVE (TokenUnderChange /\ TokenIsLastSaved)'
  BY <1>10, NoneAssumption, AbsentAssumption
    DEF TokensDelete, IndInv, TokenUnderChange, TokenIsLastSaved, RowsOK, JobsOK, Tokens,
        Begins, memory, change
<1>11. ASSUME NEW b \in Browsers, NEW v \in Values,
             TokensSave(b, v)
      PROVE  (TokenUnderChange /\ TokenIsLastSaved)'
  <2>1. /\ token' = [value |-> v, key |-> mem[dek[b]]] /\ saved' = v /\ pc' = pc /\ job' = job
        /\ overlap' = (overlap \/ \E o \in Browsers : pc[o] = "write")
        /\ mem[dek[b]] \in Keys
    BY <1>11 DEF TokensSave, change, IndInv, BrowsersOK, MemOK
  <2>2. token' \in Tokens /\ token' # None /\ token'.value = v /\ v # None
    BY <2>1, NoneAssumption, AbsentAssumption DEF Tokens
  <2>3. QED BY <2>1, <2>2 DEF TokenUnderChange, TokenIsLastSaved
<1>12. ASSUME NEW b \in Browsers, NEW p \in Passwords,
             PasswordStart(b, p)
      PROVE  (TokenUnderChange /\ TokenIsLastSaved)'
  BY <1>12, NoneAssumption, AbsentAssumption
    DEF PasswordStart, ghosts, IndInv, TokenUnderChange, TokenIsLastSaved, RowsOK, JobsOK,
        Tokens, Begins, Step, rows
<1>13. ASSUME NEW b \in Browsers,
             PasswordReadToken(b)
      PROVE  (TokenUnderChange /\ TokenIsLastSaved)'
  BY <1>13, NoneAssumption, AbsentAssumption
    DEF PasswordReadToken, IndInv, TokenUnderChange, TokenIsLastSaved, RowsOK, JobsOK,
        Tokens, ThenStep, Step, rows, memory, ghosts
<1>14. ASSUME NEW b \in Browsers,
             PasswordWriteToken(b)
      PROVE  (TokenUnderChange /\ TokenIsLastSaved)'
  <2>1. /\ token' = [value |-> job[b].text, key |-> mem[job[b].new]]
        /\ saved' = saved /\ overlap' = overlap /\ job' = job /\ pc[b] = "write"
        /\ pc' = [pc EXCEPT ![b] = "2fa"]
    BY <1>14 DEF PasswordWriteToken, ThenStep, Step, ghosts
  <2>2. token' \in Tokens /\ token' # None /\ token'.value = job[b].text
    BY <2>1, AbsentAssumption DEF Tokens, IndInv, JobsOK, Jobs, MemOK
  <2>3. \A o \in Browsers : pc'[o] \in {"token", "write"} => pc'[o] = pc[o]
    BY <2>1 DEF IndInv, JobsOK
  <2>4. overlap \/ (token # None /\ token.value = job[b].text)
    BY <2>1 DEF IndInv, TokenUnderChange
  <2>5. QED
    BY <2>1, <2>2, <2>3, <2>4 DEF IndInv, TokenUnderChange, TokenIsLastSaved
<1>15. ASSUME NEW b \in Browsers,
             PasswordRead2FA(b)
      PROVE  (TokenUnderChange /\ TokenIsLastSaved)'
  BY <1>15, NoneAssumption, AbsentAssumption
    DEF PasswordRead2FA, IndInv, TokenUnderChange, TokenIsLastSaved, RowsOK, JobsOK, Tokens,
        ThenStep, Step, rows, memory, ghosts
<1>16. ASSUME NEW b \in Browsers,
             PasswordRewrap2FA(b)
      PROVE  (TokenUnderChange /\ TokenIsLastSaved)'
  BY <1>16, NoneAssumption, AbsentAssumption
    DEF PasswordRewrap2FA, IndInv, TokenUnderChange, TokenIsLastSaved, RowsOK, JobsOK,
        Tokens, ThenStep, Step, memory, ghosts
<1>17. ASSUME NEW b \in Browsers,
             PasswordSession(b)
      PROVE  (TokenUnderChange /\ TokenIsLastSaved)'
  BY <1>17, NoneAssumption, AbsentAssumption
    DEF PasswordSession, IndInv, TokenUnderChange, TokenIsLastSaved, RowsOK, JobsOK, Tokens,
        ThenStep, Step, rows, ghosts
<1>18. ASSUME NEW b \in Browsers,
             PasswordUpdate(b)
      PROVE  (TokenUnderChange /\ TokenIsLastSaved)'
  BY <1>18, NoneAssumption, AbsentAssumption
    DEF PasswordUpdate, IndInv, TokenUnderChange, TokenIsLastSaved, RowsOK, JobsOK, Tokens,
        ThenStep, Step, ghosts
<1>19. ASSUME NEW p \in Passwords,
             AdminUsersEdit(p)
      PROVE  (TokenUnderChange /\ TokenIsLastSaved)'
  BY <1>19, NoneAssumption, AbsentAssumption
    DEF AdminUsersEdit, ghosts, IndInv, TokenUnderChange, TokenIsLastSaved, RowsOK, JobsOK,
        Tokens, Begins, memory, change
<1>20. CASE Restart
  BY <1>20, NoneAssumption, AbsentAssumption
    DEF Restart, ghosts, IndInv, TokenUnderChange, TokenIsLastSaved, RowsOK, JobsOK, Tokens,
        Begins, rows
<1>21. CASE UNCHANGED vars
  BY <1>21
    DEF IndInv, TokenUnderChange, TokenIsLastSaved, RowsOK, JobsOK, Tokens, vars, rows,
        memory, change, ghosts
<1>22. ASSUME NEW b \in Browsers, Login2FABypass(b) PROVE (TokenUnderChange /\ TokenIsLastSaved)'
  BY <1>22, NoneAssumption, AbsentAssumption
    DEF Login2FABypass, IndInv, TokenUnderChange, TokenIsLastSaved, RowsOK, JobsOK, Tokens,
        Begins, CompleteLogin, rows
<1>23. ASSUME NEW b \in Browsers, LoginRead(b) PROVE (TokenUnderChange /\ TokenIsLastSaved)'
  BY <1>23 DEF LoginRead, rows, change, ghosts, IndInv, TokenUnderChange, TokenIsLastSaved
<1>24. QED
  BY <1>1, <1>2, <1>3, <1>4, <1>5, <1>6, <1>7, <1>8, <1>9, <1>10, <1>11, <1>12, <1>13, <1>14,
     <1>15, <1>16, <1>17, <1>18, <1>19, <1>20, <1>21, <1>22, <1>23
    DEF Next, PasswordNext, TwoFADisablePost, AdminUsers2FAReset

\* Each step keeps the types of the slices.
LEMMA MemoryStep ==
    ASSUME IndInv, [Next]_vars
    PROVE  MemOK'
<1>1. ASSUME NEW b \in Browsers, LoginPost(b) PROVE MemOK'
  <2> DEFINE k == DeriveUserDEK(Salted(read[b]).password, Salted(read[b]).salt)
             m == [mem EXCEPT ![NewRef] = k]
  <2>1. NewRef \in Refs /\ Memory(m) /\ twofa' = twofa
    BY <1>1, ChoiceFacts DEF LoginPost
  <2>2. Salted(read[b]).password \in Passwords /\ Salted(read[b]).salt \in Salts
    BY <1>1, SaltedFacts DEF LoginPost, IndInv, LoginsOK
  <2>3. k \in Keys
    BY <2>2, KeyFacts
  <2> HIDE DEF k
  <2>4. m \in [Refs -> Keys]
    BY <2>1, <2>3 DEF IndInv, MemOK
  <2> HIDE DEF m
  <2>5. QED BY <2>1, <2>4, MemoryFacts, KeyFacts DEF IndInv, MemOK
<1>2. ASSUME NEW b \in Browsers, AutoLogin(b) PROVE MemOK'
  <2>1. CASE user.salt = None
    BY <1>2, <2>1, MemoryFacts, KeyFacts DEF AutoLogin, rows, IndInv, MemOK
  <2>2. CASE user.salt # None
    <3> DEFINE k == DeriveUserDEK(NoPassword, user.salt)
               m == [mem EXCEPT ![NewRef] = k]
    <3>1. NewRef \in Refs /\ Memory(m) /\ twofa' = twofa /\ user.salt \in Salts
      BY <1>2, <2>2, ChoiceFacts DEF AutoLogin, rows, IndInv, RowsOK, Users
    <3>2. k \in Keys
      BY <3>1, KeyFacts
    <3> HIDE DEF k
    <3>3. m \in [Refs -> Keys]
      BY <3>1, <3>2 DEF IndInv, MemOK
    <3> HIDE DEF m
    <3>4. QED BY <3>1, <3>3, MemoryFacts, KeyFacts DEF IndInv, MemOK
  <2>3. QED BY <2>1, <2>2
<1>3. ASSUME NEW b \in Browsers, Login2FAPost(b) PROVE MemOK'
  BY <1>3, MemoryFacts, KeyFacts DEF Login2FAPost, rows, IndInv, MemOK
<1>4. ASSUME NEW b \in Browsers, Logout(b) PROVE MemOK'
  <2> DEFINE m == Zeroized(mem, dek[b])
  <2>1. dek[b] \in Refs \cup {None} /\ Memory(m) /\ twofa' = twofa
    BY <1>4 DEF Logout, rows, IndInv, BrowsersOK, JobsOK, Jobs
  <2>2. m \in [Refs -> Keys]
    BY <2>1, ZeroizedFacts, KeyFacts DEF IndInv, MemOK
  <2> HIDE DEF m
  <2>3. QED BY <2>1, <2>2, MemoryFacts, KeyFacts DEF IndInv, MemOK
<1>5. ASSUME NEW b \in Browsers, Expires(b) PROVE MemOK'
  BY <1>5, MemoryFacts, KeyFacts DEF Expires, rows, IndInv, MemOK
<1>6. ASSUME NEW b \in Browsers, Setup2FAGet(b) PROVE MemOK'
  BY <1>6, MemoryFacts, KeyFacts DEF Setup2FAGet, rows, IndInv, MemOK
<1>7. ASSUME NEW b \in Browsers, Setup2FAPost(b) PROVE MemOK'
  <2>1. setup[b].dek \in Refs /\ twofa' = mem[setup[b].dek] /\ Memory(mem)
    BY <1>7 DEF Setup2FAPost, IndInv, BrowsersOK
  <2>2. QED BY <2>1, MemoryFacts, KeyFacts DEF IndInv, MemOK
<1>8. CASE Delete2FA
  BY <1>8 DEF Delete2FA, memory, IndInv, MemOK
<1>9. ASSUME NEW b \in Browsers, TokensPage(b) PROVE MemOK'
  <2> DEFINE m == Zeroized(mem, dek[b])
  <2>1. dek[b] \in Refs \cup {None} /\ mem' = m /\ twofa' = twofa
    BY <1>9 DEF TokensPage, rows, ghosts, IndInv, BrowsersOK, JobsOK, Jobs
  <2>2. m \in [Refs -> Keys]
    BY <2>1, ZeroizedFacts, KeyFacts DEF IndInv, MemOK
  <2> HIDE DEF m
  <2>3. QED BY <2>1, <2>2, MemoryFacts, KeyFacts DEF IndInv, MemOK
<1>10. ASSUME NEW b \in Browsers, TokensDelete(b) PROVE MemOK'
  BY <1>10 DEF TokensDelete, memory, IndInv, MemOK
<1>11. ASSUME NEW b \in Browsers, NEW v \in Values,
             TokensSave(b, v)
      PROVE  MemOK'
  <2> DEFINE m == Zeroized(mem, dek[b])
  <2>1. dek[b] \in Refs \cup {None} /\ mem' = m /\ twofa' = twofa
    BY <1>11 DEF TokensSave, IndInv, BrowsersOK, JobsOK, Jobs
  <2>2. m \in [Refs -> Keys]
    BY <2>1, ZeroizedFacts, KeyFacts DEF IndInv, MemOK
  <2> HIDE DEF m
  <2>3. QED BY <2>1, <2>2, MemoryFacts, KeyFacts DEF IndInv, MemOK
<1>12. ASSUME NEW b \in Browsers, NEW p \in Passwords,
             PasswordStart(b, p)
      PROVE  MemOK'
  <2> DEFINE k == DeriveUserDEK(p, NewSalt)
             m == [mem EXCEPT ![NewRef] = k]
  <2>1. NewRef \in Refs /\ NewSalt \in Salts /\ Memory(m) /\ twofa' = twofa
    BY <1>12, ChoiceFacts DEF PasswordStart, rows
  <2>2. k \in Keys
    BY <2>1, KeyFacts
  <2> HIDE DEF k
  <2>3. m \in [Refs -> Keys]
    BY <2>1, <2>2 DEF IndInv, MemOK
  <2> HIDE DEF m
  <2>4. QED BY <2>1, <2>3, MemoryFacts, KeyFacts DEF IndInv, MemOK
<1>13. ASSUME NEW b \in Browsers, PasswordReadToken(b) PROVE MemOK'
  BY <1>13 DEF PasswordReadToken, memory, rows, IndInv, MemOK
<1>14. ASSUME NEW b \in Browsers, PasswordWriteToken(b) PROVE MemOK'
  BY <1>14 DEF PasswordWriteToken, memory, IndInv, MemOK
<1>15. ASSUME NEW b \in Browsers, PasswordRead2FA(b) PROVE MemOK'
  BY <1>15 DEF PasswordRead2FA, memory, rows, IndInv, MemOK
<1>16. ASSUME NEW b \in Browsers, PasswordRewrap2FA(b) PROVE MemOK'
  BY <1>16 DEF PasswordRewrap2FA, memory, IndInv, MemOK, JobsOK
<1>17. ASSUME NEW b \in Browsers, PasswordSession(b) PROVE MemOK'
  <2> DEFINE r0 == IF job[b].mine THEN dek[b] ELSE job[b].old
             m == Zeroized(mem, r0)
  <2>1. r0 \in Refs \cup {None} /\ Memory(m) /\ twofa' = twofa
    BY <1>17 DEF PasswordSession, rows, IndInv, BrowsersOK, JobsOK
  <2>2. m \in [Refs -> Keys]
    BY <2>1, ZeroizedFacts, KeyFacts DEF IndInv, MemOK
  <2> HIDE DEF m
  <2>3. QED BY <2>1, <2>2, MemoryFacts, KeyFacts DEF IndInv, MemOK
<1>18. ASSUME NEW b \in Browsers, PasswordUpdate(b) PROVE MemOK'
  <2> DEFINE n == Zeroized(mem, job[b].old)
             m == Zeroized(n, job[b].new)
  <2>1. job[b].old \in Refs /\ job[b].new \in Refs /\ Memory(m) /\ twofa' = twofa
    BY <1>18 DEF PasswordUpdate, IndInv, JobsOK
  <2>2. n \in [Refs -> Keys]
    BY <2>1, ZeroizedFacts, KeyFacts DEF IndInv, MemOK
  <2> HIDE DEF n
  <2>3. m \in [Refs -> Keys]
    BY <2>1, <2>2, ZeroizedFacts, KeyFacts
  <2> HIDE DEF m
  <2>4. QED BY <2>1, <2>3, MemoryFacts, KeyFacts DEF IndInv, MemOK
<1>19. ASSUME NEW p \in Passwords, AdminUsersEdit(p) PROVE MemOK'
  BY <1>19 DEF AdminUsersEdit, memory, IndInv, MemOK
<1>20. CASE Restart
  BY <1>20, KeyFacts DEF Restart, rows, IndInv, MemOK
<1>21. CASE UNCHANGED vars
  BY <1>21 DEF vars, memory, rows, IndInv, MemOK
<1>22. ASSUME NEW b \in Browsers, Login2FABypass(b) PROVE MemOK'
  BY <1>22, MemoryFacts, KeyFacts DEF Login2FABypass, rows, IndInv, MemOK
<1>23. ASSUME NEW b \in Browsers, LoginRead(b) PROVE MemOK'
  BY <1>23 DEF LoginRead, memory, IndInv, MemOK
<1>24. QED
  BY <1>1, <1>2, <1>3, <1>4, <1>5, <1>6, <1>7, <1>8, <1>9, <1>10, <1>11, <1>12, <1>13, <1>14,
     <1>15, <1>16, <1>17, <1>18, <1>19, <1>20, <1>21, <1>22, <1>23
    DEF Next, PasswordNext, TwoFADisablePost, AdminUsers2FAReset

\* No step lets two browsers share a slice.
LEMMA ApartStep ==
    ASSUME IndInv, [Next]_vars
    PROVE  KeysAreApart'
<1>1. ASSUME NEW b \in Browsers, LoginPost(b) PROVE KeysAreApart'
  <2>1. setup' = setup /\ pc' = pc /\ \E ref \in {NewRef, None} : Enter(b, ref)
    BY <1>1 DEF LoginPost
  <2>2. NewRef \in Refs /\ NewRef \notin Reachable
    BY <1>1, ChoiceFacts DEF LoginPost
  <2>3. /\ Slices(b)' \subseteq Slices(b) \cup {NewRef}
        /\ \A o \in Browsers : o # b => Slices(o)' = Slices(o)
    BY <2>1, <2>2, EnterFacts DEF IndInv
  <2>4. QED BY <2>2, <2>3, ReachableSlices DEF IndInv, KeysAreApart
<1>2. ASSUME NEW b \in Browsers, AutoLogin(b) PROVE KeysAreApart'
  <2>1. setup' = setup /\ pc' = pc /\ \E ref \in {NewRef, None} : Enter(b, ref)
    BY <1>2 DEF AutoLogin
  <2>2. NewRef \in Refs /\ NewRef \notin Reachable
    BY <1>2, ChoiceFacts DEF AutoLogin
  <2>3. /\ Slices(b)' \subseteq Slices(b) \cup {NewRef}
        /\ \A o \in Browsers : o # b => Slices(o)' = Slices(o)
    BY <2>1, <2>2, EnterFacts DEF IndInv
  <2>4. QED BY <2>2, <2>3, ReachableSlices DEF IndInv, KeysAreApart
<1>3. ASSUME NEW b \in Browsers, Login2FAPost(b) PROVE KeysAreApart'
  <2>1. \A o \in Browsers : Slices(o)' \subseteq Slices(o)
    BY <1>3, OwnJobs DEF Login2FAPost, CompleteLogin, Slices, IndInv, BrowsersOK, JobsOK
  <2>2. QED BY <2>1 DEF IndInv, KeysAreApart
<1>4. ASSUME NEW b \in Browsers, Logout(b) PROVE KeysAreApart'
  <2>1. \A o \in Browsers : Slices(o)' \subseteq Slices(o)
    BY <1>4, OwnJobs DEF Logout, Slices, IndInv, BrowsersOK, JobsOK
  <2>2. QED BY <2>1 DEF IndInv, KeysAreApart
<1>5. ASSUME NEW b \in Browsers, Expires(b) PROVE KeysAreApart'
  <2>1. \A o \in Browsers : Slices(o)' \subseteq Slices(o)
    BY <1>5 DEF Expires, change, Slices, IndInv, BrowsersOK, JobsOK
  <2>2. QED BY <2>1 DEF IndInv, KeysAreApart
<1>6. ASSUME NEW b \in Browsers, Setup2FAGet(b) PROVE KeysAreApart'
  <2>1. \A o \in Browsers : Slices(o)' \subseteq Slices(o)
    BY <1>6 DEF Setup2FAGet, change, TwoFACreds, Slices, IndInv, BrowsersOK, JobsOK
  <2>2. QED BY <2>1 DEF IndInv, KeysAreApart
<1>7. ASSUME NEW b \in Browsers, Setup2FAPost(b) PROVE KeysAreApart'
  <2>1. \A o \in Browsers : Slices(o)' \subseteq Slices(o)
    BY <1>7, OwnJobs DEF Setup2FAPost, CompleteLogin, Slices, IndInv, BrowsersOK, JobsOK
  <2>2. QED BY <2>1 DEF IndInv, KeysAreApart
<1>8. CASE Delete2FA
  <2>1. \A o \in Browsers : Slices(o)' \subseteq Slices(o)
    BY <1>8 DEF Delete2FA, memory, change, Slices, IndInv, BrowsersOK, JobsOK
  <2>2. QED BY <2>1 DEF IndInv, KeysAreApart
<1>9. ASSUME NEW b \in Browsers, TokensPage(b) PROVE KeysAreApart'
  <2>1. \A o \in Browsers : Slices(o)' \subseteq Slices(o)
    BY <1>9 DEF TokensPage, change, Slices, IndInv, BrowsersOK, JobsOK
  <2>2. QED BY <2>1 DEF IndInv, KeysAreApart
<1>10. ASSUME NEW b \in Browsers, TokensDelete(b) PROVE KeysAreApart'
  <2>1. \A o \in Browsers : Slices(o)' \subseteq Slices(o)
    BY <1>10 DEF TokensDelete, memory, change, Slices, IndInv, BrowsersOK, JobsOK
  <2>2. QED BY <2>1 DEF IndInv, KeysAreApart
<1>11. ASSUME NEW b \in Browsers, NEW v \in Values, TokensSave(b, v) PROVE KeysAreApart'
  <2>1. \A o \in Browsers : Slices(o)' \subseteq Slices(o)
    BY <1>11 DEF TokensSave, change, Slices, IndInv, BrowsersOK, JobsOK
  <2>2. QED BY <2>1 DEF IndInv, KeysAreApart
<1>12. ASSUME NEW b \in Browsers, NEW p \in Passwords, PasswordStart(b, p) PROVE KeysAreApart'
  <2>1. NewRef \in Refs /\ NewRef \notin Reachable
    BY <1>12, ChoiceFacts DEF PasswordStart
  <2>2. /\ Slices(b)' \subseteq Slices(b) \cup {NewRef}
        /\ \A o \in Browsers : o # b => Slices(o)' = Slices(o)
    BY <1>12 DEF PasswordStart, Slices, IndInv, JobsOK
  <2>3. QED BY <2>1, <2>2, ReachableSlices DEF IndInv, KeysAreApart
<1>13. ASSUME NEW b \in Browsers, PasswordReadToken(b) PROVE KeysAreApart'
  <2>1. \A o \in Browsers : Slices(o)' \subseteq Slices(o)
    BY <1>13
      DEF PasswordReadToken, ThenStep, Step, memory, Jobs, Slices, IndInv, BrowsersOK, JobsOK
  <2>2. QED BY <2>1 DEF IndInv, KeysAreApart
<1>14. ASSUME NEW b \in Browsers, PasswordWriteToken(b) PROVE KeysAreApart'
  <2>1. \A o \in Browsers : Slices(o)' \subseteq Slices(o)
    BY <1>14 DEF PasswordWriteToken, ThenStep, Step, memory, Slices, IndInv, BrowsersOK, JobsOK
  <2>2. QED BY <2>1 DEF IndInv, KeysAreApart
<1>15. ASSUME NEW b \in Browsers, PasswordRead2FA(b) PROVE KeysAreApart'
  <2>1. \A o \in Browsers : Slices(o)' \subseteq Slices(o)
    BY <1>15 DEF PasswordRead2FA, ThenStep, Step, memory, Slices, IndInv, BrowsersOK, JobsOK
  <2>2. QED BY <2>1 DEF IndInv, KeysAreApart
<1>16. ASSUME NEW b \in Browsers, PasswordRewrap2FA(b) PROVE KeysAreApart'
  <2>1. \A o \in Browsers : Slices(o)' \subseteq Slices(o)
    BY <1>16 DEF PasswordRewrap2FA, ThenStep, Step, memory, Slices, IndInv, BrowsersOK, JobsOK
  <2>2. QED BY <2>1 DEF IndInv, KeysAreApart
<1>17. ASSUME NEW b \in Browsers, PasswordSession(b) PROVE KeysAreApart'
  <2>1. \A o \in Browsers : Slices(o)' \subseteq Slices(o)
    BY <1>17 DEF PasswordSession, ThenStep, Step, Slices, IndInv, BrowsersOK, JobsOK
  <2>2. QED BY <2>1 DEF IndInv, KeysAreApart
<1>18. ASSUME NEW b \in Browsers, PasswordUpdate(b) PROVE KeysAreApart'
  <2>1. \A o \in Browsers : Slices(o)' \subseteq Slices(o)
    BY <1>18 DEF PasswordUpdate, ThenStep, Step, NoJob, Slices, IndInv, BrowsersOK, JobsOK
  <2>2. QED BY <2>1 DEF IndInv, KeysAreApart
<1>19. ASSUME NEW p \in Passwords, AdminUsersEdit(p) PROVE KeysAreApart'
  <2>1. \A o \in Browsers : Slices(o)' \subseteq Slices(o)
    BY <1>19 DEF AdminUsersEdit, memory, change, Slices, IndInv, BrowsersOK, JobsOK
  <2>2. QED BY <2>1 DEF IndInv, KeysAreApart
<1>20. CASE Restart
  <2>1. \A o \in Browsers : Slices(o)' \subseteq Slices(o)
    BY <1>20 DEF Restart, NoJob, Slices, IndInv, BrowsersOK, JobsOK
  <2>2. QED BY <2>1 DEF IndInv, KeysAreApart
<1>21. CASE UNCHANGED vars
  BY <1>21 DEF vars, memory, change, IndInv, KeysAreApart, Slices
<1>22. ASSUME NEW b \in Browsers, Login2FABypass(b) PROVE KeysAreApart'
  <2>1. \A o \in Browsers : Slices(o)' \subseteq Slices(o)
    BY <1>22, OwnJobs DEF Login2FABypass, CompleteLogin, Slices, IndInv, BrowsersOK, JobsOK
  <2>2. QED BY <2>1 DEF IndInv, KeysAreApart
<1>23. ASSUME NEW b \in Browsers, LoginRead(b) PROVE KeysAreApart'
  BY <1>23 DEF LoginRead, memory, change, IndInv, KeysAreApart, Slices
<1>24. QED
  BY <1>1, <1>2, <1>3, <1>4, <1>5, <1>6, <1>7, <1>8, <1>9, <1>10, <1>11, <1>12, <1>13, <1>14,
     <1>15, <1>16, <1>17, <1>18, <1>19, <1>20, <1>21, <1>22, <1>23
    DEF Next, PasswordNext, TwoFADisablePost, AdminUsers2FAReset

\* The invariant holds of the first state.
LEMMA InitIndInv == Init => IndInv
<1> SUFFICES ASSUME Init PROVE IndInv
  OBVIOUS
<1>1. RowsOK
  <2>1. token \in Tokens \cup {None}
    BY DEF Init, Tokens
  <2>2. saved \in Values \cup {None}
    BY DEF Init
  <2>3. user \in Users
    BY DEF Init, Users
  <2>4. begun \in 0..MaxBegun
    BY BoundAssumption DEF Init
  <2>5. required \in BOOLEAN /\ bypass \in BOOLEAN /\ overlap \in BOOLEAN
    BY Zenon DEF Init
  <2>6. twofa \in Keys \cup {None}
    BY DEF Init
  <2>7. QED BY <2>1, <2>2, <2>3, <2>4, <2>5, <2>6 DEF RowsOK
<1>2. BrowsersOK /\ LoginsOK
  BY DEF Init, BrowsersOK, LoginsOK, NoFactor, Factors
<1>3. MemOK
  BY KeyFacts DEF Init, MemOK
<1>4. JobsOK
  BY NoJobFacts DEF Init, JobsOK
<1>5. TokenUnderChange
  BY DEF Init, TokenUnderChange
<1>6. TokenIsLastSaved
  BY NoneAssumption DEF Init, TokenIsLastSaved
<1>7. KeysAreApart
  BY DEF Init, KeysAreApart, Slices, NoJob
<1>8. SecondFactorIsPassed
  BY DEF Init, SecondFactorIsPassed, LoggedIn
<1>9. QED BY <1>1, <1>2, <1>3, <1>4, <1>5, <1>6, <1>7, <1>8 DEF IndInv

\* Every step preserves the invariant.
THEOREM AccountInvariance == Spec => []IndInv
<1>1. IndInv /\ [Next]_vars => IndInv'
  <2> SUFFICES ASSUME IndInv, [Next]_vars PROVE IndInv'
    OBVIOUS
  <2>1. RowsOK' /\ LoginsOK' /\ BrowsersOK' /\ JobsOK'
    BY RowsStep, LoginsStep, BrowsersStep, JobsStep
  <2>2. MemOK' /\ KeysAreApart'
    BY MemoryStep, ApartStep
  <2>3. (TokenUnderChange /\ TokenIsLastSaved)'
    BY TokenStep
  <2>4. SecondFactorIsPassed'
    BY FactorStep
  <2>5. QED BY <2>1, <2>2, <2>3, <2>4 DEF IndInv
<1>2. QED BY InitIndInv, <1>1, PTL DEF Spec

\* The rows, the sessions, the slices and the password changes keep their types, and a
\* browser carries something for a password change only while one is under way.
THEOREM AccountTypes == Spec => []TypeOK
<1>1. IndInv => TypeOK
  BY TypeParts DEF IndInv
<1>2. QED BY AccountInvariance, <1>1, PTL

\* A backend is started with the token that the user saved last, however often the
\* password was changed (PasswordHandler reads each token and writes it back under the
\* new key), unless the token was changed while one was being written back.
THEOREM AccountToken == Spec => []TokenIsLastSaved
<1>1. IndInv => TokenIsLastSaved
  BY DEF IndInv
<1>2. QED BY AccountInvariance, <1>1, PTL

\* The key a handler overwrites belongs to the browser that sent the request: the slices
\* that a login, its second factor, its session and its password changes pass on to one
\* another are never those of another browser.
THEOREM AccountKeysApart == Spec => []KeysAreApart
<1>1. IndInv => KeysAreApart
  BY DEF IndInv
<1>2. QED BY AccountInvariance, <1>1, PTL

\* While a second factor is required and the bypass is off, loginPost, autoLogin and the
\* handlers that complete a login send nobody a session without a verified code.
THEOREM AccountSecondFactor == Spec => []SecondFactorIsPassed
<1>1. IndInv => SecondFactorIsPassed
  BY DEF IndInv
<1>2. QED BY AccountInvariance, <1>1, PTL
=============================================================================
