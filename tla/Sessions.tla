------------------------------ MODULE Sessions ------------------------------
(***************************************************************************)
(* Developer accounts and their sessions.  A sign-up writes an             *)
(* organisation, its system accounts, a user and a refresh token in four   *)
(* statements without a transaction; a login adds a refresh token; clients *)
(* exchange refresh tokens for access tokens, and log out.  Access tokens  *)
(* are signed, not stored: they end when they expire.                      *)
(*                                                                         *)
(* A sign-up's name stands for the ids of its organisation and its user,   *)
(* a sign-up's or a login's for the session it starts.                     *)
(***************************************************************************)
EXTENDS Integers

CONSTANTS
    Signups,      \* sign-up requests
    Logins,       \* login requests
    Clients,      \* holders of refresh tokens, each one request after another
    Slugs,        \* slugs that names of organisations have
    Spellings,    \* e-mail addresses as they are typed
    Normal,       \* each spelling in lower case and trimmed
    FaultKinds,   \* subset of AllFaults that may happen
    MaxFaults     \* bound on the number of faults

Sessions == Signups \cup Logins

AllFaults == {"db",        \* a statement fails and changes nothing
              "commit",    \* it takes effect, and is reported as failed
              "crash"}     \* the process dies and is started again

ASSUME SessionsAssumption ==
    /\ Signups \cap Logins = {} /\ Sessions \cap Clients = {}
    /\ Normal \in [Spellings -> Spellings]
    /\ \A e \in Spellings : Normal[Normal[e]] = Normal[e]
    /\ FaultKinds \subseteq AllFaults /\ MaxFaults \in Nat

VARIABLES
    orgs, seeded, users,   \* rows: organisations, those with system accounts,
                           \* and users, each by the sign-up that made it
    slug, email,           \* columns of those rows
    token,                 \* the refresh token of each session
    user,                  \* the user of each session
    access,                \* sessions with an access token that is valid
    pc,                    \* control state of every request
    use,                   \* client: the session whose token it sends
    late,                  \* clients whose request began after the session had
                           \* been ended
    knew,                  \* history: logins begun after a sign-up with their
                           \* address was answered 201
    ended,                 \* history: sessions whose logout was answered 204,
                           \* its look-up not having failed
    struck,                \* sign-ups and logins that met a fault
    faults                 \* faults so far

accounts == <<orgs, seeded, users, slug, email>>
sessions == <<token, user, access>>
clients  == <<use, late, ended>>
vars     == <<accounts, sessions, clients, pc, knew, struck, faults>>

None == "none"

TokenStates   == {None, "live", "revoked", "expired"}
SignupStates  == {"new", "seed", "user", "issue", "ok", "taken", "error"}
LoginStates   == {"new", "org", "issue", "ok", "mismatch", "refused", "error"}
ClientStates  == {"idle",      \* no request, or one answered 401, 204 or 500
                  "user", "revoke", "granted"}
InFlight      == {"seed", "user", "org", "issue"}

Init ==
    /\ orgs = {} /\ seeded = {} /\ users = {} /\ access = {}
    /\ slug = [s \in Signups |-> None] /\ email = [s \in Signups |-> None]
    /\ token = [s \in Sessions |-> None] /\ user = [s \in Sessions |-> None]
    /\ pc = [c \in Sessions \cup Clients |-> IF c \in Clients THEN "idle" ELSE "new"]
    /\ use = [c \in Clients |-> None] /\ late = {}
    /\ knew = {} /\ ended = {} /\ struck = {} /\ faults = 0

Fault(f) == f \in FaultKinds /\ faults < MaxFaults /\ faults' = faults + 1
Strike(f, s) == Fault(f) /\ struck' = struck \cup {s}
NoFault == UNCHANGED <<faults, struck>>

Goto(c, s) == pc' = [pc EXCEPT ![c] = s]

\* The answer to a statement that has changed the rows: it may be lost.
Done(s, next) == (Goto(s, next) /\ NoFault) \/ (Goto(s, "error") /\ Strike("commit", s))

-----------------------------------------------------------------------------
(* Signup.                                                                 *)

\* The slug is unique, and that is an error as any other.
CreateOrg(s) ==
    /\ pc[s] = "new"
    /\ \E n \in Slugs, e \in Spellings :
         \/ /\ \A o \in orgs : slug[o] # n
            /\ orgs' = orgs \cup {s} /\ slug' = [slug EXCEPT ![s] = n]
            /\ email' = [email EXCEPT ![s] = Normal[e]]
            /\ Done(s, "seed")
         \/ /\ \E o \in orgs : slug[o] = n
            /\ Goto(s, "error") /\ NoFault /\ UNCHANGED <<orgs, slug, email>>
         \/ Goto(s, "error") /\ Strike("db", s) /\ UNCHANGED <<orgs, slug, email>>
    /\ UNCHANGED <<seeded, users, sessions, clients, knew>>

\* As Seed, going on whatever it returns.
Seed_Ignored(s) ==
    /\ pc[s] = "seed"
    /\ \/ seeded' = seeded \cup {s} /\ Done(s, "user")
       \/ Goto(s, "user") /\ Strike("db", s) /\ UNCHANGED seeded
    /\ UNCHANGED <<orgs, users, slug, email, sessions, clients, knew>>

\* SeedSystemAccounts: the four accounts in one statement.
Seed(s) ==
    /\ pc[s] = "seed"
    /\ \/ seeded' = seeded \cup {s} /\ Done(s, "user")
       \/ Goto(s, "error") /\ Strike("db", s) /\ UNCHANGED seeded
    /\ UNCHANGED <<orgs, users, slug, email, sessions, clients, knew>>

\* As CreateUser, not telling a taken address from another failure.
CreateUser_Plain(s) ==
    /\ pc[s] = "user"
    /\ \/ /\ \A u \in users : email[u] # email[s]
          /\ users' = users \cup {s} /\ user' = [user EXCEPT ![s] = s]
          /\ Done(s, "issue")
       \/ /\ \E u \in users : email[u] = email[s]
          /\ Goto(s, "error") /\ NoFault /\ UNCHANGED <<users, user>>
       \/ Goto(s, "error") /\ Strike("db", s) /\ UNCHANGED <<users, user>>
    /\ UNCHANGED <<orgs, seeded, slug, email, token, access, clients, knew>>

\* The address is unique; the organisation stays when it is taken.
CreateUser(s) ==
    /\ pc[s] = "user"
    /\ \/ /\ \A u \in users : email[u] # email[s]
          /\ users' = users \cup {s} /\ user' = [user EXCEPT ![s] = s]
          /\ Done(s, "issue")
       \/ /\ \E u \in users : email[u] = email[s]
          /\ Goto(s, "taken") /\ NoFault /\ UNCHANGED <<users, user>>
       \/ Goto(s, "error") /\ Strike("db", s) /\ UNCHANGED <<users, user>>
    /\ UNCHANGED <<orgs, seeded, slug, email, token, access, clients, knew>>

\* The tokens of a sign-up or a login; they are answered when the refresh
\* token is known to be stored.
IssueTokenPair(s) ==
    /\ pc[s] = "issue"
    /\ \/ /\ token' = [token EXCEPT ![s] = "live"]
          /\ \/ Goto(s, "ok") /\ NoFault /\ access' = access \cup {s}
             \/ Goto(s, "error") /\ Strike("commit", s) /\ UNCHANGED access
       \/ Goto(s, "error") /\ Strike("db", s) /\ UNCHANGED <<token, access>>
    /\ UNCHANGED <<accounts, user, clients, knew>>

-----------------------------------------------------------------------------
(* Login.                                                                  *)

Known(e) == {u \in users : email[u] = e}

\* As GetUserByEmail, with the address as it is typed.
GetUserByEmail_Typed(l) ==
    /\ pc[l] = "new"
    /\ \E e \in Spellings :
         /\ knew' = IF \E s \in Signups : pc[s] = "ok" /\ email[s] = Normal[e]
                      THEN knew \cup {l} ELSE knew
         /\ \/ \E u \in Known(e), next \in {"org", "mismatch"} :
                 user' = [user EXCEPT ![l] = u] /\ Goto(l, next) /\ NoFault
            \/ Known(e) = {} /\ Goto(l, "refused") /\ NoFault /\ UNCHANGED user
            \/ Goto(l, "refused") /\ Strike("db", l) /\ UNCHANGED user
    /\ UNCHANGED <<accounts, token, access, clients>>

\* The user, and whether the password is theirs.  A failed look-up is answered
\* as wrong credentials.
GetUserByEmail(l) ==
    /\ pc[l] = "new"
    /\ \E e \in Spellings :
         /\ knew' = IF \E s \in Signups : pc[s] = "ok" /\ email[s] = Normal[e]
                      THEN knew \cup {l} ELSE knew
         /\ \/ \E u \in Known(Normal[e]), next \in {"org", "mismatch"} :
                 user' = [user EXCEPT ![l] = u] /\ Goto(l, next) /\ NoFault
            \/ Known(Normal[e]) = {} /\ Goto(l, "refused") /\ NoFault /\ UNCHANGED user
            \/ Goto(l, "refused") /\ Strike("db", l) /\ UNCHANGED user
    /\ UNCHANGED <<accounts, token, access, clients>>

GetOrgByID(l) ==
    /\ pc[l] = "org"
    /\ \/ user[l] \in orgs /\ Goto(l, "issue") /\ NoFault
       \/ user[l] \notin orgs /\ Goto(l, "error") /\ NoFault
       \/ Goto(l, "error") /\ Strike("db", l)
    /\ UNCHANGED <<accounts, sessions, clients, knew>>

-----------------------------------------------------------------------------
(* Refresh and Logout.                                                     *)

\* As GetRefreshTokenByHash, revoked tokens too.
GetRefreshTokenByHash_Revoked(t) == token[t] \in {"live", "revoked"}

GetRefreshTokenByHash(t) == token[t] = "live"

\* A client sends a token it was given.
Send(c, t) ==
    /\ pc[c] \in {"idle", "granted"} /\ pc[t] = "ok"
    /\ use' = [use EXCEPT ![c] = t]
    /\ late' = IF t \in ended THEN late \cup {c} ELSE late \ {c}
    /\ UNCHANGED <<accounts, sessions, knew, struck>>

\* Whatever is wrong, the answer is 401.
RefreshAccess(c, t) ==
    /\ Send(c, t)
    /\ \/ GetRefreshTokenByHash(t) /\ Goto(c, "user") /\ UNCHANGED faults
       \/ ~GetRefreshTokenByHash(t) /\ Goto(c, "idle") /\ UNCHANGED faults
       \/ Goto(c, "idle") /\ Fault("db")
    /\ UNCHANGED ended

\* The user is read, and an access token signed.
GetUserByID(c) ==
    /\ pc[c] = "user"
    /\ \/ /\ user[use[c]] \in users
          /\ access' = access \cup {use[c]} /\ Goto(c, "granted") /\ UNCHANGED faults
       \/ user[use[c]] \notin users /\ Goto(c, "idle") /\ UNCHANGED <<faults, access>>
       \/ Goto(c, "idle") /\ Fault("db") /\ UNCHANGED access
    /\ UNCHANGED <<accounts, token, user, clients, knew, struck>>

\* Whatever is wrong with the look-up, the answer is 204.
Logout(c, t) ==
    /\ Send(c, t)
    /\ \/ GetRefreshTokenByHash(t) /\ Goto(c, "revoke") /\ UNCHANGED <<ended, faults>>
       \/ /\ ~GetRefreshTokenByHash(t) /\ ended' = ended \cup {t}
          /\ Goto(c, "idle") /\ UNCHANGED faults
       \/ Goto(c, "idle") /\ Fault("db") /\ UNCHANGED ended

RevokeRefreshToken(c) ==
    /\ pc[c] = "revoke" /\ Goto(c, "idle")
    /\ \/ /\ token' = [token EXCEPT ![use[c]] = "revoked"]
          /\ \/ ended' = ended \cup {use[c]} /\ UNCHANGED faults
             \/ Fault("commit") /\ UNCHANGED ended
       \/ Fault("db") /\ UNCHANGED <<token, ended>>
    /\ UNCHANGED <<accounts, user, access, use, late, knew, struck>>

-----------------------------------------------------------------------------
\* 15 minutes, and 30 days, pass.
ExpireAccess(t) ==
    /\ t \in access /\ access' = access \ {t}
    /\ UNCHANGED <<accounts, token, user, clients, pc, knew, struck, faults>>

ExpireToken(t) ==
    /\ token[t] = "live" /\ token' = [token EXCEPT ![t] = "expired"]
    /\ UNCHANGED <<accounts, user, access, clients, pc, knew, struck, faults>>

\* The requests in progress are lost.
Crash ==
    /\ Fault("crash")
    /\ struck' = struck \cup {s \in Sessions : pc[s] \in InFlight}
    /\ pc' = [c \in Sessions \cup Clients |->
                IF c \in Clients THEN "idle"
                ELSE IF pc[c] \in InFlight THEN "error" ELSE pc[c]]
    /\ UNCHANGED <<accounts, sessions, clients, knew>>

Continue(c) == GetUserByID(c) \/ RevokeRefreshToken(c)

Next ==
    \/ \E s \in Signups : CreateOrg(s) \/ Seed(s) \/ CreateUser(s)
    \/ \E l \in Logins : GetUserByEmail(l) \/ GetOrgByID(l)
    \/ \E s \in Sessions : IssueTokenPair(s) \/ ExpireAccess(s) \/ ExpireToken(s)
    \/ \E c \in Clients :
         Continue(c) \/ \E t \in Sessions : RefreshAccess(c, t) \/ Logout(c, t)
    \/ Crash

Spec == Init /\ [][Next]_vars

\* Time passes, and a request that has begun goes on.
FairSpec == /\ Spec
            /\ \A t \in Sessions : WF_vars(ExpireAccess(t))
            /\ \A c \in Clients : WF_vars(Continue(c))

-----------------------------------------------------------------------------
(* Properties.                                                             *)

\* Types, and no token of either kind is out before its session is stored.
TypeOK ==
    /\ orgs \subseteq Signups /\ seeded \subseteq Signups /\ users \subseteq Signups
    /\ DOMAIN slug = Signups /\ DOMAIN email = Signups
    /\ token \in [Sessions -> TokenStates] /\ DOMAIN user = Sessions
    /\ DOMAIN pc = Sessions \cup Clients
    /\ \A s \in Signups : pc[s] \in SignupStates
    /\ \A l \in Logins : pc[l] \in LoginStates
    /\ \A c \in Clients : pc[c] \in ClientStates
    /\ DOMAIN use = Clients /\ late \subseteq Clients
    /\ \A c \in Clients : pc[c] # "idle" => use[c] \in Sessions /\ pc[use[c]] = "ok"
    /\ \A t \in Sessions : pc[t] = "ok" => token[t] # None
    /\ access \cup ended \subseteq {t \in Sessions : token[t] # None}
    /\ knew \subseteq Logins /\ struck \subseteq Sessions
    /\ faults \in 0 .. MaxFaults

\* A sign-up that stops half-way never leaves a user whose organisation or
\* whose system accounts are missing - one who could log in and whose credits
\* would then fail - and every session is such a user's.
AccountWhole ==
    /\ users \subseteq seeded /\ seeded \subseteq orgs
    /\ \A s \in Sessions : token[s] # None => user[s] \in users

\* An organisation nobody owns, its slug lost, is left by a fault during its
\* sign-up, or by an address that was taken, and by nothing else.
OrphanNeedsCause ==
    \A o \in orgs \ users : pc[o] \in InFlight \/ pc[o] = "taken" \/ o \in struck

\* Once a sign-up was answered 201, a login with its address, however it is
\* typed, and its password is not turned away, unless it meets a fault.
OwnerLogsIn == \A l \in knew : pc[l] \in {"refused", "error"} => l \in struck

\* "Revokes the given refresh token, ending that session": a refresh that began
\* after a logout was answered gets no access token - unless the logout's
\* look-up failed, which is answered as if the token had not been found.
LoggedOutIsDead == \A c \in late : pc[c] # "granted"

\* A revoked session ends: the access tokens it has got, and those of refreshes
\* that had looked it up before, run out, and there are no more.
SessionEnds ==
    \A t \in Sessions : [](token[t] = "revoked" => <>[](t \notin access))
=============================================================================
