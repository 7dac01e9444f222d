--------------------------- MODULE SessionsProofs ---------------------------
(* Theorems about Sessions for every value of its constants.               *)
EXTENDS Sessions, TLAPS

LEMMA Kinds ==
    /\ Signups \cap Logins = {} /\ Sessions \cap Clients = {}
    /\ Signups \subseteq Sessions /\ Logins \subseteq Sessions /\ MaxFaults \in Nat
BY SessionsAssumption DEF Sessions

LEMMA FaultCounts ==
    ASSUME faults \in 0 .. MaxFaults, NEW f, UNCHANGED faults \/ Fault(f)
    PROVE  faults' \in 0 .. MaxFaults
BY Kinds DEF Fault

\* One request goes on, and the others stay where they are.
LEMMA Moves ==
    ASSUME DOMAIN pc = Sessions \cup Clients,
           NEW x \in Sessions \cup Clients, NEW s, Goto(x, s)
    PROVE  /\ DOMAIN pc' = Sessions \cup Clients /\ pc'[x] = s
           /\ \A y \in Sessions \cup Clients : y # x => pc'[y] = pc[y]
BY DEF Goto

\* What each statement of a sign-up or a login does to the control state and
\* to the record of faults.
LEMMA DoneEffect ==
    ASSUME NEW s \in Sessions, NEW next, Done(s, next)
    PROVE  \/ Goto(s, next) /\ NoFault
           \/ Goto(s, "error") /\ Strike("commit", s)
BY DEF Done

LEMMA StrikeEffect ==
    ASSUME TypeOK, NEW s \in Sessions, NEW f, NoFault \/ Strike(f, s)
    PROVE  /\ faults' \in 0 .. MaxFaults /\ struck' \subseteq Sessions
           /\ struck \subseteq struck'
           /\ Strike(f, s) => s \in struck'
BY FaultCounts DEF Strike, NoFault, TypeOK

\* The parts of the type invariant that concern the control state.
Control ==
    /\ DOMAIN pc = Sessions \cup Clients
    /\ \A s \in Signups : pc[s] \in SignupStates
    /\ \A l \in Logins : pc[l] \in LoginStates
    /\ \A c \in Clients : pc[c] \in ClientStates
    /\ \A c \in Clients : pc[c] # "idle" => use[c] \in Sessions /\ pc[use[c]] = "ok"

LEMMA SignupMoves ==
    ASSUME Control, NEW s \in Signups, pc[s] # "ok", NEW next \in SignupStates,
           Goto(s, next), UNCHANGED use
    PROVE  Control'
BY Moves, Kinds DEF Control

LEMMA LoginMoves ==
    ASSUME Control, NEW l \in Logins, pc[l] # "ok", NEW next \in LoginStates,
           Goto(l, next), UNCHANGED use
    PROVE  Control'
BY Moves, Kinds DEF Control

LEMMA ClientMoves ==
    ASSUME Control, NEW c \in Clients, NEW next \in ClientStates, Goto(c, next),
           \A d \in Clients : d # c => use'[d] = use[d],
           next # "idle" => use'[c] \in Sessions /\ pc[use'[c]] = "ok"
    PROVE  Control'
<1>1. /\ DOMAIN pc' = Sessions \cup Clients /\ pc'[c] = next
      /\ \A y \in Sessions \cup Clients : y # c => pc'[y] = pc[y]
  BY Moves DEF Control
<1>2. \A t \in Sessions : pc'[t] = pc[t]
  BY <1>1, Kinds
<1>3. \A d \in Clients : pc'[d] # "idle" => use'[d] \in Sessions /\ pc'[use'[d]] = "ok"
  BY <1>1, <1>2 DEF Control
<1> QED
  BY <1>1, <1>2, <1>3, Kinds DEF Control

\* The type invariant holds in every reachable state.
THEOREM TypeCorrect == Spec => []TypeOK
<1> USE Kinds
<1>0. TypeOK => Control
  BY DEF TypeOK, Control
<1>1. Init => TypeOK
  <2> SUFFICES ASSUME Init PROVE TypeOK
    OBVIOUS
  <2>1. /\ \A s \in Sessions : pc[s] = "new"
        /\ \A c \in Clients : pc[c] = "idle"
        /\ DOMAIN pc = Sessions \cup Clients
    BY DEF Init
  <2>2. token \in [Sessions -> TokenStates]
    BY DEF Init, TokenStates
  <2> QED
    BY <2>1, <2>2 DEF Init, TypeOK, SignupStates, LoginStates, ClientStates
<1>2. TypeOK /\ [Next]_vars => TypeOK'
  <2> SUFFICES ASSUME TypeOK, [Next]_vars PROVE TypeOK'
    OBVIOUS
  <2> USE <1>0
  <2>1. ASSUME NEW s \in Signups, CreateOrg(s) PROVE TypeOK'
    <3>1. /\ \E next \in SignupStates : Goto(s, next) /\ next # "ok"
          /\ \E f \in AllFaults : NoFault \/ Strike(f, s)
          /\ pc[s] # "ok"
      BY <2>1 DEF CreateOrg, Done, SignupStates, AllFaults
    <3>2. Control'
      BY <2>1, <3>1, SignupMoves DEF CreateOrg, clients
    <3>3. /\ orgs' \subseteq Signups /\ DOMAIN slug' = Signups /\ DOMAIN email' = Signups
          /\ UNCHANGED <<seeded, users, sessions, clients, knew>>
      BY <2>1 DEF CreateOrg, TypeOK
    <3>4. \A t \in Sessions : pc'[t] = "ok" => pc[t] = "ok"
      BY <3>1, Moves DEF TypeOK
    <3> QED
      BY <3>1, <3>2, <3>3, <3>4, StrikeEffect DEF TypeOK, Control, sessions, clients
  <2>2. ASSUME NEW s \in Signups, Seed(s) PROVE TypeOK'
    <3>1. /\ \E next \in SignupStates : Goto(s, next) /\ next # "ok"
          /\ \E f \in AllFaults : NoFault \/ Strike(f, s)
          /\ pc[s] # "ok"
      BY <2>2 DEF Seed, Done, SignupStates, AllFaults
    <3>2. Control'
      BY <2>2, <3>1, SignupMoves DEF Seed, clients
    <3>3. seeded' \subseteq Signups /\ UNCHANGED <<orgs, users, slug, email, sessions, clients, knew>>
      BY <2>2 DEF Seed, TypeOK
    <3>4. \A t \in Sessions : pc'[t] = "ok" => pc[t] = "ok"
      BY <3>1, Moves DEF TypeOK
    <3> QED
      BY <3>1, <3>2, <3>3, <3>4, StrikeEffect DEF TypeOK, Control, sessions, clients
  <2>3. ASSUME NEW s \in Signups, CreateUser(s) PROVE TypeOK'
    <3>1. /\ \E next \in SignupStates : Goto(s, next) /\ next # "ok"
          /\ \E f \in AllFaults : NoFault \/ Strike(f, s)
          /\ pc[s] # "ok"
      BY <2>3 DEF CreateUser, Done, SignupStates, AllFaults
    <3>2. Control'
      BY <2>3, <3>1, SignupMoves DEF CreateUser, clients
    <3>3. /\ users' \subseteq Signups /\ DOMAIN user' = Sessions
          /\ UNCHANGED <<orgs, seeded, slug, email, token, access, clients, knew>>
      BY <2>3 DEF CreateUser, TypeOK
    <3>4. \A t \in Sessions : pc'[t] = "ok" => pc[t] = "ok"
      BY <3>1, Moves DEF TypeOK
    <3> QED
      BY <3>1, <3>2, <3>3, <3>4, StrikeEffect DEF TypeOK, Control, clients
  <2>4. ASSUME NEW l \in Logins, GetUserByEmail(l) PROVE TypeOK'
    <3>1. /\ \E next \in LoginStates : Goto(l, next) /\ next # "ok"
          /\ \E f \in AllFaults : NoFault \/ Strike(f, l)
          /\ pc[l] # "ok"
      BY <2>4 DEF GetUserByEmail, LoginStates, AllFaults
    <3>2. Control'
      BY <2>4, <3>1, LoginMoves DEF GetUserByEmail, clients
    <3>3. /\ DOMAIN user' = Sessions /\ knew' \subseteq Logins
          /\ UNCHANGED <<accounts, token, access, clients>>
      BY <2>4 DEF GetUserByEmail, TypeOK
    <3>4. \A t \in Sessions : pc'[t] = "ok" => pc[t] = "ok"
      BY <3>1, Moves DEF TypeOK
    <3> QED
      BY <3>1, <3>2, <3>3, <3>4, StrikeEffect DEF TypeOK, Control, accounts, clients
  <2>5. ASSUME NEW l \in Logins, GetOrgByID(l) PROVE TypeOK'
    <3>1. /\ \E next \in LoginStates : Goto(l, next) /\ next # "ok"
          /\ \E f \in AllFaults : NoFault \/ Strike(f, l)
          /\ pc[l] # "ok"
      BY <2>5 DEF GetOrgByID, LoginStates, AllFaults
    <3>2. Control'
      BY <2>5, <3>1, LoginMoves DEF GetOrgByID, clients
    <3>3. UNCHANGED <<accounts, sessions, clients, knew>>
      BY <2>5 DEF GetOrgByID
    <3>4. \A t \in Sessions : pc'[t] = "ok" => pc[t] = "ok"
      BY <3>1, Moves DEF TypeOK
    <3> QED
      BY <3>1, <3>2, <3>3, <3>4, StrikeEffect DEF TypeOK, Control, accounts, sessions, clients
  <2>6. ASSUME NEW s \in Sessions, IssueTokenPair(s) PROVE TypeOK'
    <3>1. /\ \E next \in {"ok", "error"} : Goto(s, next)
          /\ \E f \in AllFaults : NoFault \/ Strike(f, s)
          /\ pc[s] # "ok"
      BY <2>6 DEF IssueTokenPair, AllFaults
    <3>2. Control'
      BY <2>6, <3>1, SignupMoves, LoginMoves
         DEF IssueTokenPair, clients, Sessions, SignupStates, LoginStates
    <3>3. UNCHANGED <<accounts, user, clients, knew>>
      BY <2>6 DEF IssueTokenPair
    <3>4. /\ token' \in [Sessions -> TokenStates]
          /\ \A t \in Sessions : token[t] # None => token'[t] # None
          /\ access' \subseteq {t \in Sessions : token'[t] # None}
          /\ Goto(s, "ok") => token'[s] # None
      BY <2>6 DEF IssueTokenPair, TypeOK, TokenStates, None, Goto
    <3>5. \A t \in Sessions : pc'[t] = "ok" => token'[t] # None
      BY <3>1, <3>4, Moves DEF TypeOK
    <3> QED
      BY <3>1, <3>2, <3>3, <3>4, <3>5, StrikeEffect DEF TypeOK, Control, accounts, clients
  <2>7. ASSUME NEW t \in Sessions, ExpireAccess(t) PROVE TypeOK'
    BY <2>7 DEF ExpireAccess, TypeOK, accounts, clients
  <2>8. ASSUME NEW t \in Sessions, ExpireToken(t) PROVE TypeOK'
    <3>1. /\ token' \in [Sessions -> TokenStates]
          /\ \A u \in Sessions : token[u] # None => token'[u] # None
      BY <2>8 DEF ExpireToken, TypeOK, TokenStates, None
    <3> QED
      BY <2>8, <3>1 DEF ExpireToken, TypeOK, accounts, clients
  <2>9. ASSUME NEW c \in Clients, GetUserByID(c) PROVE TypeOK'
    <3>1. /\ \E next \in {"granted", "idle"} : Goto(c, next)
          /\ UNCHANGED faults \/ Fault("db")
      BY <2>9 DEF GetUserByID
    <3>2. use[c] \in Sessions /\ token[use[c]] # None /\ pc[use[c]] = "ok"
      BY <2>9 DEF GetUserByID, TypeOK
    <3>3. Control'
      BY <2>9, <3>1, <3>2, ClientMoves DEF GetUserByID, clients, ClientStates
    <3>4. /\ access' \subseteq {t \in Sessions : token[t] # None}
          /\ UNCHANGED <<accounts, token, user, clients, knew, struck>>
      BY <2>9, <3>2 DEF GetUserByID, TypeOK
    <3>5. \A t \in Sessions : pc'[t] = pc[t]
      BY <3>1, Moves DEF TypeOK
    <3> QED
      BY <3>1, <3>3, <3>4, <3>5, FaultCounts DEF TypeOK, Control, accounts, clients
  <2>10. ASSUME NEW c \in Clients, RevokeRefreshToken(c) PROVE TypeOK'
    <3>1. Goto(c, "idle") /\ (UNCHANGED faults \/ Fault("commit") \/ Fault("db"))
      BY <2>10 DEF RevokeRefreshToken
    <3>2. use[c] \in Sessions /\ token[use[c]] # None
      BY <2>10 DEF RevokeRefreshToken, TypeOK
    <3>3. Control'
      BY <2>10, <3>1, ClientMoves DEF RevokeRefreshToken, ClientStates
    <3>4. /\ token' \in [Sessions -> TokenStates]
          /\ \A u \in Sessions : token[u] # None => token'[u] # None
      BY <2>10 DEF RevokeRefreshToken, TypeOK, TokenStates, None
    <3>5. ended' \subseteq {t \in Sessions : token'[t] # None}
      BY <2>10, <3>2, <3>4 DEF RevokeRefreshToken, TypeOK
    <3>6. \A t \in Sessions : pc'[t] = pc[t]
      BY <3>1, Moves DEF TypeOK
    <3> QED
      BY <2>10, <3>1, <3>3, <3>4, <3>5, <3>6, FaultCounts
         DEF RevokeRefreshToken, TypeOK, Control, accounts
  <2>11. ASSUME NEW c \in Clients, NEW t \in Sessions, RefreshAccess(c, t) PROVE TypeOK'
    <3>1. /\ \E next \in {"user", "idle"} : Goto(c, next)
          /\ UNCHANGED faults \/ Fault("db")
      BY <2>11 DEF RefreshAccess
    <3>2. /\ pc[t] = "ok" /\ use' = [use EXCEPT ![c] = t] /\ late' \subseteq Clients
          /\ UNCHANGED <<accounts, sessions, knew, struck, ended>>
      BY <2>11 DEF RefreshAccess, Send, TypeOK
    <3>3. Control'
      BY <3>1, <3>2, ClientMoves DEF ClientStates, TypeOK
    <3>4. \A u \in Sessions : pc'[u] = pc[u]
      BY <3>1, Moves DEF TypeOK
    <3> QED
      BY <3>1, <3>2, <3>3, <3>4, FaultCounts DEF TypeOK, Control, accounts, sessions
  <2>12. ASSUME NEW c \in Clients, NEW t \in Sessions, Logout(c, t) PROVE TypeOK'
    <3>1. /\ \E next \in {"revoke", "idle"} : Goto(c, next)
          /\ UNCHANGED faults \/ Fault("db")
      BY <2>12 DEF Logout
    <3>2. /\ pc[t] = "ok" /\ use' = [use EXCEPT ![c] = t] /\ late' \subseteq Clients
          /\ UNCHANGED <<accounts, sessions, knew, struck>>
          /\ ended' \subseteq ended \cup {t}
      BY <2>12 DEF Logout, Send, TypeOK
    <3>3. Control'
      BY <3>1, <3>2, ClientMoves DEF ClientStates, TypeOK
    <3>4. \A u \in Sessions : pc'[u] = pc[u]
      BY <3>1, Moves DEF TypeOK
    <3> QED
      BY <3>1, <3>2, <3>3, <3>4, FaultCounts DEF TypeOK, Control, accounts, sessions
  <2>13. CASE Crash
    <3>1. /\ DOMAIN pc' = Sessions \cup Clients
          /\ \A c \in Clients : pc'[c] = "idle"
          /\ \A t \in Sessions : pc'[t] = pc[t] \/ pc'[t] = "error"
      BY <2>13 DEF Crash
    <3>2. Control'
      BY <3>1 DEF TypeOK, Control, SignupStates, LoginStates, ClientStates
    <3> QED
      BY <2>13, <3>1, <3>2, FaultCounts DEF Crash, TypeOK, Control, accounts, sessions, clients
  <2>14. CASE UNCHANGED vars
    BY <2>14 DEF vars, TypeOK, accounts, sessions, clients
  <2> QED
    BY <2>1, <2>2, <2>3, <2>4, <2>5, <2>6, <2>7, <2>8, <2>9, <2>10, <2>11, <2>12, <2>13, <2>14
       DEF Next, Continue
<1> QED
  BY <1>1, <1>2, PTL DEF Spec

-----------------------------------------------------------------------------
\* What the steps of clients, and expiry, leave alone.
ClientStep ==
    \/ \E t \in Sessions : ExpireAccess(t) \/ ExpireToken(t)
    \/ \E c \in Clients :
         Continue(c) \/ \E t \in Sessions : RefreshAccess(c, t) \/ Logout(c, t)

LEMMA ClientFrame ==
    ASSUME TypeOK, ClientStep
    PROVE  /\ UNCHANGED <<accounts, user, knew, struck>>
           /\ \A t \in Sessions : pc'[t] = pc[t]
           /\ \A t \in Sessions : token'[t] # None => token[t] # None
           /\ \A t \in Sessions : token[t] # "live" => token'[t] # "live"
<1> USE Kinds
<1>1. ASSUME NEW t \in Sessions, ExpireAccess(t) \/ ExpireToken(t)
      PROVE  /\ UNCHANGED <<accounts, user, knew, struck, pc>>
             /\ \A u \in Sessions : token'[u] # None => token[u] # None
             /\ \A u \in Sessions : token[u] # "live" => token'[u] # "live"
  BY <1>1 DEF ExpireAccess, ExpireToken, TypeOK, None
<1>2. ASSUME NEW c \in Clients, Continue(c)
      PROVE  /\ UNCHANGED <<accounts, user, knew, struck>>
             /\ \E s : Goto(c, s)
             /\ \A u \in Sessions : token'[u] # None => token[u] # None
             /\ \A u \in Sessions : token[u] # "live" => token'[u] # "live"
  <2>1. CASE GetUserByID(c)
    BY <2>1 DEF GetUserByID
  <2>2. CASE RevokeRefreshToken(c)
    <3>1. use[c] \in Sessions /\ token[use[c]] # None
      BY <2>2 DEF RevokeRefreshToken, TypeOK
    <3> QED
      BY <2>2, <3>1 DEF RevokeRefreshToken, TypeOK
  <2> QED
    BY <1>2, <2>1, <2>2 DEF Continue
<1>3. ASSUME NEW c \in Clients, NEW t \in Sessions, RefreshAccess(c, t) \/ Logout(c, t)
      PROVE  UNCHANGED <<accounts, sessions, knew, struck>> /\ \E s : Goto(c, s)
  BY <1>3 DEF RefreshAccess, Logout, Send
<1>4. ASSUME NEW c \in Clients, NEW s, Goto(c, s)
      PROVE  \A t \in Sessions : pc'[t] = pc[t]
  BY <1>4, Moves DEF TypeOK
<1> QED
  BY <1>1, <1>2, <1>3, <1>4 DEF ClientStep, sessions

\* How far a sign-up has come is what rows it has written.
Rows ==
    /\ users \subseteq seeded /\ seeded \subseteq orgs
    /\ \A s \in Signups :
         /\ pc[s] = "new" => s \notin orgs
         /\ pc[s] = "seed" => s \in orgs
         /\ pc[s] = "user" => s \in seeded
         /\ pc[s] \in {"issue", "ok"} => s \in users
    /\ OrphanNeedsCause

LEMMA RowsHold == Spec => []Rows
<1> USE Kinds
<1>1. Init => Rows
  <2> SUFFICES ASSUME Init PROVE Rows
    OBVIOUS
  <2>1. \A s \in Signups : pc[s] = "new"
    BY DEF Init
  <2> QED
    BY <2>1 DEF Init, Rows, OrphanNeedsCause
<1>2. TypeOK /\ Rows /\ [Next]_vars => Rows'
  <2> SUFFICES ASSUME TypeOK, Rows, [Next]_vars PROVE Rows'
    OBVIOUS
  <2>0. ASSUME NEW x \in Sessions, NEW s, Goto(x, s)
        PROVE  pc'[x] = s /\ \A t \in Signups : t # x => pc'[t] = pc[t]
    BY <2>0, Moves DEF TypeOK
  <2>1. ASSUME NEW s \in Signups, CreateOrg(s) PROVE Rows'
    <3>1. /\ \E next \in {"seed", "error"} :
               /\ Goto(s, next) /\ struck \subseteq struck'
               /\ \/ orgs' = orgs \cup {s} /\ (next = "error" => s \in struck')
                  \/ next = "error" /\ UNCHANGED orgs
          /\ UNCHANGED <<seeded, users>> /\ pc[s] = "new"
      BY <2>1 DEF CreateOrg, Done, NoFault, Strike
    <3> QED
      BY <2>0, <3>1 DEF Rows, OrphanNeedsCause, InFlight, TypeOK
  <2>2. ASSUME NEW s \in Signups, Seed(s) PROVE Rows'
    <3>1. /\ \E next \in {"user", "error"} :
               /\ Goto(s, next) /\ struck \subseteq struck'
               /\ next = "error" => s \in struck'
               /\ seeded' = seeded \cup {s} \/ (next = "error" /\ UNCHANGED seeded)
          /\ UNCHANGED <<orgs, users>> /\ pc[s] = "seed"
      <4>1. CASE seeded' = seeded \cup {s} /\ Done(s, "user")
        BY <2>2, <4>1 DEF Seed, Done, NoFault, Strike
      <4>2. CASE Goto(s, "error") /\ Strike("db", s) /\ UNCHANGED seeded
        BY <2>2, <4>2 DEF Seed, Strike
      <4> QED
        BY <2>2, <4>1, <4>2 DEF Seed
    <3> QED
      BY <2>0, <3>1 DEF Rows, OrphanNeedsCause, InFlight, TypeOK
  <2>3. ASSUME NEW s \in Signups, CreateUser(s) PROVE Rows'
    <3>1. /\ \E next \in {"issue", "taken", "error"} :
               /\ Goto(s, next) /\ struck \subseteq struck'
               /\ next = "error" => s \in struck'
               /\ users' = users \cup {s} \/ (next # "issue" /\ UNCHANGED users)
          /\ UNCHANGED <<orgs, seeded>> /\ pc[s] = "user"
      <4>1. CASE users' = users \cup {s} /\ Done(s, "issue")
        BY <2>3, <4>1 DEF CreateUser, Done, NoFault, Strike
      <4>2. CASE Goto(s, "taken") /\ NoFault /\ UNCHANGED users
        BY <2>3, <4>2 DEF CreateUser, NoFault
      <4>3. CASE Goto(s, "error") /\ Strike("db", s) /\ UNCHANGED users
        BY <2>3, <4>3 DEF CreateUser, Strike
      <4> QED
        BY <2>3, <4>1, <4>2, <4>3 DEF CreateUser
    <3> QED
      BY <2>0, <3>1 DEF Rows, OrphanNeedsCause, InFlight, TypeOK
  <2>4. ASSUME NEW l \in Logins, GetUserByEmail(l) \/ GetOrgByID(l) PROVE Rows'
    <3>1. /\ \E next : Goto(l, next)
          /\ UNCHANGED accounts /\ struck \subseteq struck'
      BY <2>4 DEF GetUserByEmail, GetOrgByID, NoFault, Strike
    <3>2. \A s \in Signups : pc'[s] = pc[s]
      BY <2>0, <3>1
    <3> QED
      BY <3>1, <3>2 DEF Rows, OrphanNeedsCause, accounts, TypeOK
  <2>5. ASSUME NEW s \in Sessions, IssueTokenPair(s) PROVE Rows'
    <3>1. /\ \E next \in {"ok", "error"} : Goto(s, next)
          /\ UNCHANGED accounts /\ struck \subseteq struck' /\ pc[s] = "issue"
      BY <2>5 DEF IssueTokenPair, NoFault, Strike
    <3> QED
      BY <2>0, <3>1 DEF Rows, OrphanNeedsCause, accounts, TypeOK
  <2>6. CASE ClientStep
    BY <2>6, ClientFrame DEF Rows, OrphanNeedsCause, accounts, TypeOK
  <2>7. CASE Crash
    <3>1. \A s \in Sessions : pc'[s] = IF pc[s] \in InFlight THEN "error" ELSE pc[s]
      BY <2>7 DEF Crash
    <3>2. /\ UNCHANGED accounts /\ struck \subseteq struck'
          /\ \A s \in Sessions : pc[s] \in InFlight => s \in struck'
      BY <2>7 DEF Crash
    <3> QED
      BY <3>1, <3>2 DEF Rows, OrphanNeedsCause, accounts, TypeOK, InFlight
  <2>8. CASE UNCHANGED vars
    BY <2>8 DEF vars, Rows, OrphanNeedsCause, accounts
  <2> QED
    BY <2>1, <2>2, <2>3, <2>4, <2>5, <2>6, <2>7, <2>8 DEF Next, ClientStep
<1> QED
  BY <1>1, <1>2, TypeCorrect, PTL DEF Spec

\* The only organisations without a user are those of a sign-up that a fault
\* struck or whose address was taken.
THEOREM OrphansHaveACause == Spec => []OrphanNeedsCause
<1>1. Rows => OrphanNeedsCause
  BY DEF Rows
<1> QED
  BY <1>1, RowsHold, PTL

\* Every session that may come to have a token is a user's.
Owners ==
    /\ \A t \in Sessions :
         /\ pc[t] \in {"org", "issue", "ok"} \/ token[t] # None => user[t] \in users
         /\ token[t] # None => pc[t] \in {"ok", "error"}
    /\ \A l \in knew : pc[l] # "new"
    /\ OwnerLogsIn

LEMMA OwnersHold == Spec => []Owners
<1> USE Kinds
<1>1. Init => Owners
  <2> SUFFICES ASSUME Init PROVE Owners
    OBVIOUS
  <2>1. \A t \in Sessions : pc[t] = "new" /\ token[t] = None
    BY DEF Init
  <2> QED
    BY <2>1 DEF Init, Owners, OwnerLogsIn
<1>2. TypeOK /\ Rows /\ Owners /\ [Next]_vars => Owners'
  <2> SUFFICES ASSUME TypeOK, Rows, Owners, [Next]_vars PROVE Owners'
    OBVIOUS
  <2>0. ASSUME NEW x \in Sessions, NEW s, Goto(x, s)
        PROVE  pc'[x] = s /\ \A t \in Sessions : t # x => pc'[t] = pc[t]
    BY <2>0, Moves DEF TypeOK
  <2>1. ASSUME NEW s \in Signups, CreateOrg(s) \/ Seed(s) PROVE Owners'
    <3>1. /\ \E next \in {"seed", "user", "error"} : Goto(s, next)
          /\ pc[s] \in {"new", "seed"} /\ struck \subseteq struck'
          /\ UNCHANGED <<users, sessions, knew>>
      BY <2>1 DEF CreateOrg, Seed, Done, NoFault, Strike
    <3> QED
      BY <2>0, <3>1 DEF Owners, OwnerLogsIn, sessions, TypeOK
  <2>2. ASSUME NEW s \in Signups, CreateUser(s) PROVE Owners'
    <3>1. /\ \E next \in {"issue", "taken", "error"} :
               /\ Goto(s, next)
               /\ \/ users' = users \cup {s} /\ user' = [user EXCEPT ![s] = s]
                  \/ next # "issue" /\ UNCHANGED <<users, user>>
          /\ pc[s] = "user" /\ struck \subseteq struck'
          /\ UNCHANGED <<token, knew>>
      BY <2>2 DEF CreateUser, Done, NoFault, Strike
    <3> QED
      BY <2>0, <3>1 DEF Owners, OwnerLogsIn, TypeOK
  <2>3. ASSUME NEW l \in Logins, GetUserByEmail(l) PROVE Owners'
    <3>1. /\ pc[l] = "new" /\ l \notin knew /\ knew' \subseteq knew \cup {l}
          /\ UNCHANGED <<users, token>> /\ struck \subseteq struck'
      BY <2>3 DEF GetUserByEmail, Owners, NoFault, Strike, accounts
    <3>2. \E next \in {"org", "mismatch", "refused"} :
            /\ Goto(l, next)
            /\ next \in {"org", "mismatch"} =>
                 \E u \in users : user' = [user EXCEPT ![l] = u]
            /\ next = "refused" => UNCHANGED user
            /\ next = "refused" /\ l \in knew' => l \in struck'
      <4>1. PICK e \in Spellings :
              /\ knew' = IF \E s \in Signups : pc[s] = "ok" /\ email[s] = Normal[e]
                           THEN knew \cup {l} ELSE knew
              /\ \/ \E u \in Known(Normal[e]), next \in {"org", "mismatch"} :
                      user' = [user EXCEPT ![l] = u] /\ Goto(l, next) /\ NoFault
                 \/ Known(Normal[e]) = {} /\ Goto(l, "refused") /\ NoFault /\ UNCHANGED user
                 \/ Goto(l, "refused") /\ Strike("db", l) /\ UNCHANGED user
        BY <2>3 DEF GetUserByEmail
      <4>2. Known(Normal[e]) = {} => l \notin knew'
        BY <3>1, <4>1 DEF Known, Rows
      <4>3. Strike("db", l) => l \in struck'
        BY DEF Strike
      <4> QED
        BY <4>1, <4>2, <4>3 DEF Known
    <3> QED
      BY <2>0, <3>1, <3>2 DEF Owners, OwnerLogsIn, TypeOK
  <2>4. ASSUME NEW l \in Logins, GetOrgByID(l) PROVE Owners'
    <3>1. /\ pc[l] = "org" /\ user[l] \in orgs
          /\ UNCHANGED <<users, sessions, knew>> /\ struck \subseteq struck'
      BY <2>4 DEF GetOrgByID, Owners, Rows, NoFault, Strike, accounts
    <3>2. \E next \in {"issue", "error"} :
            Goto(l, next) /\ (next = "error" => l \in struck')
      BY <2>4, <3>1 DEF GetOrgByID, Strike
    <3> QED
      BY <2>0, <3>1, <3>2 DEF Owners, OwnerLogsIn, TypeOK, sessions
  <2>5. ASSUME NEW s \in Sessions, IssueTokenPair(s) PROVE Owners'
    <3>1. /\ \E next \in {"ok", "error"} :
               Goto(s, next) /\ (next = "error" => s \in struck')
          /\ \A t \in Sessions : t # s => token'[t] = token[t]
          /\ pc[s] = "issue" /\ struck \subseteq struck'
          /\ UNCHANGED <<users, user, knew>>
      BY <2>5 DEF IssueTokenPair, NoFault, Strike, accounts, TypeOK
    <3> QED
      BY <2>0, <3>1 DEF Owners, OwnerLogsIn, TypeOK
  <2>6. CASE ClientStep
    BY <2>6, ClientFrame DEF Owners, OwnerLogsIn, accounts, TypeOK
  <2>7. CASE Crash
    <3>1. \A s \in Sessions : pc'[s] = IF pc[s] \in InFlight THEN "error" ELSE pc[s]
      BY <2>7 DEF Crash
    <3>2. /\ UNCHANGED <<accounts, sessions, knew>> /\ struck \subseteq struck'
          /\ \A s \in Sessions : pc[s] \in InFlight => s \in struck'
      BY <2>7 DEF Crash
    <3> QED
      BY <3>1, <3>2 DEF Owners, OwnerLogsIn, accounts, sessions, TypeOK, InFlight
  <2>8. CASE UNCHANGED vars
    BY <2>8 DEF vars, Owners, OwnerLogsIn, accounts, sessions
  <2> QED
    BY <2>1, <2>2, <2>3, <2>4, <2>5, <2>6, <2>7, <2>8 DEF Next, ClientStep
<1> QED
  BY <1>1, <1>2, RowsHold, TypeCorrect, PTL DEF Spec

\* No half-made account has a user, and no session is without one.
THEOREM AccountsAreWhole == Spec => []AccountWhole
<1>1. Rows /\ Owners => AccountWhole
  BY DEF Rows, Owners, AccountWhole
<1> QED
  BY <1>1, RowsHold, OwnersHold, PTL

\* An acknowledged owner is turned away by faults only.
THEOREM OwnersLogIn == Spec => []OwnerLogsIn
<1>1. Owners => OwnerLogsIn
  BY DEF Owners
<1> QED
  BY <1>1, OwnersHold, PTL

\* Nothing revives an ended session, and nothing is done for one.
Closed ==
    /\ \A t \in ended : pc[t] = "ok" /\ token[t] # "live"
    /\ \A c \in late : pc[c] = "idle"

LEMMA ClosedHolds == Spec => []Closed
<1> USE Kinds
<1>1. Init => Closed
  BY DEF Init, Closed
<1>2. TypeOK /\ Closed /\ [Next]_vars => Closed'
  <2> SUFFICES ASSUME TypeOK, Closed, [Next]_vars PROVE Closed'
    OBVIOUS
  <2>0. ASSUME NEW x \in Sessions \cup Clients, NEW s, Goto(x, s)
        PROVE  pc'[x] = s /\ \A t \in Sessions \cup Clients : t # x => pc'[t] = pc[t]
    BY <2>0, Moves DEF TypeOK
  <2>1. ASSUME NEW s \in Signups, CreateOrg(s) \/ Seed(s) \/ CreateUser(s) PROVE Closed'
    <3>1. /\ \E next : Goto(s, next)
          /\ pc[s] # "ok" /\ UNCHANGED <<token, late, ended>>
      BY <2>1 DEF CreateOrg, Seed, CreateUser, Done, sessions, clients
    <3> QED
      BY <2>0, <3>1 DEF Closed, TypeOK
  <2>2. ASSUME NEW l \in Logins, GetUserByEmail(l) \/ GetOrgByID(l) PROVE Closed'
    <3>1. /\ \E next : Goto(l, next)
          /\ pc[l] # "ok" /\ UNCHANGED <<token, late, ended>>
      BY <2>2 DEF GetUserByEmail, GetOrgByID, sessions, clients
    <3> QED
      BY <2>0, <3>1 DEF Closed, TypeOK
  <2>3. ASSUME NEW s \in Sessions, IssueTokenPair(s) PROVE Closed'
    <3>1. /\ \E next : Goto(s, next)
          /\ pc[s] # "ok" /\ UNCHANGED <<late, ended>>
          /\ \A t \in Sessions : t # s => token'[t] = token[t]
      BY <2>3 DEF IssueTokenPair, TypeOK, clients
    <3> QED
      BY <2>0, <3>1 DEF Closed, TypeOK
  <2>4. ASSUME NEW t \in Sessions, ExpireAccess(t) \/ ExpireToken(t) PROVE Closed'
    BY <2>4 DEF ExpireAccess, ExpireToken, Closed, TypeOK, clients
  <2>5. ASSUME NEW c \in Clients, GetUserByID(c) PROVE Closed'
    <3>1. (\E next : Goto(c, next)) /\ c \notin late /\ UNCHANGED <<token, late, ended>>
      BY <2>5 DEF GetUserByID, Closed, clients
    <3> QED
      BY <2>0, <3>1 DEF Closed, TypeOK
  <2>6. ASSUME NEW c \in Clients, RevokeRefreshToken(c) PROVE Closed'
    <3>1. /\ Goto(c, "idle") /\ UNCHANGED late /\ use[c] \in Sessions /\ pc[use[c]] = "ok"
      BY <2>6 DEF RevokeRefreshToken, TypeOK
    <3>2. /\ ended' \subseteq ended \cup {use[c]}
          /\ \A t \in Sessions : token[t] # "live" => token'[t] # "live"
          /\ use[c] \in ended' => token'[use[c]] # "live"
      BY <2>6, <3>1 DEF RevokeRefreshToken, TypeOK, Closed
    <3> QED
      BY <2>0, <3>1, <3>2 DEF Closed, TypeOK
  <2>7. ASSUME NEW c \in Clients, NEW t \in Sessions, RefreshAccess(c, t) \/ Logout(c, t)
        PROVE  Closed'
    <3>1. /\ pc[t] = "ok" /\ UNCHANGED token
          /\ late' = IF t \in ended THEN late \cup {c} ELSE late \ {c}
      BY <2>7 DEF RefreshAccess, Logout, Send, sessions
    <3>2. \E next \in {"user", "revoke", "idle"} :
            Goto(c, next) /\ (next # "idle" => token[t] = "live")
      <4>1. CASE RefreshAccess(c, t)
        BY <4>1 DEF RefreshAccess, GetRefreshTokenByHash
      <4>2. CASE Logout(c, t)
        BY <4>2 DEF Logout, GetRefreshTokenByHash
      <4> QED
        BY <2>7, <4>1, <4>2
    <3>3. ended' = ended \/ (ended' = ended \cup {t} /\ token[t] # "live")
      <4>1. CASE RefreshAccess(c, t)
        BY <4>1 DEF RefreshAccess
      <4>2. CASE Logout(c, t)
        BY <4>2 DEF Logout, GetRefreshTokenByHash
      <4> QED
        BY <2>7, <4>1, <4>2
    <3>4. \A u \in ended' : pc'[u] = "ok" /\ token'[u] # "live"
      BY <2>0, <3>1, <3>2, <3>3 DEF Closed, TypeOK
    <3>5. \A d \in late' : pc'[d] = "idle"
      BY <2>0, <3>1, <3>2 DEF Closed, TypeOK
    <3> QED
      BY <3>4, <3>5 DEF Closed
  <2>8. CASE Crash
    <3>1. /\ \A c \in Clients : pc'[c] = "idle"
          /\ \A t \in Sessions : pc[t] = "ok" => pc'[t] = "ok"
      BY <2>8 DEF Crash, InFlight
    <3> QED
      BY <2>8, <3>1 DEF Crash, Closed, TypeOK, sessions, clients
  <2>9. CASE UNCHANGED vars
    BY <2>9 DEF vars, Closed, sessions, clients
  <2> QED
    BY <2>1, <2>2, <2>3, <2>4, <2>5, <2>6, <2>7, <2>8, <2>9 DEF Next, Continue
<1> QED
  BY <1>1, <1>2, TypeCorrect, PTL DEF Spec

\* A session whose logout was acknowledged is never refreshed again.
THEOREM LogoutIsFinal == Spec => []LoggedOutIsDead
<1>1. Closed => LoggedOutIsDead
  BY DEF Closed, LoggedOutIsDead
<1> QED
  BY <1>1, ClosedHolds, PTL
=============================================================================
