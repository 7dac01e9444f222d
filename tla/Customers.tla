------------------------------ MODULE Customers -----------------------------
(***************************************************************************)
(* Customers of one organisation, with what hangs on them: their display   *)
(* names (identity_versions), their virtual account and its counterpart at *)
(* Nomba, their KYC tier and its history.  Requests of five kinds overlap  *)
(* freely; each database statement and each Nomba call is a step, and only *)
(* a tier upgrade uses a transaction and a row lock.  Requests that fail   *)
(* validation change nothing and are left out.                             *)
(***************************************************************************)
EXTENDS Integers, Sequences

CONSTANTS
    People,       \* customer ids, which are also Nomba's accountRef
    Calls,        \* requests; rows are named after the call that inserts them
    KindOf,       \* KindOf[c]: the endpoint, one of Kinds
    CustomerOf,   \* CustomerOf[c]: the customer (or the owner of the account) in the path
    TierOf,       \* TierOf[c]: kyc_tier in the body
    Named,        \* registrations with a display_name in the body
    NoCall,       \* no row, no lock holder
    FaultKinds,   \* subset of AllFaults that may happen
    MaxFaults     \* bound on the number of faults

Kinds == {"register",    \* POST /customers
          "provision",   \* POST /accounts
          "rename",      \* PUT /accounts/{id}
          "close",       \* POST /accounts/{id}/close
          "upgrade"}     \* PUT /customers/{id}/kyc-tier

AllFaults == {"db",       \* a statement fails and has no effect
              "commit",   \* a commit takes effect but is reported as failed
              "nomba",    \* the Nomba call fails, with or without its effect
              "crash"}    \* the process dies

Tiers == 1 .. 3

ASSUME CustomersAssumption ==
    /\ KindOf \in [Calls -> Kinds]
    /\ CustomerOf \in [Calls -> People]
    /\ TierOf \in [Calls -> Tiers]
    /\ Named \subseteq Calls
    /\ NoCall \notin Calls
    /\ MaxFaults \in Nat /\ FaultKinds \subseteq AllFaults

VARIABLES
    customers,    \* customers with a row
    tier,         \* customers.kyc_tier
    history,      \* kyc_tier_history, in the order of insertion
    versions,     \* identity_versions rows
    open,         \* those with effective_to NULL
    accounts,     \* virtual_accounts rows
    closed,       \* those with status 'closed'
    nomba,        \* customers with a virtual account at Nomba
    pc,           \* control state of each call
    target,       \* account or version that a call has read
    from,         \* tier that an upgrade has read
    lock,         \* holder of the row lock on a customer
    up,           \* the API process is running
    faults        \* faults so far

kyc      == <<tier, history, from, lock>>
identity == <<versions, open>>
rows     == <<accounts, closed>>
vars     == <<customers, kyc, identity, rows, nomba, pc, target, up, faults>>

States == {"new",             \* not received yet
           "list",            \* provision; next: ListAccountsByCustomer
           "nomba",           \* provision; next: CreateVirtualAccount
           "persist",         \* provision; next: CreateAccount
           "identity",        \* next: CreateIdentityVersion
           "current",         \* rename; next: GetCurrentIdentity
           "close_version",   \* rename; next: CloseIdentityVersion
           "close",           \* close; next: UpdateAccountStatus
           "update", "history", "commit",   \* upgrade, inside its transaction
           "ok", "error",     \* answered
           "torn",            \* met by a fault with something written
           "gone"}            \* cut off by a crash

InTx     == {"update", "history", "commit"}
Answered == {"ok", "error", "torn", "gone"}

Init ==
    /\ customers = {} /\ tier \in [People -> {1}] /\ history = [k \in People |-> <<>>]
    /\ versions = {} /\ open = {} /\ accounts = {} /\ closed = {} /\ nomba = {}
    /\ pc = [c \in Calls |-> "new"] /\ target = [c \in Calls |-> NoCall]
    /\ from = [c \in Calls |-> 1] /\ lock = [k \in People |-> NoCall]
    /\ up = TRUE /\ faults = 0

Fault(kind) == kind \in FaultKinds /\ faults < MaxFaults /\ faults' = faults + 1

Goto(c, s) == pc' = [pc EXCEPT ![c] = s]

Of(c, table) == {row \in table : CustomerOf[row] = CustomerOf[c]}

At(c, s)        == up /\ pc[c] = s
Arrives(c, kind) == At(c, "new") /\ KindOf[c] = kind

\* The outcome of a write: done; done but reported as failed; not done, and
\* then it depends on the writes before it what the call leaves behind.
Writes(c, Done, NotDone, next, failed) ==
    \/ Done /\ Goto(c, next) /\ UNCHANGED faults
    \/ Done /\ Goto(c, "torn") /\ Fault("commit")
    \/ NotDone /\ Goto(c, failed) /\ Fault("db")

\* A foreign key to customers locks the customer's row against FOR UPDATE.
ForeignKey(c) == lock[CustomerOf[c]] = NoCall

-----------------------------------------------------------------------------
(* POST /customers.  The id is a fresh UUID.                               *)

CreateCustomer(c) ==
    LET k == CustomerOf[c] IN
    /\ Arrives(c, "register") /\ k \notin customers
    /\ Writes(c, customers' = customers \cup {k} /\ tier' = [tier EXCEPT ![k] = TierOf[c]],
                 UNCHANGED <<customers, tier>>,
                 IF c \in Named THEN "identity" ELSE "ok", "error")
    /\ UNCHANGED <<history, from, lock, identity, rows, nomba, target, up>>

\* The last step of a named registration, of a provision and of a rename.
CreateIdentityVersion(c) ==
    /\ At(c, "identity") /\ ForeignKey(c)
    /\ Writes(c, versions' = versions \cup {c} /\ open' = open \cup {c},
                 UNCHANGED identity, "ok", "torn")
    /\ UNCHANGED <<customers, kyc, rows, nomba, target, up>>

-----------------------------------------------------------------------------
(* POST /accounts.                                                         *)

\* As GetCustomer, with the customer looked up only for its name.
GetCustomer_Optional(c) ==
    /\ Arrives(c, "provision")
    /\ Goto(c, "list")
    /\ UNCHANGED <<customers, kyc, identity, rows, nomba, target, up, faults>>

GetCustomer(c) ==
    /\ Arrives(c, "provision")
    /\ \/ CustomerOf[c] \in customers /\ Goto(c, "list") /\ UNCHANGED faults
       \/ CustomerOf[c] \notin customers /\ Goto(c, "error") /\ UNCHANGED faults
       \/ Goto(c, "error") /\ Fault("db")
    /\ UNCHANGED <<customers, kyc, identity, rows, nomba, target, up>>

\* An active account is returned as it is; a listing that fails is taken for
\* an empty one.
ListAccountsByCustomer(c) ==
    LET active == Of(c, accounts \ closed) IN
    /\ At(c, "list")
    /\ \/ active # {} /\ Goto(c, "ok") /\ UNCHANGED faults
       \/ active = {} /\ Goto(c, "nomba") /\ UNCHANGED faults
       \/ Goto(c, "nomba") /\ Fault("db")
    /\ UNCHANGED <<customers, kyc, identity, rows, nomba, target, up>>

\* Nomba answers a known accountRef with the account it has.
CreateVirtualAccount(c) ==
    LET created == nomba' = nomba \cup {CustomerOf[c]} IN
    /\ At(c, "nomba")
    /\ \/ created /\ Goto(c, "persist") /\ UNCHANGED faults
       \/ created /\ Goto(c, "torn") /\ Fault("nomba")
       \/ UNCHANGED nomba /\ Goto(c, "error") /\ Fault("nomba")
    /\ UNCHANGED <<customers, kyc, identity, rows, target, up>>

InsertAccount(c, next) ==
    Writes(c, accounts' = accounts \cup {c}, UNCHANGED accounts, next, "torn")

\* As CreateAccount, with no unique index on account_ref.
CreateAccount_NoUnique(c) ==
    /\ At(c, "persist") /\ ForeignKey(c)
    /\ InsertAccount(c, "identity")
    /\ UNCHANGED <<customers, kyc, identity, closed, nomba, target, up>>

\* As CreateAccount, with account_ref unique among active accounts only.
CreateAccount_ActiveUnique(c) ==
    /\ At(c, "persist") /\ ForeignKey(c)
    /\ \/ Of(c, accounts \ closed) = {} /\ InsertAccount(c, "identity")
       \/ Of(c, accounts \ closed) # {} /\ Goto(c, "error") /\ UNCHANGED <<accounts, faults>>
    /\ UNCHANGED <<customers, kyc, identity, closed, nomba, target, up>>

\* As CreateAccount, with the identity version left to a rename.
CreateAccount_NoVersion(c) ==
    /\ At(c, "persist") /\ ForeignKey(c)
    /\ \/ Of(c, accounts) = {} /\ CustomerOf[c] \in customers /\ InsertAccount(c, "ok")
       \/ Of(c, accounts) # {} /\ Goto(c, "error") /\ UNCHANGED <<accounts, faults>>
    /\ UNCHANGED <<customers, kyc, identity, closed, nomba, target, up>>

\* account_ref is unique over active and closed accounts.
CreateAccount(c) ==
    LET accepted == Of(c, accounts) = {} /\ CustomerOf[c] \in customers IN
    /\ At(c, "persist") /\ ForeignKey(c)
    /\ \/ accepted /\ InsertAccount(c, "identity")
       \/ ~accepted /\ Goto(c, "error") /\ UNCHANGED <<accounts, faults>>
    /\ UNCHANGED <<customers, kyc, identity, closed, nomba, target, up>>

-----------------------------------------------------------------------------
(* PUT /accounts/{id} and POST /accounts/{id}/close.                       *)

Read(c, row) == target' = [target EXCEPT ![c] = row]

GetAccount(c) ==
    /\ Arrives(c, "rename") \/ Arrives(c, "close")
    /\ \/ \E a \in Of(c, accounts) :
             /\ Read(c, a) /\ UNCHANGED faults
             /\ Goto(c, CASE KindOf[c] = "rename" -> "current"
                          [] KindOf[c] = "close" /\ a \notin closed -> "close"
                          [] OTHER -> "error")
       \/ Of(c, accounts) = {} /\ Goto(c, "error") /\ UNCHANGED <<target, faults>>
       \/ Goto(c, "error") /\ Fault("db") /\ UNCHANGED target
    /\ UNCHANGED <<customers, kyc, identity, rows, nomba, up>>

UpdateAccountStatus(c) ==
    /\ At(c, "close")
    /\ Writes(c, closed' = closed \cup {target[c]}, UNCHANGED closed, "ok", "error")
    /\ UNCHANGED <<customers, kyc, identity, accounts, nomba, target, up>>

\* Any of the open versions, should there be more than one.
GetCurrentIdentity(c) ==
    /\ At(c, "current")
    /\ \/ \E v \in Of(c, open) :
             Read(c, v) /\ Goto(c, "close_version") /\ UNCHANGED faults
       \/ Of(c, open) = {} /\ Goto(c, "error") /\ UNCHANGED <<target, faults>>
       \/ Goto(c, "error") /\ Fault("db") /\ UNCHANGED target
    /\ UNCHANGED <<customers, kyc, identity, rows, nomba, up>>

\* As CloseIdentityVersion, with no row updated.
CloseIdentityVersion_NoRow(c) ==
    /\ At(c, "close_version")
    /\ Writes(c, UNCHANGED open, UNCHANGED open, "identity", "error")
    /\ UNCHANGED <<customers, kyc, versions, rows, nomba, target, up>>

\* The version may have been closed by another rename since it was read.
CloseIdentityVersion(c) ==
    /\ At(c, "close_version")
    /\ Writes(c, open' = open \ {target[c]}, UNCHANGED open, "identity", "error")
    /\ UNCHANGED <<customers, kyc, versions, rows, nomba, target, up>>

-----------------------------------------------------------------------------
(* PUT /customers/{id}/kyc-tier: one transaction under a row lock.         *)

SetLock(c, holder) == lock' = [lock EXCEPT ![CustomerOf[c]] = holder]

\* As LockCustomer, with a plain SELECT.
LockCustomer_Plain(c) ==
    LET k == CustomerOf[c] IN
    /\ Arrives(c, "upgrade") /\ k \in customers
    /\ IF TierOf[c] > tier[k]
       THEN from' = [from EXCEPT ![c] = tier[k]] /\ Goto(c, "update")
       ELSE Goto(c, "error") /\ UNCHANGED from
    /\ UNCHANGED <<customers, tier, history, lock, identity, rows, nomba, target, up, faults>>

\* SELECT ... FOR UPDATE and the comparison.
LockCustomer(c) ==
    LET k == CustomerOf[c] IN
    /\ Arrives(c, "upgrade") /\ lock[k] = NoCall
    /\ \/ /\ k \in customers /\ TierOf[c] > tier[k]
          /\ SetLock(c, c) /\ from' = [from EXCEPT ![c] = tier[k]]
          /\ Goto(c, "update") /\ UNCHANGED faults
       \/ /\ k \notin customers \/ TierOf[c] <= tier[k]
          /\ Goto(c, "error") /\ UNCHANGED <<from, lock, faults>>
       \/ Goto(c, "error") /\ Fault("db") /\ UNCHANGED <<from, lock>>
    /\ UNCHANGED <<customers, tier, history, identity, rows, nomba, target, up>>

\* The UPDATE and the INSERT, which nobody sees before the commit.
InTransaction(c, here, next) ==
    /\ At(c, here)
    /\ \/ Goto(c, next) /\ UNCHANGED <<lock, faults>>
       \/ Goto(c, "error") /\ SetLock(c, NoCall) /\ Fault("db")
    /\ UNCHANGED <<customers, tier, history, from, identity, rows, nomba, target, up>>

UpdateTier(c)    == InTransaction(c, "update", "history")
InsertHistory(c) == InTransaction(c, "history", "commit")

CommitUpgrade(c) ==
    LET k == CustomerOf[c] IN
    /\ At(c, "commit")
    /\ Writes(c, /\ tier' = [tier EXCEPT ![k] = TierOf[c]]
                 /\ history' = [history EXCEPT ![k] =
                                  Append(@, [from |-> from[c], to |-> TierOf[c]])],
                 UNCHANGED <<tier, history>>, "ok", "error")
    /\ SetLock(c, NoCall)
    /\ UNCHANGED <<customers, from, identity, rows, nomba, target, up>>

-----------------------------------------------------------------------------
\* The database rolls open transactions back and releases their locks.
Crash ==
    /\ up /\ Fault("crash")
    /\ up' = FALSE
    /\ pc' = [c \in Calls |-> CASE pc[c] \in Answered \cup {"new"} -> pc[c]
                               [] pc[c] \in {"persist", "identity"} -> "torn"
                               [] OTHER -> "gone"]
    /\ lock' = [k \in People |-> NoCall]
    /\ UNCHANGED <<customers, tier, history, from, identity, rows, nomba, target>>

Restart ==
    /\ ~up /\ up' = TRUE
    /\ UNCHANGED <<customers, kyc, identity, rows, nomba, pc, target, faults>>

Step(c) ==
    \/ CreateCustomer(c)
    \/ CreateIdentityVersion(c)
    \/ GetCustomer(c)
    \/ ListAccountsByCustomer(c)
    \/ CreateVirtualAccount(c)
    \/ CreateAccount(c)
    \/ GetAccount(c)
    \/ UpdateAccountStatus(c)
    \/ GetCurrentIdentity(c)
    \/ CloseIdentityVersion(c)
    \/ LockCustomer(c)
    \/ UpdateTier(c)
    \/ InsertHistory(c)
    \/ CommitUpgrade(c)

Next ==
    \/ \E c \in Calls : Step(c)
    \/ Crash
    \/ Restart

Spec == Init /\ [][Next]_vars

-----------------------------------------------------------------------------
(* Properties.                                                             *)

\* Types, what a call has read in each control state, and the lock, which an
\* upgrade holds exactly as long as its transaction is open.
TypeOK ==
    /\ customers \subseteq People /\ nomba \subseteq People
    /\ tier \in [People -> Tiers] /\ from \in [Calls -> Tiers]
    /\ history \in [People -> Seq([from : Tiers, to : Tiers])]
    /\ open \subseteq versions /\ versions \subseteq Calls
    /\ closed \subseteq accounts /\ accounts \subseteq Calls
    /\ pc \in [Calls -> States]
    /\ target \in [Calls -> Calls \cup {NoCall}]
    /\ lock \in [People -> Calls \cup {NoCall}]
    /\ up \in BOOLEAN /\ faults \in 0 .. MaxFaults
    /\ \A c \in Calls :
          /\ pc[c] = "close" => target[c] \in Of(c, accounts)
          /\ pc[c] = "close_version" => target[c] \in Of(c, versions)
          /\ pc[c] \in InTx <=> lock[CustomerOf[c]] = c

\* docs/virtual-accounts: a customer has one account however many provisions
\* overlap, are repeated or fail half-way.
OneAccount == \A a, b \in accounts : CustomerOf[a] = CustomerOf[b] => a = b

\* docs/virtual-accounts/close: closure is irreversible, by a status update and
\* by a provision that finds no active account alike.
ClosureFinal ==
    [][\A a \in closed :
          /\ a \in closed'
          /\ \A b \in accounts' \ closed' : CustomerOf[b] # CustomerOf[a]]_vars

\* Provisions, closures, registrations and upgrades together, however they
\* overlap and fail, keep each customer's file as Registry has it: an account
\* is opened for a customer on file only, a customer without an active account
\* never gets one again, and every upgrade that is stored starts at the tier in
\* the row at that moment.
Promise == INSTANCE Registry WITH
    registered <- customers,
    opened <- {CustomerOf[a] : a \in accounts},
    shut <- {CustomerOf[a] : a \in accounts} \ {CustomerOf[a] : a \in accounts \ closed}

RegistryKept == Promise!Spec

\* Nomba has no account that the database does not know, unless a provision was
\* torn between the Nomba call and the insert: else its payments would go to the
\* global suspense account.  No overlap and no other failure leaves one.
OrphanNeedsTorn ==
    \A k \in nomba :
        \/ \E a \in accounts : CustomerOf[a] = k
        \/ \E c \in Calls : /\ CustomerOf[c] = k /\ KindOf[c] = "provision"
                           /\ pc[c] \in {"persist", "torn"}

\* The requests that give an account a name: its provision and its renames.
Naming == {c \in Calls : KindOf[c] \in {"provision", "rename"}}

\* An account always has a current name or a request that is about to give it
\* one, unless such a request was torn.  Renames that overlap never close the
\* last version for good, nor does a failure before the first write.
NamedUnlessTorn ==
    \A a \in accounts :
        \/ Of(a, open) # {}
        \/ \E c \in Of(a, Naming) : pc[c] \in {"identity", "torn"}

\* Two renames that replaced one version.
Forked(k) ==
    \E r, q \in versions :
        /\ r # q /\ KindOf[r] = "rename" /\ KindOf[q] = "rename"
        /\ CustomerOf[r] = k /\ CustomerOf[q] = k /\ target[r] = target[q]

\* No constraint keeps a customer from having two current names.  They come
\* about in two ways only: a name given at the registration, before the account
\* gives one, or two renames that read one version before either closed it.
\* Nothing else, no failure and no crash either, leaves a second one.
ExtraNameNeedsFork ==
    \A v, w \in open :
        CustomerOf[v] = CustomerOf[w] /\ v # w =>
            \/ \E n \in Named : CustomerOf[n] = CustomerOf[v]
            \/ Forked(CustomerOf[v])

\* README: tiers are one-way, and the history says how the tier came about:
\* every upgrade starts where the one before it ended, and the last one ended
\* at the present tier.
TierHistory ==
    \A k \in People :
        LET h == history[k] IN
        /\ \A i \in 1 .. Len(h) :
              /\ h[i].from < h[i].to
              /\ i > 1 => h[i].from = h[i - 1].to
        /\ h # <<>> => h[Len(h)].to = tier[k]

-----------------------------------------------------------------------------
(* What the schema promises and the code does not keep.                    *)

\* identity_versions: "no_overlapping_active", one open version per customer.
OneCurrentIdentity == \A v, w \in open : CustomerOf[v] = CustomerOf[w] => v = w
=============================================================================
