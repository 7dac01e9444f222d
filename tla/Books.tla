-------------------------------- MODULE Books -------------------------------
(***************************************************************************)
(* The books of one organisation, and what is read from them.  Payments    *)
(* and transfers move money at Nomba and post entries to three accounts: a *)
(* customer's, the pool and suspense.  Two kinds of readers look on while  *)
(* they do: reconciliation runs compare Nomba's wallet with the pool, and  *)
(* statements list one page of the customer's entries with a running       *)
(* balance.  Each reader takes two snapshots at different moments.         *)
(* Postings are single steps here; Ingest and Transfers take them apart.   *)
(* Every movement has the same amount, one unit.                           *)
(***************************************************************************)
EXTENDS Integers, Sequences, FiniteSets

CONSTANTS
    Payments,     \* inbound payments
    Transfers,    \* outbound transfers
    Readers,      \* requests and sweeps that read the books
    KindOf,       \* KindOf[r]: "run" or "statement"
    Limit,        \* limit and offset of a statement, as asked for
    Offset,
    MaxLimit,     \* larger limits are replaced by the default, 100 and 20
    DefaultLimit,
    CreatedAt,    \* CreatedAt[e]: created_at of a customer's entry, if it is ever posted
    MaxFaults     \* bound on the number of faults

Movements     == Payments \cup Transfers
CustomerTypes == {"inbound_credit", "backfill_credit", "transfer_out", "transfer_reversal"}
PoolTypes     == {"pool_liability", "pool_release"}
EntryTypes    == CustomerTypes \cup PoolTypes \cup {"suspense_credit"}
DebitTypes    == {"transfer_out", "pool_liability"}

ASSUME BooksAssumption ==
    /\ IsFiniteSet(Payments) /\ IsFiniteSet(Transfers)
    /\ Payments \cap Transfers = {}
    /\ KindOf \in [Readers -> {"run", "statement"}]
    /\ Limit \in [Readers -> Int] /\ Offset \in [Readers -> Nat]
    /\ MaxLimit \in Nat \ {0} /\ DefaultLimit \in 1 .. MaxLimit
    /\ CreatedAt \in [CustomerTypes \X Movements -> Nat]
    /\ MaxFaults \in Nat

VARIABLES
    received,     \* payments in Nomba's wallet
    sent,         \* transfers that Nomba has paid out
    refused,      \* transfers that Nomba has refused
    checked,      \* transfers that passed the balance check
    ledger,       \* ledger_entries, as pairs of entry_type and movement
    pc,           \* control state of each reader
    figures,      \* the wallet and the pool balance that a run has read
    truth,        \* history: the gap and the pool's entries when it read the wallet,
                  \* and those that came before it read the pool
    listing,      \* the customer's entries when a statement listed them, newest first
    counted,      \* the entries in the balance that it asked for next
    faults        \* faults so far

nomba   == <<received, sent, refused>>
books   == <<checked, ledger>>
readers == <<pc, figures, truth, listing, counted>>
vars    == <<nomba, books, readers, faults>>

States == {"new",        \* next: GetWalletBalance or ListEntries
           "pool",       \* run; next: GetPoolBalance
           "persist",    \* run; next: InsertRun
           "closing",    \* statement; next: GetBalanceAsOf
           "ok",         \* a run with its row, or an answered statement
           "error"}

Init ==
    /\ received = {} /\ sent = {} /\ refused = {} /\ checked = {} /\ ledger = {}
    /\ pc = [r \in Readers |-> "new"]
    /\ figures = [r \in Readers |-> [wallet |-> 0, pool |-> 0]]
    /\ truth = [r \in Readers |-> [gap |-> 0, pool |-> {}, late |-> {}]]
    /\ listing = [r \in Readers |-> <<>>]
    /\ counted = [r \in Readers |-> {}]
    /\ faults = 0

Fault == faults < MaxFaults /\ faults' = faults + 1

-----------------------------------------------------------------------------
(* Balances.                                                               *)

\* Credits less debits.
Net(entries) == Cardinality({e \in entries : e[1] \notin DebitTypes})
              - Cardinality({e \in entries : e[1] \in DebitTypes})

Of(types)  == {e \in ledger : e[1] \in types}
With(type) == {m \in Movements : <<type, m>> \in ledger}

Customer == Of(CustomerTypes)
Pool     == Of(PoolTypes)
Suspense == Of({"suspense_credit"})

Wallet == Cardinality(received) - Cardinality(sent)

-----------------------------------------------------------------------------
(* Movements.                                                              *)

Pay(p) ==
    /\ p \notin received /\ received' = received \cup {p}
    /\ UNCHANGED <<sent, refused, books, readers, faults>>

InsertEntries(types, m) == ledger' = ledger \cup (types \X {m})

\* The webhook books a payment once, for the customer or in suspense.
Unclaimed(p) == p \in received \ (With("inbound_credit") \cup With("suspense_credit"))

\* As PostCredit, with nothing to tell a repeated webhook from the first.
PostCredit_Repeated(p) ==
    /\ p \in received /\ p \notin With("inbound_credit")
    /\ InsertEntries({"inbound_credit", "pool_liability"}, p)
    /\ UNCHANGED <<nomba, checked, readers, faults>>

PostCredit(p) ==
    /\ Unclaimed(p)
    /\ InsertEntries({"inbound_credit", "pool_liability"}, p)
    /\ UNCHANGED <<nomba, checked, readers, faults>>

\* One leg only.
PostSuspense(p) ==
    /\ Unclaimed(p)
    /\ InsertEntries({"suspense_credit"}, p)
    /\ UNCHANGED <<nomba, checked, readers, faults>>

\* One leg only; the webhook may have booked the payment or may do so later.
Backfill(p) ==
    /\ p \in received \ With("backfill_credit")
    /\ InsertEntries({"backfill_credit"}, p)
    /\ UNCHANGED <<nomba, checked, readers, faults>>

CheckBalance(t) ==
    /\ t \notin checked /\ Net(Customer) >= 1
    /\ checked' = checked \cup {t}
    /\ UNCHANGED <<nomba, ledger, readers, faults>>

PostDebit(t) ==
    /\ t \in checked \ With("transfer_out")
    /\ InsertEntries({"transfer_out", "pool_release"}, t)
    /\ UNCHANGED <<nomba, checked, readers, faults>>

NombaPays(t) ==
    /\ t \in With("transfer_out") \ (sent \cup refused) /\ sent' = sent \cup {t}
    /\ UNCHANGED <<received, refused, books, readers, faults>>

NombaRefuses(t) ==
    /\ t \in With("transfer_out") \ (sent \cup refused) /\ refused' = refused \cup {t}
    /\ UNCHANGED <<received, sent, books, readers, faults>>

\* As ReverseLedgerDebit, with the customer's leg alone.
ReverseLedgerDebit_OneLeg(t) ==
    /\ t \in With("transfer_out") \ With("transfer_reversal")
    /\ \/ t \in refused /\ UNCHANGED faults
       \/ t \notin refused /\ Fault
    /\ InsertEntries({"transfer_reversal"}, t)
    /\ UNCHANGED <<nomba, checked, readers>>

\* After a refusal, or a timeout that is taken for one.
ReverseLedgerDebit(t) ==
    /\ t \in With("transfer_out") \ With("transfer_reversal")
    /\ \/ t \in refused /\ UNCHANGED faults
       \/ t \notin refused /\ Fault
    /\ InsertEntries({"transfer_reversal", "pool_liability"}, t)
    /\ UNCHANGED <<nomba, checked, readers>>

-----------------------------------------------------------------------------
(* Reconciliation: what the pool does not account for, and Run.            *)

Unpooled  == received \ With("pool_liability")
Undecided == With("pool_release") \ (sent \cup With("transfer_reversal"))
PaidTwice == sent \cap With("transfer_reversal")

Gap == Cardinality(Unpooled) + Cardinality(Undecided) - Cardinality(PaidTwice)

Goto(r, s)  == pc' = [pc EXCEPT ![r] = s]
At(r, kind, s) == KindOf[r] = kind /\ pc[r] = s

GetWalletBalance(r) ==
    /\ At(r, "run", "new") /\ Goto(r, "pool")
    /\ figures' = [figures EXCEPT ![r].wallet = Wallet]
    /\ truth' = [truth EXCEPT ![r] = [gap |-> Gap, pool |-> Pool, late |-> {}]]
    /\ UNCHANGED <<nomba, books, listing, counted, faults>>

\* As GetPoolBalance, of the customers' accounts.
GetPoolBalance_Customers(r) ==
    /\ At(r, "run", "pool") /\ Goto(r, "persist")
    /\ figures' = [figures EXCEPT ![r].pool = -Net(Customer)]
    /\ truth' = [truth EXCEPT ![r].late = Pool \ truth[r].pool]
    /\ UNCHANGED <<nomba, books, listing, counted, faults>>

GetPoolBalance(r) ==
    /\ At(r, "run", "pool") /\ Goto(r, "persist")
    /\ figures' = [figures EXCEPT ![r].pool = Net(Pool)]
    /\ truth' = [truth EXCEPT ![r].late = Pool \ truth[r].pool]
    /\ UNCHANGED <<nomba, books, listing, counted, faults>>

InsertRun(r) ==
    /\ At(r, "run", "persist") /\ Goto(r, "ok")
    /\ UNCHANGED <<nomba, books, figures, truth, listing, counted, faults>>

Delta(r)  == figures[r].wallet - figures[r].pool
Status(r) == IF Delta(r) = 0 THEN "ok" ELSE "mismatch"

-----------------------------------------------------------------------------
(* Statements.                                                             *)

PageSize(r) == IF Limit[r] \in 1 .. MaxLimit THEN Limit[r] ELSE DefaultLimit

\* ORDER BY created_at DESC: in any order where created_at is the same.
Listings(entries) ==
    {s \in [1 .. Cardinality(entries) -> entries] :
        /\ \A e \in entries : \E i \in DOMAIN s : s[i] = e
        /\ \A i, j \in DOMAIN s : i < j => s[i] # s[j] /\ CreatedAt[s[i]] >= CreatedAt[s[j]]}

\* The positions that LIMIT and OFFSET keep.
Page(r) == {i \in DOMAIN listing[r] : i > Offset[r] /\ i <= Offset[r] + PageSize(r)}
First(r) == listing[r][Offset[r] + 1]

ListEntries(r) ==
    /\ At(r, "statement", "new")
    /\ \E s \in Listings(Customer) :
          /\ listing' = [listing EXCEPT ![r] = s]
          /\ Goto(r, IF Len(s) > Offset[r] THEN "closing" ELSE "ok")
    /\ UNCHANGED <<nomba, books, figures, truth, counted, faults>>

\* As GetBalanceAsOf, for the balance of the moment.
GetBalanceAsOf_Now(r) ==
    /\ At(r, "statement", "closing") /\ Goto(r, "ok")
    /\ counted' = [counted EXCEPT ![r] = Customer]
    /\ UNCHANGED <<nomba, books, figures, truth, listing, faults>>

GetBalanceAsOf(r) ==
    /\ At(r, "statement", "closing") /\ Goto(r, "ok")
    /\ counted' = [counted EXCEPT ![r] =
                     {e \in Customer : CreatedAt[e] <= CreatedAt[First(r)]}]
    /\ UNCHANGED <<nomba, books, figures, truth, listing, faults>>

\* Line i: the closing balance with the newer entries of the page undone.
RunningBalance(r, i) ==
    Net(counted[r]) - Net({listing[r][j] : j \in {k \in Page(r) : k < i}})

\* A statement or a call to Nomba fails: the reader gives up.
Fail(r) ==
    /\ pc[r] \notin {"ok", "error"} /\ Goto(r, "error") /\ Fault
    /\ UNCHANGED <<nomba, books, figures, truth, listing, counted>>

-----------------------------------------------------------------------------
Next ==
    \/ \E p \in Payments : Pay(p) \/ PostCredit(p) \/ PostSuspense(p) \/ Backfill(p)
    \/ \E t \in Transfers :
          \/ CheckBalance(t) \/ PostDebit(t) \/ ReverseLedgerDebit(t)
          \/ NombaPays(t) \/ NombaRefuses(t)
    \/ \E r \in Readers :
          \/ GetWalletBalance(r) \/ GetPoolBalance(r) \/ InsertRun(r)
          \/ ListEntries(r) \/ GetBalanceAsOf(r)
          \/ Fail(r)

Spec == Init /\ [][Next]_vars

-----------------------------------------------------------------------------
(* Properties.                                                             *)

\* Types; payments are not booked before they arrive, nor transfers decided
\* before they are debited, and pairs of entries come in pairs.
TypeOK ==
    /\ received \subseteq Payments /\ checked \subseteq Transfers
    /\ ledger \subseteq EntryTypes \X Movements
    /\ sent \subseteq With("transfer_out") /\ refused \subseteq With("transfer_out")
    /\ With("inbound_credit") \cup With("backfill_credit") \cup With("suspense_credit")
          \subseteq received
    /\ With("inbound_credit") \cap With("suspense_credit") = {}
    /\ With("transfer_reversal") \subseteq With("transfer_out")
    /\ With("transfer_out") \subseteq Transfers
    /\ With("pool_release") = With("transfer_out")
    /\ With("pool_liability") = With("inbound_credit") \cup With("transfer_reversal")
    /\ sent \cap refused = {}
    /\ pc \in [Readers -> States]
    /\ figures \in [Readers -> [wallet : Int, pool : Int]]
    /\ truth \in [Readers -> [gap : Int, pool : SUBSET (PoolTypes \X Movements),
                              late : SUBSET (PoolTypes \X Movements)]]
    /\ listing \in [Readers -> Seq(CustomerTypes \X Movements)]
    /\ counted \in [Readers -> SUBSET (CustomerTypes \X Movements)]
    /\ faults \in 0 .. MaxFaults

\* ledger/service.go: the pool mirrors the wallet.  What the two do not agree
\* on is exactly what reconciliation is there to find: payments without a pool
\* leg (missed, in suspense, or backfilled), transfers that Nomba has not
\* decided, and transfers that were reversed and paid all the same.
PoolEquation == Wallet + Net(Pool) = Gap

\* The wallet covers what the customers are told they have, but for payments
\* booked by the webhook and by the sweep, and transfers reversed and paid.
CustomersCovered ==
    LET twice == With("inbound_credit") \cap With("backfill_credit")
        moved == With("suspense_credit") \cap With("backfill_credit")
    IN  Net(Customer) + Net(Suspense)
          <= Wallet + Cardinality(twice) + Cardinality(moved) + Cardinality(PaidTwice)

\* Two reads at different moments: what a run records is the gap there was when
\* it read the wallet, off by the entries that the pool got between the two
\* reads and by nothing else, whatever is booked, paid out or reversed meanwhile.
RunTellsGap ==
    \A r \in Readers :
        At(r, "run", "ok") =>
            figures[r].wallet + figures[r].pool = truth[r].gap + Net(truth[r].late)

\* README: statements have "a correct running balance per line - accurate
\* across all pages".  A line is right if it is the balance of the entries from
\* there on.  All are, on whichever page, unless an entry as old as the page
\* appeared between the two reads, or the first entry of the page is as old as
\* the last of the page before.
Right(r, i) ==
    RunningBalance(r, i) = Net({listing[r][j] : j \in i .. Len(listing[r])})

Late(r) == \E e \in counted[r] : \A i \in DOMAIN listing[r] : listing[r][i] # e
Tie(r)  == \E i \in DOMAIN listing[r] :
              i <= Offset[r] /\ CreatedAt[listing[r][i]] = CreatedAt[First(r)]

StatementRight ==
    \A r \in Readers :
        At(r, "statement", "ok") =>
            \/ \A i \in Page(r) : Right(r, i)
            \/ Late(r) \/ Tie(r)

-----------------------------------------------------------------------------
(* What the code's own words promise and the code does not keep.           *)

\* reconciliation/service.go: wallet = pool credits - pool debits, and any
\* other outcome "indicates a missed event or a bookkeeping error".
BalancedIsOk ==
    \A r \in Readers :
        At(r, "run", "ok") /\ truth[r].late = {} /\ truth[r].gap = 0 => Status(r) = "ok"
=============================================================================
