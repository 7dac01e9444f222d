------------------------------- MODULE Payout -------------------------------
(***************************************************************************)
(* What a transfer promises of the customer's money, with no balances,     *)
(* database, provider protocol or process in sight.  Money is taken before *)
(* it is paid out, and given back once at most, by the step that ends the  *)
(* call; an ended call takes and gives nothing more.  A call that nothing  *)
(* struck ends with the money taken exactly if it was paid out, so nothing *)
(* is paid for it later.  For a struck call only the order is promised.    *)
(***************************************************************************)
CONSTANTS Requests, Ref

VARIABLES
    taken,       \* requests whose money was taken
    given,       \* requests whose money was given back
    paid,        \* requests that were paid out
    over,        \* requests whose call has ended
    struck       \* requests that something went wrong with

money      == <<taken, given, paid>>
payoutVars == <<money, over, struck>>

Init == taken = {} /\ given = {} /\ paid = {} /\ over = {} /\ struck = {}

Exact(r) == r \in taken \ given <=> r \in paid

\* The calls R end with this step, and some that have not ended are struck.
End(R) ==
    /\ R \cap over = {} /\ over' = over \cup R
    /\ \E S \in SUBSET (Requests \ over) : struck' = struck \cup S
    /\ \A r \in R \ struck' : Exact(r)'

Take(r) ==
    /\ r \notin taken \cup over
    /\ taken' = taken \cup {r}
    /\ UNCHANGED <<given, paid>>
    /\ End({}) \/ End({r})

Give(r) ==
    /\ r \in taken \ (given \cup over)
    /\ given' = given \cup {r}
    /\ UNCHANGED <<taken, paid>>
    /\ End({r})

\* A reference is paid out once, to a call that waits for it unless struck.
Pay(r) ==
    /\ r \in taken \ paid
    /\ r \in over => r \in struck
    /\ \A q \in paid : Ref[q] # Ref[r]
    /\ paid' = paid \cup {r}
    /\ UNCHANGED <<taken, given, over, struck>>

Next ==
    \/ \E r \in Requests : Take(r) \/ Give(r) \/ Pay(r)
    \/ \E R \in SUBSET Requests : UNCHANGED money /\ End(R)

Spec == Init /\ [][Next]_payoutVars
=============================================================================
