--------------------------- MODULE InvoiceContract ---------------------------
(***************************************************************************)
(* What the cards component promises to its users, one step per operation: *)
(* one bill per billing period, charged while it is open, frozen once it   *)
(* is closed, and debited exactly once, for exactly its total.             *)
(***************************************************************************)
EXTENDS Integers

CONSTANT Periods

VARIABLES
  bill,    \* for each period, the status and the total of its bill
  debited  \* what paying bills has taken out of the accounts so far

vars == <<bill, debited>>

Bills == [status : {"none", "open", "closed", "paid"}, total : Nat]

TypeOK == bill \in [Periods -> Bills] /\ debited \in Nat

Init ==
  /\ bill = [p \in Periods |-> [status |-> "none", total |-> 0]]
  /\ debited = 0

Chargeable(p) == bill[p].status \in {"none", "open"}

\* A purchase charges one or more periods whose bills are open or do not exist.
Purchase ==
  \E S \in (SUBSET Periods) \ {{}} :
    /\ \A p \in S : /\ Chargeable(p)
                    /\ bill'[p].status = "open"
                    /\ bill'[p].total >= bill[p].total
    /\ \A p \in Periods \ S : bill'[p] = bill[p]
    /\ bill' \in [Periods -> Bills]
    /\ UNCHANGED debited

\* An edit gives an open bill another total.
Edit(p) ==
  /\ bill[p].status = "open"
  /\ bill'[p].total \in Nat
  /\ bill' = [bill EXCEPT ![p].total = bill'[p].total]
  /\ UNCHANGED debited

\* A move takes from one open bill what it gives to another.
Move(p, q) ==
  /\ p # q /\ bill[p].status = "open" /\ Chargeable(q)
  /\ bill'[p].total \in Nat /\ bill'[q].total \in Nat
  /\ bill'[p].total + bill'[q].total = bill[p].total + bill[q].total
  /\ bill' = [bill EXCEPT ![p].total = bill'[p].total,
                          ![q] = [status |-> "open", total |-> bill'[q].total]]
  /\ UNCHANGED debited

Close(p) ==
  /\ bill[p].status = "open"
  /\ bill' = [bill EXCEPT ![p].status = "closed"]
  /\ UNCHANGED debited

Pay(p) ==
  /\ bill[p].status \in {"open", "closed"} /\ bill[p].total > 0
  /\ bill' = [bill EXCEPT ![p].status = "paid"]
  /\ debited' = debited + bill[p].total

Next ==
  \/ Purchase
  \/ \E p \in Periods : Edit(p) \/ Close(p) \/ Pay(p)
  \/ \E p, q \in Periods : Move(p, q)

Spec == Init /\ [][Next]_vars

=============================================================================
