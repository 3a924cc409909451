--------------------------- MODULE MCCardInvoices ---------------------------
(***************************************************************************)
(* Small instances of CardInvoices for TLC: how requests may overlap, which *)
(* periods purchases may fall in, and the symmetry of the requests.        *)
(***************************************************************************)
EXTENDS CardInvoices, TLC

Symmetry == Permutations(Requests)

\* One request at a time: what every handler was written and tested for.
NeverOverlap(first, second) == FALSE

\* The API as deployed: nothing keeps two requests apart.
AlwaysOverlap(first, second) == TRUE

\* Edits and moves of different purchases overlap; everything else runs alone.
DisjointEditsOverlap(first, second) ==
  /\ {first.op, second.op} \subseteq {"edit", "move"}
  /\ first.purchase # second.purchase

SinglePlans    == {<<0>>, <<1>>}
OnePeriodPlans == {<<0>>}
\* One installment left, or two.
MixedPlans     == {<<0>>, <<0, 1>>}

=============================================================================
