------------------------ MODULE MCTransactionGroups ------------------------
(***************************************************************************)
(* Small instances of TransactionGroups for TLC: the order of the entries  *)
(* by date is not their order by id.                                       *)
(***************************************************************************)
EXTENDS TransactionGroups, TLC

CONSTANTS r1, r2, r3, e1, e2, e3, checking, savings

RankById   == e1 :> 1 @@ e2 :> 2 @@ e3 :> 3
RankByDate == e1 :> 3 @@ e2 :> 2 @@ e3 :> 1

Row(status, group) == [class |-> checking, status |-> status, group |-> group]

\* Two entries posted and one planned, or a group of three.
Opening ==
  {e1 :> Row("posted", None) @@ e2 :> Row("posted", None) @@ e3 :> Row("planned", None),
   [e \in Entries |-> Row("posted", Legacy)]}

\* One request changes an entry, one the groups, one the status of selections;
\* two may group or ungroup.
RolesApart ==
  r1 :> {"update", "void"}
  @@ r2 :> {"create", "ungroup", "void_member", "void_group"}
  @@ r3 :> {"create", "ungroup", "status", "bulk"}

SomeSelections == {{}, {e1, e2}, {e2, e3}}

=============================================================================
