---- MODULE MCImportReview ----
(***************************************************************************)
(* Small instances of ImportReview.                                        *)
(***************************************************************************)
EXTENDS ImportReview, TLC

CONSTANTS p1, p2, q1, q2, m1, m2, l1, l2, e1, b1, b2

(* A transfer (q1 says m1) and a purchase (q2 says m2).                    *)
TransferAndPurchase == [q \in Payloads |-> IF q = q1 THEN m1 ELSE m2]

(* Two contents that differ in what moves no money (a description, a       *)
(* category): an edit changes the fingerprint and keeps the twins.         *)
OneMovement == [q \in Payloads |-> m1]

Symmetry == Permutations(Requests) \cup Permutations(Lines) \cup Permutations(Batches)
=============================================================================
