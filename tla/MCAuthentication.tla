---- MODULE MCAuthentication ----
(***************************************************************************)
(* A small instance of Authentication: two people, one of whom changes to  *)
(* the other's email.                                                      *)
(***************************************************************************)
EXTENDS Authentication, TLC

CONSTANTS a1, a2, c1, c2, r1, u1, u2, ana, bia, ana_mail, bia_mail

People == {[subject |-> ana, email |-> ana_mail],
           [subject |-> bia, email |-> bia_mail],
           [subject |-> bia, email |-> ana_mail]}

OneLocalUser == u1 :> ana_mail
=============================================================================
