-------------------------- MODULE MCInvoiceCalendar --------------------------
(***************************************************************************)
(* An instance of InvoiceCalendar for TLC: sixteen months around a leap    *)
(* February, so that every pair of neighbouring month lengths occurs, and  *)
(* the closing and due days on both sides of every clamping.               *)
(***************************************************************************)
EXTENDS InvoiceCalendar

WalkFrom == <<2023, 12, 1>>
WalkTo   == <<2025, 3, 31>>

=============================================================================
