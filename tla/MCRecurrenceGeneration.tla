------------------------ MODULE MCRecurrenceGeneration ------------------------
(***************************************************************************)
(* A small instance of RecurrenceGeneration for TLC: which requests a      *)
(* behaviour has. Any of them may overlap.                                 *)
(***************************************************************************)
EXTENDS RecurrenceGeneration

CONSTANTS creator, r1, r2, r3

Create(t, d) == [op |-> "create", target |-> t, due |-> d]
Generate(s)  == [op |-> "generate", through |-> s]
Change(o)    == [op |-> o]
Update(t)    == [op |-> "update", target |-> t]

\* A rule for an account or a card; a generation or a resumption; a generation, an
\* edit or a pause of the rule; and a pause or a cancellation.
SeriesOffers(r) ==
  CASE r = creator -> {Create(t, d) : t \in Targets, d \in BOOLEAN}
    [] r = r1 -> {Generate(2), Change("resume")}
    [] r = r2 -> {Generate(2), Change("pause")} \cup {Update(t) : t \in Targets}
    [] r = r3 -> {Change("pause"), Change("cancel")}

\* The API as deployed.
AlwaysOverlap(first, second) == TRUE

=============================================================================
