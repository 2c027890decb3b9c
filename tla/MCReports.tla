------------------------------- MODULE MCReports -------------------------------
(***************************************************************************)
(* A small report directory: two weekly reports of one month and an annual *)
(* one of the same year, some there from the start.                        *)
(***************************************************************************)
EXTENDS Reports, TLC

MCYearOf  == [f \in Files |-> "2026"]
MCMonthOf == 1 :> "2026-01" @@ 2 :> None @@ 3 :> "2026-01"

RequestSymmetry == Permutations(Requests)
=============================================================================
