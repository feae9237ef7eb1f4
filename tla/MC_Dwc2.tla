------------------------------- MODULE MC_Dwc2 -------------------------------
(* Model-checking instance of Dwc2: the constants are given in the .cfg   *)
(* files; this module fixes the view of the state TLC reports.           *)
EXTENDS Dwc2

=============================================================================
