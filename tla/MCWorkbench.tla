---------------------------- MODULE MCWorkbench ----------------------------
(***************************************************************************)
(* A small instance of Workbench for TLC: the page of the carriers.        *)
(***************************************************************************)
EXTENDS Workbench, StatusGraphs, TLC

CONSTANTS c1, d1, s1, s2, w1

AnyCarrierStatus == DOMAIN CarrierGraph
UpTo3 == [c \in Codes |-> 3]
EmptySeed == [c \in Codes |-> Absent]
SlotSymmetry == Permutations(Slots)
=============================================================================
