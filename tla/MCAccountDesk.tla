--------------------------- MODULE MCAccountDesk ---------------------------
(***************************************************************************)
(* Two tabs log accounts in; or goroutines fetch keys while accounts are   *)
(* imported, switched and removed.  Apart, for together they have millions *)
(* of states.                                                              *)
(***************************************************************************)
EXTENDS AccountDesk, TLC

CONSTANTS t1, t2

TwoTabs == {[tabs |-> {t1, t2}, callers |-> {}]}

OneTab == {[tabs |-> {t1}, callers |-> {}]}

NoTabs == {[tabs |-> {}, callers |-> Callers]}

(* The goroutines run the same code, and no user is special.               *)
KeySymmetry == Permutations(Callers) \cup Permutations(Users)
=============================================================================
