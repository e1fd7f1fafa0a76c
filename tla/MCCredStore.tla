---------------------------- MODULE MCCredStore -----------------------------
(* Instances of CredStore small enough for TLC.                            *)
EXTENDS CredStore, TLC

CONSTANTS a, b

(* Each user's logins go by a name of its own, or share one.               *)
OwnNames == (a :> {1}) @@ (b :> {2})
SharedName == (a :> {1}) @@ (b :> {1, 2})
OwnAutoNames == (a :> 1) @@ (b :> 2)

(* The workers run the same code.                                          *)
WorkerSymmetry == Permutations(Workers)
=============================================================================
