--------------------------- MODULE MCProxyHandler ---------------------------
(* Instances of ProxyHandler small enough for TLC.                         *)
EXTENDS ProxyHandler

CONSTANTS
  FirstSlugs,    (* What may be on disk when the process starts.           *)
  FirstConfigs   (* What balancer.json may say then.                       *)

On(m, d) == [enabled |-> TRUE, mode |-> m, disabled |-> d]
Off(m, d) == [enabled |-> FALSE, mode |-> m, disabled |-> d]

(* Load balancing on, with the first account disabled, and off.            *)
Starts == {On("quota-first", {1}), Off("quota-first", {})}
Changes == {On("round-robin", {}), Off("round-robin", {2})}

(* The first account is active.                                            *)
MCInit ==
  /\ Init
  /\ registered \in FirstSlugs
  /\ current = 1
  /\ config \in FirstConfigs

MCSpec == MCInit /\ [][Next]_vars
MCFairSpec == MCSpec /\ Fairness
=============================================================================
