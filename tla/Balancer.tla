------------------------------ MODULE Balancer ------------------------------
(***************************************************************************)
(* The account pool of internal/balancer/balancer.go, shared by all        *)
(* request goroutines, and what else touches it: the administrator's       *)
(* configuration updates, accounts that are saved, switched or removed     *)
(* while requests run, and cooldowns that end.                             *)
(*                                                                         *)
(* Every action is one critical section of b.mu (or of the registry's own  *)
(* lock for current and registered).  Pick, which is many of them, is in   *)
(* ProxyHandler.                                                           *)
(*                                                                         *)
(* Call metrics, session ids and the text of a cooldown reason are left    *)
(* out: nothing is decided from them.  An account is its slug's rank in    *)
(* the sort order of slugs, so that the code's sorted slices need no       *)
(* strings.                                                                *)
(***************************************************************************)
EXTENDS Integers, FiniteSets

CONSTANTS
  Slugs,        (* Slugs an account may have, as ranks in sort order.      *)
  NoSlug,       (* The empty slug.                                         *)
  CursorCycle,  (* The round-robin counter is kept modulo this number.     *)
  Offered,      (* Configurations an update may lead to.                   *)
  AdminBudget   (* Bound: administrative operations in one behaviour.      *)

ASSUME SlugsAssumption ==
  /\ Slugs \subseteq Nat \ {0}
  /\ IsFiniteSet(Slugs)
  /\ NoSlug = 0

(* rrIndex is a uint64 read only as rrIndex % n for n pool accounts: a     *)
(* common multiple of 1 .. |Slugs| keeps every such remainder.             *)
ASSUME CursorAssumption == CursorCycle \in Nat \ {0}

ASSUME BudgetAssumption == AdminBudget \in Nat

VARIABLES
  registered,   (* Slugs with a credential file: what ListSlugs returns.   *)
  current,      (* The registry's active account, or NoSlug.               *)
  pool,         (* Slugs with an AccountState in b.pool.                   *)
  cooling,      (* Pooled accounts whose cooldownUntil lies ahead.         *)
  config,       (* b.config.                                               *)
  rrIndex,      (* b.rrIndex modulo CursorCycle.                           *)
  cleanup,      (* cleanup[s]: what the removal of s still has to do.      *)
  adminLeft     (* What is left of AdminBudget.                            *)

registryVars == <<registered, current>>
poolVars == <<pool, cooling>>
adminVars == <<cleanup, adminLeft>>
balancerVars == <<registryVars, poolVars, config, rrIndex, adminVars>>

Modes == {"quota-first", "round-robin"}
Config == [enabled : BOOLEAN, mode : Modes, disabled : SUBSET Slugs]

ASSUME OfferedAssumption == Offered \subseteq Config

Cleanups == {"none", "reloadPool", "enableSlug"}
BalancerTypeOK ==
  /\ registered \in SUBSET Slugs
  /\ current \in Slugs \cup {NoSlug}
  /\ pool \in SUBSET Slugs
  /\ cooling \in SUBSET pool
  /\ config \in Config
  /\ rrIndex \in 0 .. CursorCycle - 1
  /\ cleanup \in [Slugs -> Cleanups]
  /\ adminLeft \in 0 .. AdminBudget

(* NewBalancer after a start: the pool is what is on disk, nobody cools.   *)
BalancerInit ==
  /\ registered \in SUBSET Slugs
  /\ current \in registered \cup {NoSlug}
  /\ pool = registered
  /\ cooling = {}
  /\ config \in Config
  /\ rrIndex = 0
  /\ cleanup = [s \in Slugs |-> "none"]
  /\ adminLeft = AdminBudget

-----------------------------------------------------------------------------
(* Operators of the request path.                                          *)

(* Mutant of SyncPool: the cooldown of a dropped account stays behind.     *)
SyncPoolKeepsCooling(slugs) == pool' = slugs /\ UNCHANGED cooling

(* syncPool's critical section, for the list of slugs read before it:      *)
(* missing accounts get a fresh state, vanished ones lose theirs.          *)
SyncPool(slugs) ==
  /\ pool' = slugs
  /\ cooling' = cooling \cap slugs

(* getAvailableCandidates: neither excluded, nor disabled, nor cooling.    *)
Candidates(excluded) == pool \ (excluded \cup config.disabled \cup cooling)

(* The slug at a zero-based position of a set sorted by slug.              *)
IsNth(s, S, i) == s \in S /\ Cardinality({t \in S : t < s}) = i

(* rrIndex.Add(1) % len(tier): each caller gets its own counter value.     *)
TakeTurn(s, tier) ==
  LET turn == (rrIndex + 1) % CursorCycle
  IN  /\ rrIndex' = turn
      /\ IsNth(s, tier, turn % Cardinality(tier))

(* Quota tiers: today's allowance first, then bought points, then anyone.  *)
QuotaTier(cands, daily, billing) ==
  IF daily # {} THEN daily ELSE IF billing # {} THEN billing ELSE cands

(* MarkFailure: the state is looked up again by name, so an account that   *)
(* left the pool meanwhile is not marked.                                  *)
MarkFailure(s, isQuotaOrRateLimit) ==
  cooling' = IF isQuotaOrRateLimit /\ s \in pool
             THEN cooling \cup {s} ELSE cooling

(* ensureLocked, at the beginning of every transaction that reads the      *)
(* current account: an empty registry imports codely-creds.json, if there  *)
(* is one, under the name that goes with it.                               *)
ImportActivation ==
  /\ registered = {}
  /\ \E s \in Slugs : registered' = {s} /\ current' = s

-----------------------------------------------------------------------------
(* The rest of the program.                                                *)

(* UpdateConfig: any of the patch's fields; toggleSlug and disabledSlugs   *)
(* both replace the list of disabled slugs.                                *)
UpdateConfig ==
  /\ adminLeft > 0
  /\ config' \in Offered
  /\ adminLeft' = adminLeft - 1
  /\ UNCHANGED <<registryVars, poolVars, rrIndex, cleanup>>

(* SaveAccount of a login: the new account becomes the active one and the  *)
(* pool is completed (OnAccountSaved) before r.mu is released.             *)
SaveAccount(s) ==
  /\ adminLeft > 0
  /\ registered' = registered \cup {s}
  /\ current' = s
  /\ SyncPool(registered')
  /\ adminLeft' = adminLeft - 1
  /\ UNCHANGED <<config, rrIndex, cleanup>>

(* ActivateAccount, up to the release of r.mu.                             *)
ActivateAccount(s) ==
  /\ adminLeft > 0
  /\ s \in registered
  /\ current' = s
  /\ SyncPool(registered)
  /\ adminLeft' = adminLeft - 1
  /\ UNCHANGED <<registered, config, rrIndex, cleanup>>

(* RemoveAccount, up to the release of r.mu: the pool still holds s.  When *)
(* s was the active account the code goes on to activate the first one     *)
(* left, in a transaction of its own (ActivateAccount above).              *)
RemoveAccount(s) ==
  /\ adminLeft > 0
  /\ s \in registered
  /\ registered' = registered \ {s}
  /\ \/ current # s /\ UNCHANGED current
     \/ current = s /\ registered' = {} /\ current' = NoSlug
     \/ current = s /\ \E t \in registered' :
                         (\A u \in registered' : t <= u) /\ current' = t
  /\ cleanup' = [cleanup EXCEPT ![s] = "reloadPool"]
  /\ adminLeft' = adminLeft - 1
  /\ UNCHANGED <<poolVars, config, rrIndex>>

(* The end of RemoveAccount ...                                            *)
ReloadPool(s) ==
  /\ cleanup[s] = "reloadPool"
  /\ SyncPool(registered)
  /\ cleanup' = [cleanup EXCEPT ![s] = "enableSlug"]
  /\ UNCHANGED <<registryVars, config, rrIndex, adminLeft>>

(* ... after which its caller has the slug dropped from the disabled ones. *)
OnAccountRemoved(s) ==
  /\ cleanup[s] = "enableSlug"
  /\ cleanup' = [cleanup EXCEPT ![s] = "none"]
  /\ config' = [config EXCEPT !.disabled = @ \ {s}]
  /\ UNCHANGED <<registryVars, poolVars, rrIndex, adminLeft>>

(* Five minutes are over.                                                  *)
CooldownEnds(s) ==
  /\ s \in cooling
  /\ cooling' = cooling \ {s}
  /\ UNCHANGED <<registryVars, pool, config, rrIndex, adminVars>>

(* Some page of the WebUI asks for the current account.                    *)
AskCurrent ==
  /\ ImportActivation
  /\ UNCHANGED <<poolVars, config, rrIndex, adminVars>>

Administer ==
  \/ UpdateConfig
  \/ AskCurrent
  \/ \E s \in Slugs : SaveAccount(s)
  \/ \E s \in Slugs : ActivateAccount(s)
  \/ \E s \in Slugs : RemoveAccount(s)
  \/ \E s \in Slugs : ReloadPool(s)
  \/ \E s \in Slugs : OnAccountRemoved(s)
  \/ \E s \in Slugs : CooldownEnds(s)
=============================================================================
