------------------------------ MODULE Failover ------------------------------
(***************************************************************************)
(* What one inference request is promised by the retry loop of             *)
(* internal/proxy/handler.go, with every scheduling detail left out:       *)
(*                                                                         *)
(*   - a request is handed to DIFFERENT accounts, one after the other,     *)
(*     and to at most its budget of them;                                  *)
(*   - it ends in exactly one outcome, and an outcome is never revised;    *)
(*   - "exhausted" (the 502 of the end of the loop) is only said when the  *)
(*     whole budget was spent, and a 402/429 reaches an unpinned client    *)
(*     only from the last account of the budget.                           *)
(*                                                                         *)
(* ProxyHandler refines this specification.                                *)
(***************************************************************************)
EXTENDS Naturals, FiniteSets

CONSTANTS
  Requests,   (* Requests in flight at the same time.                      *)
  Slugs,      (* Account names.                                            *)
  TryCap      (* Accounts a request may burn through, at most.             *)

VARIABLES
  tried,      (* tried[r]: accounts request r was handed to.               *)
  budget,     (* budget[r]: how many it may be handed to; 0 when idle.     *)
  free,       (* free[r]: the client left the choice of account open.      *)
  verdict     (* verdict[r]: how r ended, "idle" or "open" before that.    *)

fvars == <<tried, budget, free, verdict>>

Outcomes == {"rejected", "noAccount", "quota", "denied", "ok", "aborted",
             "exhausted"}

Init ==
  /\ tried   = [r \in Requests |-> {}]
  /\ budget  = [r \in Requests |-> 0]
  /\ free    = [r \in Requests |-> TRUE]
  /\ verdict = [r \in Requests |-> "idle"]

Accept(r) ==
  /\ verdict[r] = "idle"
  /\ \E n \in 1 .. TryCap, f \in BOOLEAN :
       /\ budget' = [budget EXCEPT ![r] = n]
       /\ free' = [free EXCEPT ![r] = f]
  /\ verdict' = [verdict EXCEPT ![r] = "open"]
  /\ UNCHANGED tried

Reject(r) ==
  /\ verdict[r] = "idle"
  /\ verdict' = [verdict EXCEPT ![r] = "rejected"]
  /\ UNCHANGED <<tried, budget, free>>

(* The request moves to an account it has not used before.                 *)
Try(r, s) ==
  /\ verdict[r] = "open"
  /\ s \notin tried[r]
  /\ Cardinality(tried[r]) < budget[r]
  /\ tried' = [tried EXCEPT ![r] = @ \cup {s}]
  /\ UNCHANGED <<budget, free, verdict>>

(* When an outcome may be given.                                           *)
MayEnd(r, o) ==
  CASE o = "rejected"  -> FALSE
    [] o = "noAccount" -> Cardinality(tried[r]) < budget[r]
    [] o = "quota"     -> /\ tried[r] # {}
                          /\ free[r] => Cardinality(tried[r]) = budget[r]
    [] o = "exhausted" -> Cardinality(tried[r]) = budget[r]
    [] OTHER           -> tried[r] # {}

End(r, o) ==
  /\ verdict[r] = "open"
  /\ MayEnd(r, o)
  /\ verdict' = [verdict EXCEPT ![r] = o]
  /\ UNCHANGED <<tried, budget, free>>

(* The connection serves its next request.                                 *)
Reset(r) ==
  /\ verdict[r] \in Outcomes
  /\ tried'   = [tried EXCEPT ![r] = {}]
  /\ budget'  = [budget EXCEPT ![r] = 0]
  /\ free'    = [free EXCEPT ![r] = TRUE]
  /\ verdict' = [verdict EXCEPT ![r] = "idle"]

Next ==
  \E r \in Requests :
    \/ Accept(r)
    \/ Reject(r)
    \/ \E s \in Slugs : Try(r, s)
    \/ \E o \in Outcomes : End(r, o)
    \/ Reset(r)

Spec == Init /\ [][Next]_fvars
=============================================================================
