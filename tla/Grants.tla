------------------------------- MODULE Grants -------------------------------
(***************************************************************************)
(* The upstream's side of device logins, as internal/account/login_flow.go *)
(* and internal/oauth use it: an authorization request is approved by a    *)
(* user in a browser, denied or forgotten, its code is exchanged once, and *)
(* the grant that results may be revoked.  A grant has the number of its   *)
(* login; the tokens it is rotated through and the keys fetched with them  *)
(* are the grant itself, for they all belong to one user.                  *)
(***************************************************************************)
EXTENDS Integers, FiniteSets

CONSTANTS
  Users,        (* Upstream identities (user_id).                          *)
  NoUser,       (* Nobody has answered yet.                                *)
  MaxLogins     (* Bound: logins that are started.                         *)

Logins == 1 .. MaxLogins
NoLogin == 0

VARIABLES
  request,      (* request[n]: the state of authorization request n.       *)
  who,          (* who[n]: the user who approved it.                       *)
  revoked,      (* Grants the upstream refuses from now on.                *)
  known         (* Grants whose user /auth/external/me has told the proxy. *)

grantVars == <<request, who, revoked, known>>

(* "refused" stands for denied, expired and whatever else ends a request.  *)
Statuses == {"none", "pending", "authorized", "refused", "completed"}

GrantsTypeOK ==
  /\ request \in [Logins -> Statuses]
  /\ who \in [Logins -> Users \cup {NoUser}]
  /\ revoked \cup known \subseteq {n \in Logins : request[n] = "completed"}

GrantsInit ==
  /\ request = [n \in Logins |-> "none"]
  /\ who = [n \in Logins |-> NoUser]
  /\ revoked = {} /\ known = {}

(* The users of a request that is pending make up their minds, or do not.  *)
Decide ==
  /\ \E n \in Logins :
       /\ request[n] = "pending"
       /\ \/ \E u \in Users :
               /\ request' = [request EXCEPT ![n] = "authorized"]
               /\ who' = [who EXCEPT ![n] = u]
          \/ request' = [request EXCEPT ![n] = "refused"] /\ UNCHANGED who
  /\ UNCHANGED <<revoked, known>>

(* A user logs out everywhere, or a rotation is lost.                      *)
Revoke ==
  /\ \E n \in Logins : request[n] = "completed" /\ revoked' = revoked \cup {n}
  /\ UNCHANGED <<request, who, known>>
=============================================================================
