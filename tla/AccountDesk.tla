---------------------------- MODULE AccountDesk ----------------------------
(***************************************************************************)
(* Logins, imports, removals and switches of accounts in the WebUI while   *)
(* requests fetch the accounts' keys: a login that LoginFlow has brought   *)
(* to its end becomes an account of KeyCache (the end of complete in       *)
(* internal/account/login_flow.go).                                        *)
(***************************************************************************)
EXTENDS LoginFlow, KeyCache

CONSTANT
  Crews         (* Bound: the tabs and goroutines that are busy together.  *)

ASSUME DeskAssumption ==
  /\ MaxLogins \in Nat /\ MaxSlug \in Nat /\ MaxStates \in Nat
  /\ MaxSlug >= MaxLogins          \* a name can always be found
  /\ Ever \in Nat /\ Longest \in 1 .. Ever /\ Backoff \in Nat \ {0}
  /\ Intervals \subseteq 1 .. Ever   \* none of 0: login_flow.go:119-121
  /\ Pace \in 0 .. Longest           \* more the back-off cannot reach
  /\ MaxLapses \in Nat
  /\ NoUser \notin Users
  /\ Crews \subseteq [tabs : SUBSET Tabs, callers : SUBSET Callers]

VARIABLE crew

vars == <<crew, grantVars, loginVars, keyVars>>

TypeOK == crew \in Crews /\ GrantsTypeOK /\ LoginTypeOK /\ KeysTypeOK

Init == crew \in Crews /\ GrantsInit /\ LoginInit /\ KeysInit

(* A login of the active account's user adds nothing ...                   *)
IsCurrentUser(n) == current # NoSlug /\ SameUser(UserID(n), file[current])

CompareCurrent(p) ==
  /\ poll[p] = "compare"
  /\ IF IsCurrentUser(ticket[p]) THEN Return(p)
     ELSE poll' = [poll EXCEPT ![p] = "save"] /\ UNCHANGED <<ticket, answer>>
  /\ UNCHANGED <<grantVars, slotVars, exchanges, lapses, keyVars>>

(* ... any other login is saved and activated.                             *)
SaveLogin(p) ==
  /\ poll[p] = "save"
  /\ SaveAccountAutoSlug(ticket[p], UserID(ticket[p]))
  /\ Return(p)
  /\ UNCHANGED <<grantVars, slotVars, exchanges, lapses>>

(* handleAccountImport saves credentials that come from elsewhere, of the  *)
(* active account's user, too, and perhaps without a user_id.              *)
Import(n) ==
  /\ request[n] = "none"
  /\ \A m \in 1 .. n - 1 : request[m] # "none"
  /\ request' = [request EXCEPT ![n] = "completed"]
  /\ \E u \in Users :
       /\ who' = [who EXCEPT ![n] = u]
       /\ \/ known' = known \cup {n} /\ SaveAccountAutoSlug(n, u)
          \/ UNCHANGED known /\ SaveAccountAutoSlug(n, NoUser)
  /\ UNCHANGED <<revoked, loginVars>>

Next ==
  /\ UNCHANGED crew
  /\ \/ /\ crew.tabs # {} /\ (Decide \/ Revoke)
        /\ UNCHANGED <<loginVars, keyVars>>
     \/ /\ crew.tabs # {} /\ SlotStep
        /\ UNCHANGED keyVars
     \/ \E p \in crew.tabs :
          \/ PollStep(p) /\ UNCHANGED keyVars
          \/ CompareCurrent(p) \/ SaveLogin(p)
     \/ \E w \in crew.callers : CallerStep(w) /\ UNCHANGED <<grantVars, loginVars>>
     \/ /\ crew.callers # {} /\ \E s \in Slugs : ActivateAccount(s)
        /\ UNCHANGED <<grantVars, loginVars>>
     \/ crew.callers # {} /\ \E n \in Logins : Import(n)

Spec == Init /\ [][Next]_vars

(* The page asks again as long as it waits, the clock runs, a request that *)
(* was answered goes on, and the upstream does not stay out of reach.      *)
Heed(p) == SlowDown(p) \/ StillPending(p) \/ Refused(p) \/ Authorized(p)

Fairness ==
  LET rest == UNCHANGED <<crew, keyVars>>
  IN  /\ WF_vars(Tick /\ rest)
      /\ \A p \in Tabs :
           /\ WF_vars(p \in crew.tabs /\ (Poll(p) \/ Heed(p)) /\ rest)
           /\ SF_vars(p \in crew.tabs /\ Reply(p) /\ rest)

FairSpec == Spec /\ Fairness

-----------------------------------------------------------------------------
(* What the messages of a dead account promise ("log in again", oauth/     *)
(* creds.go:138, oauth/apikey.go:103): a login that ends well leaves its   *)
(* user an account with credentials the upstream accepts.                  *)
LoginRepairs ==
  [][\A p \in Tabs :
       poll[p] \in {"compare", "save"} /\ poll'[p] = "idle"
         /\ ticket[p] \notin revoked =>
       \E s \in Slugs : /\ file'[s] # NoLogin /\ file'[s] \notin revoked
                        /\ who[file'[s]] = who[ticket[p]]]_vars
=============================================================================
