------------------------- MODULE AccountDesk_proofs -------------------------
(***************************************************************************)
(* Proofs about the account desk: the login flow uses every code once and  *)
(* ends a login only when it is that login's turn, whatever the tabs do;   *)
(* a login that is saved always finds a name; and what is kept under the   *)
(* name of an account stays its own user's.                                *)
(***************************************************************************)
EXTENDS AccountDesk, FiniteSetTheorems, NaturalOrder

(* Grants whose code was exchanged, or that were imported.                 *)
Past == {n \in Logins : request[n] = "completed"}

(* Tab p has taken its login out of the slot.                              *)
Busy(p) == poll[p] \in {"exchange", "compare", "save"}

(* The login flow: a login is still to start, in the slot, or with the one *)
(* tab that took it.                                                       *)
OneTaker ==
  /\ \A n \in Logins : request[n] = "none" \/ n \in starting =>
       exchanges[n] = 0 /\ \A p \in Tabs : ticket[p] # n
  /\ \A n \in Logins : request[n] = "none" => n \notin starting /\ slot.nr # n
  /\ slot.nr # NoLogin => exchanges[slot.nr] = 0
  /\ slot.nr \notin Past /\ \A n \in starting : n \notin Past
  /\ \A p \in Tabs : Busy(p) => ticket[p] # slot.nr
  /\ \A p \in Tabs :
       poll[p] = "exchange" => exchanges[ticket[p]] = 0 /\ ticket[p] \notin Past
  /\ \A p \in Tabs : poll[p] \in {"compare", "save"} => ticket[p] \in Past
  /\ \A p, q \in Tabs : Busy(p) /\ Busy(q) /\ ticket[p] = ticket[q] => p = q
  /\ CodeUsedOnce

LoginInv == GrantsTypeOK /\ LoginTypeOK /\ OneTaker

-----------------------------------------------------------------------------
(* The kinds of steps.                                                     *)

LoginsOnly ==
  /\ UNCHANGED keyVars
  /\ \/ (Decide \/ Revoke) /\ UNCHANGED loginVars
     \/ SlotStep
     \/ \E p \in Tabs : PollStep(p) \/ CompareCurrent(p)

KeysOnly ==
  /\ UNCHANGED <<grantVars, loginVars>>
  /\ \/ \E w \in Callers : CallerStep(w)
     \/ \E s \in Slugs : ActivateAccount(s)

LEMMA Kinds ==
  ASSUME crew \in Crews, Next
  PROVE  /\ crew' \in Crews
         /\ \/ LoginsOnly \/ KeysOnly
            \/ \E p \in Tabs : SaveLogin(p)
            \/ \E n \in Logins : Import(n)
<1>1. crew.tabs \subseteq Tabs /\ crew.callers \subseteq Callers
  BY DeskAssumption
<1>2. crew' = crew
  BY DEF Next
<1>3. CASE (Decide \/ Revoke) /\ UNCHANGED <<loginVars, keyVars>>
  BY <1>2, <1>3 DEF LoginsOnly
<1>4. CASE SlotStep /\ UNCHANGED keyVars
  BY <1>2, <1>4 DEF LoginsOnly
<1>5. CASE \E p \in crew.tabs : PollStep(p) /\ UNCHANGED keyVars
  BY <1>1, <1>2, <1>5 DEF LoginsOnly
<1>6. CASE \E p \in crew.tabs : CompareCurrent(p)
  BY <1>1, <1>2, <1>6 DEF LoginsOnly, CompareCurrent
<1>7. CASE \E p \in crew.tabs : SaveLogin(p)
  BY <1>1, <1>2, <1>7
<1>8. CASE \E w \in crew.callers : CallerStep(w) /\ UNCHANGED <<grantVars, loginVars>>
  BY <1>1, <1>2, <1>8 DEF KeysOnly
<1>9. CASE (\E s \in Slugs : ActivateAccount(s)) /\ UNCHANGED <<grantVars, loginVars>>
  BY <1>2, <1>9 DEF KeysOnly
<1>10. CASE \E n \in Logins : Import(n)
  BY <1>2, <1>10
<1> QED
  BY <1>3, <1>4, <1>5, <1>6, <1>7, <1>8, <1>9, <1>10 DEF Next

(* What the steps do to the grants and to the login flow.  A tab that      *)
(* compares or saves goes on or returns.                                   *)
GoOn(p) ==
  /\ poll[p] \in {"compare", "save"}
  /\ \/ Return(p)
     \/ poll[p] = "compare" /\ poll' = [poll EXCEPT ![p] = "save"]
        /\ UNCHANGED <<ticket, answer>>
  /\ UNCHANGED <<grantVars, slotVars, exchanges, lapses>>

Brought(n) ==
  /\ request[n] = "none"
  /\ request' = [request EXCEPT ![n] = "completed"]
  /\ \E u \in Users : who' = [who EXCEPT ![n] = u]
  /\ known' \in {known, known \cup {n}}
  /\ UNCHANGED <<revoked, loginVars>>

LEMMA LoginCases ==
  ASSUME crew \in Crews, Next
  PROVE  \/ UNCHANGED <<grantVars, loginVars>>
         \/ (Decide \/ Revoke) /\ UNCHANGED loginVars
         \/ SlotStep
         \/ \E p \in Tabs : PollStep(p)
         \/ \E p \in Tabs : GoOn(p)
         \/ \E n \in Logins : Brought(n)
<1>1. ASSUME NEW p \in Tabs, CompareCurrent(p)
      PROVE  GoOn(p)
  BY <1>1 DEF CompareCurrent, GoOn
<1>2. ASSUME NEW p \in Tabs, SaveLogin(p)
      PROVE  GoOn(p)
  BY <1>2 DEF SaveLogin, GoOn
<1>3. ASSUME NEW n \in Logins, Import(n)
      PROVE  Brought(n)
  BY <1>3 DEF Import, Brought
<1>4. CASE LoginsOnly
  BY <1>1, <1>4 DEF LoginsOnly
<1>5. CASE KeysOnly
  BY <1>5 DEF KeysOnly
<1> QED
  BY <1>2, <1>3, <1>4, <1>5, Kinds

-----------------------------------------------------------------------------
(* The login flow.                                                         *)

LEMMA LoginStart == Init => LoginInv
<1> SUFFICES ASSUME Init
             PROVE  LoginInv
  OBVIOUS
<1>1. GrantsTypeOK
  BY DEF Init, GrantsInit, GrantsTypeOK, Statuses
<1>2. LoginTypeOK
  BY DeskAssumption DEF Init, LoginInit, LoginTypeOK, Slot, Free, Stages,
    Statuses, NoLogin, Logins
<1>3. OneTaker
  <2>1. Past = {}
    BY DEF Init, GrantsInit, Past
  <2> QED
    BY <2>1 DEF Init, GrantsInit, LoginInit, OneTaker, Busy, CodeUsedOnce, Slot,
      Free, NoLogin, Logins
<1> QED
  BY <1>1, <1>2, <1>3 DEF LoginInv

LEMMA GrantsTyped ==
  ASSUME LoginInv, crew \in Crews, Next
  PROVE  GrantsTypeOK'
<1> USE DEF GrantsTypeOK, Statuses
<1>1. CASE UNCHANGED <<grantVars, loginVars>>
  BY <1>1 DEF LoginInv, grantVars
<1>2. CASE Decide
  BY <1>2 DEF LoginInv, Decide
<1>3. CASE Revoke
  BY <1>3 DEF LoginInv, Revoke
<1>4. CASE SlotStep
  BY <1>4 DEF LoginInv, SlotStep, Initiate, Start, Cancel, Tick, grantVars
<1>5. ASSUME NEW p \in Tabs, Exchange(p)
      PROVE  GrantsTypeOK'
  <2>1. ticket[p] \in Logins
    BY <1>5 DEF LoginInv, LoginTypeOK, Exchange
  <2> QED
    BY <1>5, <2>1 DEF LoginInv, Exchange
<1>6. ASSUME NEW p \in Tabs, PollStep(p), ~Exchange(p)
      PROVE  GrantsTypeOK'
  BY <1>6 DEF LoginInv, PollStep, PollExpired, Poll, Reply, NoReply, SlowDown,
    StillPending, Refused, Authorized, grantVars
<1>7. ASSUME NEW p \in Tabs, GoOn(p)
      PROVE  GrantsTypeOK'
  BY <1>7 DEF LoginInv, GoOn, grantVars
<1>8. ASSUME NEW n \in Logins, Brought(n)
      PROVE  GrantsTypeOK'
  BY <1>8 DEF LoginInv, Brought
<1> QED
  BY <1>1, <1>2, <1>3, <1>4, <1>5, <1>6, <1>7, <1>8, LoginCases

(* The slot and the logins that are to start.                              *)
SlotTypeOK ==
  /\ starting \subseteq Logins
  /\ slot \in [nr : Logins \cup {NoLogin}, since : 0 .. Ever,
               interval : 0 .. Ever]
  /\ slot.nr \notin starting /\ (slot.nr = NoLogin => slot = Free)

(* The requests of the tabs.                                               *)
TabsTypeOK ==
  /\ poll \in [Tabs -> Stages]
  /\ ticket \in [Tabs -> Logins \cup {NoLogin}]
  /\ answer \in [Tabs -> Statuses \cup {"slow_down"}]
  /\ \A p \in Tabs : poll[p] = "idle" <=> ticket[p] = NoLogin

LEMMA LoginTypes ==
  LoginTypeOK <=> /\ SlotTypeOK /\ TabsTypeOK
                  /\ exchanges \in [Logins -> Nat]
                  /\ lapses \in 0 .. MaxLapses
  BY DEF LoginTypeOK, SlotTypeOK, TabsTypeOK

LEMMA FreeSlot ==
  /\ Free \in [nr : Logins \cup {NoLogin}, since : 0 .. Ever,
               interval : 0 .. Ever]
  /\ Free.nr = NoLogin /\ NoLogin \notin Logins
  /\ \A n \in Logins, interval \in Intervals :
       /\ Slot(n, interval) \in [nr : Logins \cup {NoLogin}, since : 0 .. Ever,
                                 interval : 0 .. Ever]
       /\ Slot(n, interval).nr = n
  BY DeskAssumption DEF Free, Slot, NoLogin, Logins

LEMMA SlotTyped ==
  ASSUME LoginInv, crew \in Crews, Next
  PROVE  SlotTypeOK'
<1> USE DEF SlotTypeOK
<1>1. SlotTypeOK /\ LoginTypeOK /\ OneTaker
  BY LoginTypes DEF LoginInv
<1>2. CASE UNCHANGED slotVars
  BY <1>1, <1>2 DEF slotVars, Free, Slot
<1>3. CASE UNCHANGED starting /\ slot' = Free
  BY <1>1, <1>3, FreeSlot DEF Free, Slot
<1>4. ASSUME NEW n \in Logins, Initiate(n)
      PROVE  SlotTypeOK'
  BY <1>1, <1>4 DEF Initiate, OneTaker, Free, Slot
<1>5. ASSUME NEW n \in Logins, Start(n)
      PROVE  SlotTypeOK'
  BY <1>1, <1>5, FreeSlot DEF Start
<1>6. ASSUME Tick
      PROVE  SlotTypeOK'
  BY <1>1, <1>6, DeskAssumption DEF Tick
<1>7. ASSUME NEW p \in Tabs, Poll(p)
      PROVE  SlotTypeOK'
  BY <1>1, <1>7, DeskAssumption DEF Poll
<1>8. ASSUME NEW p \in Tabs, SlowDown(p)
      PROVE  SlotTypeOK'
  <2>1. CASE slot.nr # ticket[p]
    BY <1>8, <2>1, <1>2 DEF SlowDown, slotVars
  <2>2. CASE slot.nr = ticket[p]
    <3>1. slot.nr # NoLogin
      BY <1>1, <1>8, <2>2 DEF LoginTypeOK, SlowDown, Told
    <3>2. slot.interval \in 0 .. Ever
      BY <1>1
    <3>3. (IF slot.interval + Backoff > Longest THEN Longest
           ELSE slot.interval + Backoff) \in 0 .. Ever
      BY <3>2, DeskAssumption
    <3> QED
      BY <1>1, <1>8, <2>2, <3>1, <3>3 DEF SlowDown
  <2> QED
    BY <2>1, <2>2
<1>9. ASSUME NEW p \in Tabs, Refused(p) \/ Authorized(p) \/ PollExpired(p)
      PROVE  SlotTypeOK'
  BY <1>2, <1>3, <1>9
    DEF Refused, Authorized, PollExpired, ClearSlotIfCurrent, slotVars
<1>10. ASSUME NEW p \in Tabs,
              Reply(p) \/ NoReply(p) \/ StillPending(p) \/ Exchange(p) \/ GoOn(p)
       PROVE  SlotTypeOK'
  BY <1>2, <1>10 DEF Reply, NoReply, StillPending, Exchange, GoOn
<1>11. ASSUME NEW n \in Logins, Brought(n)
       PROVE  SlotTypeOK'
  BY <1>2, <1>11 DEF Brought, loginVars
<1>12. CASE Cancel
  BY <1>3, <1>12 DEF Cancel
<1>13. CASE UNCHANGED loginVars
  BY <1>2, <1>13 DEF loginVars
<1> QED
  BY <1>4, <1>5, <1>6, <1>7, <1>8, <1>9, <1>10, <1>11, <1>12, <1>13, LoginCases
    DEF SlotStep, PollStep

LEMMA TabsTyped ==
  ASSUME LoginInv, crew \in Crews, Next
  PROVE  TabsTypeOK'
<1> USE DEF TabsTypeOK, Stages, Statuses
<1>1. TabsTypeOK /\ SlotTypeOK /\ GrantsTypeOK
  BY LoginTypes DEF LoginInv
<1>2. CASE UNCHANGED pollVars
  BY <1>1, <1>2 DEF pollVars
<1>3. ASSUME NEW p \in Tabs, Return(p)
      PROVE  TabsTypeOK'
  BY <1>1, <1>3 DEF Return
<1>4. ASSUME NEW p \in Tabs, Poll(p)
      PROVE  TabsTypeOK'
  <2>1. slot.nr \in Logins
    BY <1>1, <1>4 DEF Poll, SlotTypeOK
  <2> QED
    BY <1>1, <1>4, <2>1, FreeSlot DEF Poll, Greeting
<1>5. ASSUME NEW p \in Tabs, Reply(p)
      PROVE  TabsTypeOK'
  <2>1. ticket[p] \in Logins
    BY <1>1, <1>5 DEF Reply
  <2> QED
    BY <1>1, <1>5, <2>1 DEF Reply, GrantsTypeOK
<1>6. ASSUME NEW p \in Tabs, NEW stage \in {"exchange", "compare", "save"},
             poll[p] # "idle", poll' = [poll EXCEPT ![p] = stage],
             UNCHANGED <<ticket, answer>>
      PROVE  TabsTypeOK'
  BY <1>1, <1>6
<1>7. ASSUME NEW p \in Tabs, PollStep(p)
      PROVE  TabsTypeOK'
  <2>1. CASE PollExpired(p)
    BY <1>2, <2>1 DEF PollExpired
  <2>2. CASE Poll(p) \/ Reply(p)
    BY <1>4, <1>5, <2>2
  <2>3. CASE NoReply(p) \/ SlowDown(p) \/ StillPending(p) \/ Refused(p)
    BY <1>3, <2>3 DEF NoReply, SlowDown, StillPending, Refused
  <2>4. CASE Authorized(p)
    BY <1>3, <1>6, <2>4 DEF Authorized, Told
  <2>5. CASE Exchange(p)
    BY <1>3, <1>6, <2>5 DEF Exchange
  <2> QED
    BY <1>7, <2>1, <2>2, <2>3, <2>4, <2>5 DEF PollStep
<1>8. ASSUME NEW p \in Tabs, GoOn(p)
      PROVE  TabsTypeOK'
  BY <1>3, <1>6, <1>8 DEF GoOn
<1>9. CASE SlotStep
  BY <1>2, <1>9 DEF SlotStep, Initiate, Start, Cancel, Tick
<1>10. ASSUME NEW n \in Logins, Brought(n)
       PROVE  TabsTypeOK'
  BY <1>2, <1>10 DEF Brought, loginVars
<1>11. CASE UNCHANGED loginVars
  BY <1>2, <1>11 DEF loginVars
<1> QED
  BY <1>7, <1>8, <1>9, <1>10, <1>11, LoginCases

LEMMA CountsTyped ==
  ASSUME LoginInv, crew \in Crews, Next
  PROVE  exchanges' \in [Logins -> Nat] /\ lapses' \in 0 .. MaxLapses
<1>1. LoginTypeOK
  BY DEF LoginInv
<1>2. CASE UNCHANGED loginVars
  BY <1>1, <1>2 DEF LoginTypeOK, loginVars
<1>3. CASE SlotStep
  BY <1>1, <1>3, DeskAssumption
    DEF LoginTypeOK, SlotStep, Initiate, Start, Cancel, Tick
<1>4. ASSUME NEW p \in Tabs, PollStep(p)
      PROVE  exchanges' \in [Logins -> Nat] /\ lapses' \in 0 .. MaxLapses
  BY <1>1, <1>4, DeskAssumption
    DEF LoginTypeOK, PollStep, PollExpired, Poll, Reply, NoReply, SlowDown,
      StillPending, Refused, Authorized, Exchange
<1>5. ASSUME NEW p \in Tabs, GoOn(p)
      PROVE  exchanges' \in [Logins -> Nat] /\ lapses' \in 0 .. MaxLapses
  BY <1>1, <1>5 DEF LoginTypeOK, GoOn
<1>6. ASSUME NEW n \in Logins, Brought(n)
      PROVE  exchanges' \in [Logins -> Nat] /\ lapses' \in 0 .. MaxLapses
  BY <1>1, <1>2, <1>6 DEF Brought
<1> QED
  BY <1>2, <1>3, <1>4, <1>5, <1>6, LoginCases

LEMMA LoginTyped ==
  ASSUME LoginInv, crew \in Crews, Next
  PROVE  LoginTypeOK'
  BY SlotTyped, TabsTyped, CountsTyped DEF LoginTypeOK, SlotTypeOK, TabsTypeOK

(* Every part of OneTaker, for the state after the step.                   *)
LEMMA OneTakerKept ==
  ASSUME LoginInv, crew \in Crews, Next
  PROVE  OneTaker'
<1> USE DEF OneTaker, Busy, CodeUsedOnce
<1>1. OneTaker /\ LoginTypeOK /\ GrantsTypeOK /\ NoLogin \notin Logins
  BY FreeSlot DEF LoginInv
<1>2. LoginTypeOK' /\ GrantsTypeOK'
  BY LoginTyped, GrantsTyped
<1>3. ASSUME UNCHANGED <<starting, slot, poll, ticket, exchanges>>,
             \A n \in Logins : request'[n] = "none" => request[n] = "none",
             Past' = Past
      PROVE  OneTaker'
  BY <1>1, <1>3
<1>4. CASE UNCHANGED <<grantVars, loginVars>>
  BY <1>1, <1>4 DEF grantVars, loginVars, slotVars, pollVars, Past
<1>5. CASE (Decide \/ Revoke) /\ UNCHANGED loginVars
  BY <1>1, <1>3, <1>5
    DEF Decide, Revoke, loginVars, slotVars, pollVars, Past, GrantsTypeOK
<1>6. ASSUME NEW n \in Logins, Brought(n)
      PROVE  OneTaker'
  BY <1>1, <1>3, <1>6
    DEF Brought, loginVars, slotVars, pollVars, Past, GrantsTypeOK
<1>7. ASSUME NEW p \in Tabs, GoOn(p)
      PROVE  OneTaker'
  BY <1>1, <1>2, <1>7, FreeSlot
    DEF GoOn, Return, Past, grantVars, slotVars, LoginTypeOK
<1>8. CASE Cancel \/ Tick
  BY <1>1, <1>2, <1>8, FreeSlot
    DEF Cancel, Tick, Past, grantVars, pollVars, LoginTypeOK, NoLogin
<1>9. ASSUME NEW n \in Logins, Initiate(n)
      PROVE  OneTaker'
  BY <1>1, <1>2, <1>9
    DEF Initiate, Past, pollVars, LoginTypeOK, GrantsTypeOK
<1>10. ASSUME NEW n \in Logins, Start(n)
      PROVE  OneTaker'
  BY <1>1, <1>2, <1>10, FreeSlot
    DEF Start, Past, grantVars, pollVars, LoginTypeOK
<1>11. ASSUME NEW p \in Tabs, PollExpired(p) \/ Reply(p) \/ NoReply(p) \/ SlowDown(p)
                               \/ StillPending(p) \/ Refused(p)
       PROVE  OneTaker'
  BY <1>1, <1>2, <1>11, FreeSlot
    DEF PollExpired, Reply, NoReply, SlowDown, StillPending, Refused, Told, Return,
      ClearSlotIfCurrent, Past, grantVars, slotVars, pollVars, LoginTypeOK
<1>12. ASSUME NEW p \in Tabs, Poll(p)
       PROVE  OneTaker'
  BY <1>1, <1>2, <1>12 DEF Poll, Past, grantVars, LoginTypeOK
<1>13. ASSUME NEW p \in Tabs, Authorized(p)
       PROVE  OneTaker'
  BY <1>1, <1>2, <1>13, FreeSlot
    DEF Authorized, Told, Return, Past, grantVars, LoginTypeOK
<1>14. ASSUME NEW p \in Tabs, Exchange(p)
       PROVE  OneTaker'
  BY <1>1, <1>2, <1>14
    DEF Exchange, Return, Past, slotVars, LoginTypeOK, GrantsTypeOK
<1> QED
  BY <1>4, <1>5, <1>6, <1>7, <1>8, <1>9, <1>10, <1>11, <1>12, <1>13, <1>14,
    LoginCases DEF SlotStep, PollStep

DeskInv == crew \in Crews /\ LoginInv

LEMMA DeskInductive == Init => DeskInv
  BY LoginStart DEF Init, DeskInv

LEMMA DeskKept == DeskInv /\ [Next]_vars => DeskInv'
<1> SUFFICES ASSUME DeskInv, [Next]_vars
             PROVE  DeskInv'
  OBVIOUS
<1>1. CASE Next
  BY <1>1, Kinds, GrantsTyped, LoginTyped, OneTakerKept DEF DeskInv, LoginInv
<1>2. CASE UNCHANGED vars
  BY <1>2 DEF DeskInv, LoginInv, vars, grantVars, loginVars, slotVars, pollVars,
    GrantsTypeOK, LoginTypeOK, OneTaker, Busy, CodeUsedOnce, Past
<1> QED
  BY <1>1, <1>2

LEMMA DeskAlways == Spec => []DeskInv
  BY DeskInductive, DeskKept, PTL DEF Spec

(* However many tabs poll, in whatever order the upstream's answers come,  *)
(* and whatever the logins, cancellations and imports beside them: no      *)
(* authorization code is exchanged twice (login_flow.go:221-222).          *)
THEOREM CodesUsedOnce == Spec => []CodeUsedOnce
<1>1. DeskInv => CodeUsedOnce
  BY DEF DeskInv, LoginInv, OneTaker
<1> QED
  BY <1>1, DeskAlways, PTL

(* A login leaves the slot because it expired or was cancelled, or because *)
(* the tab whose request was about it was told that it is over: no late    *)
(* answer about an older login ends it (login_flow.go:254-255).            *)
THEOREM LoginsEndThemselves == Spec => OwnEnd
<1> DEFINE Ended == \/ lapses' # lapses
                    \/ \E p \in Tabs :
                         /\ ticket[p] = slot.nr /\ poll[p] = "told"
                         /\ poll'[p] # "told"
                         /\ answer[p] \in {"authorized", "refused", "completed"}
<1>1. ASSUME DeskInv, Next, slot # Free, slot' = Free
      PROVE  Ended
  <2>1. LoginTypeOK
    BY <1>1 DEF DeskInv, LoginInv
  <2>2. slot.nr # NoLogin /\ slot' # slot
    BY <1>1, <2>1 DEF LoginTypeOK
  <2>3. CASE SlotStep
    <3>1. ASSUME NEW n \in Logins, Start(n)
          PROVE  FALSE
      BY <1>1, <3>1, FreeSlot DEF Start
    <3>2. CASE Tick
      <4>1. slot'.nr = slot.nr
        BY <2>1, <3>2 DEF Tick, LoginTypeOK
      <4> QED
        BY <1>1, <2>2, <4>1, FreeSlot
    <3>3. CASE Cancel
      BY <2>1, <3>3, DeskAssumption DEF Cancel, LoginTypeOK
    <3> QED
      BY <2>2, <2>3, <3>1, <3>2, <3>3 DEF SlotStep, Initiate
  <2>4. ASSUME NEW p \in Tabs, PollStep(p)
        PROVE  Ended
    <3>1. CASE PollExpired(p)
      BY <2>1, <3>1, DeskAssumption DEF PollExpired, LoginTypeOK
    <3>2. CASE Poll(p) \/ SlowDown(p)
      <4>1. slot'.nr = slot.nr
        BY <2>1, <3>2 DEF Poll, SlowDown, LoginTypeOK
      <4> QED
        BY <1>1, <2>2, <4>1, FreeSlot
    <3>3. CASE Refused(p) \/ Authorized(p)
      <4>1. /\ slot.nr = ticket[p] /\ poll[p] = "told"
            /\ answer[p] \in {"authorized", "refused", "completed"}
        BY <2>2, <3>3 DEF Refused, Authorized, Told, ClearSlotIfCurrent
      <4>2. poll'[p] # "told"
        BY <2>1, <3>3 DEF Refused, Authorized, Return, LoginTypeOK
      <4> QED
        BY <4>1, <4>2
    <3> QED
      BY <2>2, <2>4, <3>1, <3>2, <3>3
        DEF PollStep, Reply, NoReply, StillPending, Exchange, slotVars
  <2> QED
    BY <1>1, <2>2, <2>3, <2>4, LoginCases
      DEF DeskInv, GoOn, Brought, loginVars, slotVars
<1> DEFINE A == slot # Free /\ slot' = Free =>
                 \/ lapses' # lapses
                 \/ \E p \in Tabs :
                      /\ ticket[p] = slot.nr /\ poll[p] = "told" /\ poll'[p] # "told"
                      /\ answer[p] \in {"authorized", "refused", "completed"}
<1>2. DeskInv /\ [Next]_vars => [A]_loginVars
  BY <1>1 DEF vars
<1> QED
  BY <1>2, DeskAlways, PTL DEF Spec, OwnEnd

-----------------------------------------------------------------------------
(* Account names and account states.                                       *)

(* What the file of s has, or somebody may yet write into it.              *)
Going(n, s) ==
  \/ file[s] = n
  \/ \E w \in Callers : at[w] = "fetch" /\ name[w] = s /\ held[w] = n

(* Grant n is not anybody's account yet.                                   *)
Unsaved(n) == n \notin Past \/ \E p \in Tabs : Busy(p) /\ ticket[p] = n

(* A grant goes by one name, and by none before it is saved.               *)
OneName ==
  /\ \A n \in Logins, s, t \in Slugs : Going(n, s) /\ Going(n, t) => s = t
  /\ \A n \in Logins, s \in Slugs : Going(n, s) => ~ Unsaved(n)

(* The loop of SaveAccountAutoSlug ends: with as many names as logins, one *)
(* is free for a grant that has none.                                      *)
LEMMA NameFound ==
  ASSUME KeysTypeOK, OneName, NEW n \in Logins, Unsaved(n), NEW user
  PROVE  /\ AutoSlug(user) \in Slugs
         /\ file[AutoSlug(user)] = NoLogin \/ SameUser(user, file[AutoSlug(user)])
<1> DEFINE Fits == {s \in Slugs : file[s] = NoLogin \/ SameUser(user, file[s])}
<1>1. MaxSlug \in Nat /\ MaxLogins \in Nat /\ MaxSlug >= MaxLogins
  BY DeskAssumption
<1>2. \E s \in Slugs : file[s] = NoLogin
  <2> SUFFICES ASSUME \A s \in Slugs : file[s] # NoLogin
               PROVE  FALSE
    OBVIOUS
  <2>1. file \in [Slugs -> Logins \ {n}]
    BY DEF KeysTypeOK, OneName, Going
  <2>2. /\ IsFiniteSet(Logins) /\ Cardinality(Logins) = MaxLogins
        /\ IsFiniteSet(Slugs) /\ Cardinality(Slugs) = MaxSlug
    <3>1. 1 \in Int /\ MaxLogins \in Int /\ MaxSlug \in Int
      BY <1>1
    <3>2. IsFiniteSet(1 .. MaxLogins) /\ IsFiniteSet(1 .. MaxSlug)
      BY <3>1, FS_Interval
    <3>3. Cardinality(1 .. MaxLogins) = MaxLogins
      BY <1>1, <3>1, FS_Interval
    <3>4. Cardinality(1 .. MaxSlug) = MaxSlug
      BY <1>1, <3>1, FS_Interval
    <3> QED
      BY <3>2, <3>3, <3>4 DEF Logins, Slugs
  <2>3. IsFiniteSet(Logins \ {n}) /\ Cardinality(Logins \ {n}) = MaxLogins - 1
    BY <2>2, FS_RemoveElement
  <2>4. \E s, t \in Slugs : s # t /\ file[s] = file[t]
    <3>1. Cardinality(Logins \ {n}) < Cardinality(Slugs)
      BY <1>1, <2>2, <2>3
    <3> QED
      BY <2>1, <2>2, <2>3, <3>1, FS_PigeonHole
  <2> QED
    BY <2>1, <2>4 DEF OneName, Going
<1>3. PICK m \in Fits : \A s \in Fits : m <= s
  <2>1. Fits \in SUBSET Nat /\ Fits # {}
    BY <1>1, <1>2 DEF Slugs
  <2> QED
    BY <2>1, LeastNatural
<1>4. \A t \in 1 .. m - 1 : file[t] # NoLogin /\ ~ SameUser(user, file[t])
  BY <1>1, <1>3 DEF Slugs
<1> QED
  BY <1>3, <1>4 DEF AutoSlug

(* syncPool: a state that is in the pool stays, a new one is new, and no   *)
(* two accounts have the same.                                             *)
LEMMA SyncPoolIs ==
  ASSUME made \in Nat, pool \in [Slugs -> 0 .. made],
         \A s, t \in Slugs : pool[s] = pool[t] => s = t \/ pool[s] = NoState,
         NEW list \in SUBSET Slugs, SyncPool(list)
  PROVE  /\ made' \in 0 .. MaxStates /\ made <= made'
         /\ pool' \in [Slugs -> 0 .. made']
         /\ \A s, t \in Slugs :
              pool'[s] = pool'[t] => s = t \/ pool'[s] = NoState
         /\ \A s \in Slugs :
              /\ s \notin list => pool'[s] = NoState
              /\ s \in list /\ pool[s] # NoState => pool'[s] = pool[s]
              /\ s \in list /\ pool[s] = NoState => pool'[s] > made
<1> DEFINE lacking == {s \in list : pool[s] = NoState}
           Upto(s) == {t \in lacking : t <= s}
<1>1. MaxSlug \in Nat /\ MaxStates \in Nat
  BY DeskAssumption
<1>2. IsFiniteSet(Slugs) /\ lacking \in SUBSET Slugs /\ Slugs \subseteq Nat
  <2>1. 1 \in Int /\ MaxSlug \in Int
    BY <1>1
  <2>2. IsFiniteSet(Slugs)
    BY <2>1, FS_Interval DEF Slugs
  <2>3. Slugs \subseteq Nat
    BY <1>1 DEF Slugs
  <2> QED
    BY <2>2, <2>3
<1>3. IsFiniteSet(lacking) /\ Cardinality(lacking) \in Nat
  BY <1>2, FS_Subset, FS_CardinalityType
<1>4. ASSUME NEW s \in Slugs
      PROVE  /\ IsFiniteSet(Upto(s)) /\ Cardinality(Upto(s)) \in Nat
             /\ Cardinality(Upto(s)) <= Cardinality(lacking)
  <2>1. Upto(s) \in SUBSET lacking
    OBVIOUS
  <2> QED
    BY <1>3, <2>1, FS_Subset, FS_CardinalityType
<1>5. ASSUME NEW s \in lacking
      PROVE  Cardinality(Upto(s)) > 0
  <2>1. s \in Upto(s)
    BY <1>2
  <2>2. Cardinality(Upto(s)) # 0
    BY <1>2, <1>4, <2>1, FS_EmptySet
  <2>3. s \in Slugs
    OBVIOUS
  <2>4. Cardinality(Upto(s)) \in Nat
    BY <1>4, <2>3
  <2> QED
    BY <2>2, <2>4
<1>6. ASSUME NEW s \in lacking, NEW t \in lacking, s < t
      PROVE  Cardinality(Upto(s)) < Cardinality(Upto(t))
  <2>0. s \in Nat /\ t \in Nat /\ s \in Slugs /\ t \in Slugs
    BY <1>2
  <2>1. Upto(s) \in SUBSET Upto(t) /\ t \in Upto(t) /\ t \notin Upto(s)
    <3>1. \A r \in lacking : r \in Nat
      BY <1>2
    <3>2. \A r \in lacking : r <= s => r <= t
      BY <1>6, <2>0, <3>1
    <3>3. t <= t /\ ~ (t <= s)
      BY <1>6, <2>0
    <3> QED
      BY <3>2, <3>3
  <2>2. Cardinality(Upto(s)) <= Cardinality(Upto(t)) /\ Cardinality(Upto(s)) # Cardinality(Upto(t))
    BY <1>2, <1>4, <2>1, FS_Subset
  <2>3. Cardinality(Upto(s)) \in Nat /\ Cardinality(Upto(t)) \in Nat
    BY <1>4, <2>0
  <2> QED
    BY <2>2, <2>3
<1>7. /\ made' = made + Cardinality(lacking)
      /\ made + Cardinality(lacking) <= MaxStates
      /\ pool' = [s \in Slugs |->
           IF s \notin list THEN NoState
           ELSE IF s \in lacking THEN made + Cardinality(Upto(s))
           ELSE pool[s]]
  BY DEF SyncPool
<1> HIDE DEF lacking, Upto
<1>8. ASSUME NEW s \in lacking, NEW t \in lacking,
             Cardinality(Upto(s)) = Cardinality(Upto(t))
      PROVE  s = t
  BY <1>2, <1>4, <1>6, <1>8
<1>9. lacking = {s \in list : pool[s] = NoState}
  BY DEF lacking
<1>10. made' \in 0 .. MaxStates /\ made <= made'
  BY <1>1, <1>3, <1>7
<1>11. ASSUME NEW s \in Slugs
       PROVE  /\ pool'[s] \in 0 .. made'
              /\ s \notin list => pool'[s] = NoState
              /\ s \in list /\ pool[s] # NoState => pool'[s] = pool[s]
              /\ s \in list /\ pool[s] = NoState =>
                   pool'[s] > made /\ pool'[s] = made + Cardinality(Upto(s))
  BY <1>3, <1>4, <1>5, <1>7, <1>9 DEF NoState
<1>12. ASSUME NEW s \in Slugs, NEW t \in Slugs, pool'[s] = pool'[t], pool'[s] # NoState
       PROVE  s = t
  <2>1. s \in list /\ t \in list
    BY <1>11, <1>12
  <2>2. CASE s \in lacking /\ t \in lacking
    BY <1>2, <1>4, <1>8, <1>9, <1>11, <1>12, <2>1, <2>2
  <2>3. CASE s \notin lacking /\ t \notin lacking
    BY <1>9, <1>11, <1>12, <2>1, <2>3
  <2>4. pool[s] \in 0 .. made /\ pool[t] \in 0 .. made
    OBVIOUS
  <2> QED
    BY <1>9, <1>11, <1>12, <2>1, <2>2, <2>3, <2>4
<1> QED
  BY <1>7, <1>10, <1>11, <1>12

-----------------------------------------------------------------------------
(* The keys.                                                               *)

(* Places of a goroutine that has no account.                              *)
Resting == {"idle", "cascade", "list", "sync"}

PlacesOK ==
  \A w \in Callers :
    /\ at[w] \in Resting <=> name[w] = NoSlug
    /\ at[w] \in Resting <=> state[w] = NoState
    /\ at[w] \in Resting => held[w] = NoLogin
    /\ Flies(w) \/ at[w] = "adopt" => held[w] # NoLogin

(* A state that is not made has nothing, one that is in the pool is of one *)
(* account for everybody.                                                  *)
StatesOK ==
  /\ \A i \in States : i > made => key[i] = NoLogin /\ failed[i] = NoLogin
  /\ \A w \in Callers, s \in Slugs :
       pool[s] # NoState /\ state[w] = pool[s] => name[w] = s

(* Every grant that is kept anywhere has its user for good.                *)
GrantsKept ==
  /\ file \in [Slugs -> Past \cup {NoLogin}]
  /\ signed \in [Slugs -> Past \cup {NoLogin}]
  /\ keyFile \in [Slugs -> Past \cup {NoLogin}]
  /\ held \in [Callers -> Past \cup {NoLogin}]
  /\ key \in [States -> Past \cup {NoLogin}]
  /\ overtaken \in [Slugs -> SUBSET Past]
  /\ late \in [Slugs -> SUBSET Past]
  /\ \A s \in Slugs : late[s] \subseteq overtaken[s]

(* What may be kept under the name s: its user's, or overtaken.            *)
Own(n, s) ==
  \/ n = NoLogin
  \/ n \in overtaken[s]
  \/ signed[s] # NoLogin /\ who[n] = who[signed[s]]

(* The credentials of s, and what was refused: the last login's.           *)
Fresh(n, s) == n = NoLogin \/ n = signed[s] \/ n \in late[s]

Owned ==
  /\ \A s \in Slugs : file[s] = NoLogin <=> signed[s] = NoLogin
  /\ \A s \in Slugs : Fresh(file[s], s) /\ Own(keyFile[s], s)
  /\ \A w \in Callers : at[w] \notin Resting => Own(held[w], name[w])
  /\ \A w \in Callers : Flies(w) => Fresh(held[w], name[w])
  /\ \A s \in Slugs :
       file[s] # NoLogin /\ pool[s] # NoState =>
         Own(key[pool[s]], s) /\ Fresh(failed[pool[s]], s)

KeyInv == KeysTypeOK /\ PlacesOK /\ StatesOK /\ GrantsKept /\ OneName /\ Owned

FullInv == DeskInv /\ KeyInv

-----------------------------------------------------------------------------
(* Grants that are settled stay so, and a saved one is never unsaved.      *)
LEMMA GrantStep ==
  ASSUME DeskInv, Next
  PROVE  /\ Past \subseteq Past'
         /\ \A n \in Past : who'[n] = who[n]
         /\ \A n \in Logins : Unsaved(n)' => Unsaved(n)
<1>1. /\ OneTaker /\ LoginTypeOK /\ GrantsTypeOK /\ NoLogin \notin Logins
      /\ crew \in Crews
  BY FreeSlot DEF DeskInv, LoginInv
<1> DEFINE G == /\ Past \subseteq Past'
                /\ \A n \in Past : who'[n] = who[n]
                /\ \A n \in Logins : Unsaved(n)' => Unsaved(n)
<1>2. ASSUME UNCHANGED grantVars, UNCHANGED <<poll, ticket>>
      PROVE  G
  BY <1>2 DEF Past, Unsaved, Busy, grantVars
<1>3. CASE (Decide \/ Revoke) /\ UNCHANGED loginVars
  BY <1>1, <1>3
    DEF Decide, Revoke, loginVars, pollVars, Past, Unsaved, Busy, GrantsTypeOK
<1>4. ASSUME NEW n \in Logins, Brought(n)
      PROVE  G
  BY <1>1, <1>4 DEF Brought, loginVars, pollVars, Past, Unsaved, Busy, GrantsTypeOK
<1>5. ASSUME NEW n \in Logins, Initiate(n)
      PROVE  G
  BY <1>1, <1>5 DEF Initiate, pollVars, Past, Unsaved, Busy, GrantsTypeOK
<1>6. ASSUME NEW n \in Logins, Start(n) \/ Cancel \/ Tick
      PROVE  G
  BY <1>2, <1>6 DEF Start, Cancel, Tick, pollVars
<1>7. ASSUME NEW p \in Tabs, GoOn(p)
      PROVE  G
  BY <1>1, <1>7
    DEF GoOn, Return, grantVars, Past, Unsaved, Busy, LoginTypeOK
<1>8. ASSUME NEW p \in Tabs, Exchange(p)
      PROVE  G
  BY <1>1, <1>8
    DEF Exchange, Return, Past, Unsaved, Busy, LoginTypeOK, GrantsTypeOK
<1>9. ASSUME NEW p \in Tabs, Authorized(p)
      PROVE  G
  BY <1>1, <1>9
    DEF Authorized, Return, Past, Unsaved, Busy, LoginTypeOK, OneTaker, grantVars
<1>10. ASSUME NEW p \in Tabs, PollStep(p), ~ Exchange(p), ~ Authorized(p)
       PROVE  G
  BY <1>1, <1>10
    DEF PollStep, PollExpired, Poll, Reply, NoReply, SlowDown, StillPending,
      Refused, Return, Past, Unsaved, Busy, LoginTypeOK, grantVars, pollVars
<1>11. CASE UNCHANGED <<grantVars, loginVars>>
  BY <1>2, <1>11 DEF loginVars, pollVars
<1>12. CASE Cancel \/ Tick
  BY <1>2, <1>12 DEF Cancel, Tick, pollVars
<1> QED
  BY <1>1, <1>3, <1>4, <1>5, <1>6, <1>7, <1>8, <1>9, <1>10, <1>11, <1>12,
    LoginCases DEF SlotStep

(* A grant that is saved: it was not, and it has a name now that was free  *)
(* or its own user's.                                                      *)
Saved(n, s) ==
  /\ Unsaved(n) /\ n \in Past' /\ ~ Unsaved(n)'
  /\ file[s] = NoLogin \/ who[file[s]] = who'[n]
  /\ file' = [file EXCEPT ![s] = n]
  /\ current' = s
  /\ signed' = [signed EXCEPT ![s] = n]
  /\ OnAccountSaved(s)
  /\ overtaken' = [overtaken EXCEPT ![s] = @ \cup UnderWay(s) \cup Left(s)]
  /\ late' = [late EXCEPT ![s] = InFlight(s)]
  /\ UNCHANGED <<keyFile, key, flight, callerVars>>

LEMMA SaveLoginIs ==
  ASSUME FullInv, NEW p \in Tabs, SaveLogin(p)
  PROVE  \E n \in Logins, s \in Slugs : Saved(n, s)
<1>1. /\ OneTaker /\ LoginTypeOK /\ GrantsTypeOK /\ KeysTypeOK /\ OneName
      /\ NoLogin \notin Logins
  BY FreeSlot DEF FullInv, DeskInv, LoginInv, KeyInv
<1>0. PICK n \in Logins : n = ticket[p]
  BY <1>1 DEF SaveLogin, OneTaker, Past
<1> DEFINE s == AutoSlug(UserID(n))
<1>2. n \in Past /\ Unsaved(n)
  BY <1>0, <1>1 DEF SaveLogin, OneTaker, Unsaved, Busy
<1>3. s \in Slugs /\ (file[s] = NoLogin \/ SameUser(UserID(n), file[s]))
  BY <1>1, <1>2, NameFound
<1>4. file[s] = NoLogin \/ who[file[s]] = who[n]
  BY <1>3 DEF SameUser, UserID
<1>5. Past' = Past /\ who' = who
  BY DEF SaveLogin, Past, grantVars
<1>6. ~ Unsaved(n)'
  BY <1>0, <1>1, <1>2, <1>5 DEF SaveLogin, Return, Unsaved, Busy, OneTaker, LoginTypeOK
<1>7. SaveAccountAutoSlug(n, UserID(n))
  BY <1>0 DEF SaveLogin
<1>8. Saved(n, s)
  BY <1>2, <1>4, <1>5, <1>6, <1>7 DEF Saved, SaveAccountAutoSlug
<1> QED
  BY <1>2, <1>3, <1>8

LEMMA ImportIs ==
  ASSUME FullInv, NEW n \in Logins, Import(n)
  PROVE  \E s \in Slugs : Saved(n, s)
<1>1. /\ OneTaker /\ LoginTypeOK /\ GrantsTypeOK /\ KeysTypeOK /\ OneName
  BY DEF FullInv, DeskInv, LoginInv, KeyInv
<1>2. /\ Unsaved(n) /\ n \in Past' /\ ~ Unsaved(n)'
      /\ \A m \in Past : who'[m] = who[m]
  BY <1>1 DEF Import, Past, Unsaved, Busy, OneTaker, loginVars, pollVars, GrantsTypeOK
<1>3. PICK u \in Users :
        /\ who' = [who EXCEPT ![n] = u]
        /\ \/ known' = known \cup {n} /\ SaveAccountAutoSlug(n, u)
           \/ UNCHANGED known /\ SaveAccountAutoSlug(n, NoUser)
  BY DEF Import
<1>4. PICK user \in {u, NoUser} : SaveAccountAutoSlug(n, user)
  BY <1>3
<1> DEFINE s == AutoSlug(user)
<1>5. s \in Slugs /\ (file[s] = NoLogin \/ SameUser(user, file[s]))
  BY <1>1, <1>2, NameFound
<1>6. file[s] = NoLogin \/ who[file[s]] = who'[n]
  BY <1>1, <1>3, <1>5 DEF SameUser, UserID, GrantsTypeOK
<1>7. Saved(n, s)
  BY <1>2, <1>4, <1>6 DEF Saved, SaveAccountAutoSlug
<1> QED
  BY <1>5, <1>7

LEMMA KeyCases ==
  ASSUME FullInv, Next
  PROVE  \/ UNCHANGED keyVars
         \/ \E w \in Callers : CallerStep(w)
         \/ \E s \in Slugs : ActivateAccount(s)
         \/ \E n \in Logins, s \in Slugs : Saved(n, s)
<1>1. crew \in Crews
  BY DEF FullInv, DeskInv
<1> QED
  BY <1>1, Kinds, SaveLoginIs, ImportIs DEF LoginsOnly, KeysOnly

-----------------------------------------------------------------------------
(* Types.                                                                  *)

(* Whatever reloads the pool.                                              *)
PoolOK ==
  /\ made \in 0 .. MaxStates /\ pool \in [Slugs -> 0 .. made]
  /\ \A s, t \in Slugs : pool[s] = pool[t] => s = t \/ pool[s] = NoState

FlightOK ==
  /\ \A i \in States : flight[i] <=> \E w \in Callers : Flies(w) /\ state[w] = i
  /\ \A v, w \in Callers : Flies(v) /\ Flies(w) /\ state[v] = state[w] => v = w
  /\ \A w \in Callers : at[w] = "wait" => flight[state[w]]

FilesTypeOK ==
  /\ file \in [Slugs -> Logins \cup {NoLogin}]
  /\ current \in Slugs \cup {NoSlug}
  /\ keyFile \in [Slugs -> Logins \cup {NoLogin}]

CallersTypeOK ==
  /\ key \in [States -> Logins \cup {NoLogin}]
  /\ failed \in [States -> Logins \cup {NoLogin}]
  /\ flight \in [States -> BOOLEAN]
  /\ at \in [Callers -> Places]
  /\ name \in [Callers -> Slugs \cup {NoSlug}]
  /\ state \in [Callers -> 0 .. made]
  /\ held \in [Callers -> Logins \cup {NoLogin}]
  /\ seen \in [Callers -> SUBSET Slugs]

LEMMA KeysTypes == KeysTypeOK <=> FilesTypeOK /\ PoolOK /\ CallersTypeOK /\ FlightOK
  BY DEF KeysTypeOK, FilesTypeOK, PoolOK, CallersTypeOK, FlightOK

LEMMA KeysStart == Init => KeyInv
<1> SUFFICES ASSUME Init
             PROVE  KeyInv
  OBVIOUS
<1>1. MaxSlug \in Nat /\ MaxStates \in Nat /\ MaxLogins \in Nat
  BY DeskAssumption
<1>2. KeysTypeOK
  BY <1>1 DEF Init, KeysInit, KeysTypeOK, Flies, Places, NoLogin, NoState, NoSlug,
    Slugs, States
<1>3. PlacesOK /\ StatesOK /\ GrantsKept /\ Owned
  BY DEF Init, KeysInit, PlacesOK, StatesOK, GrantsKept, Owned, Own, Fresh, Flies,
    Resting
<1>4. OneName
  BY <1>1 DEF Init, KeysInit, OneName, Going, NoLogin, Logins
<1> QED
  BY <1>2, <1>3, <1>4 DEF KeyInv

(* How the pool changes.                                                   *)
PoolStep ==
  /\ made' \in 0 .. MaxStates /\ made <= made'
  /\ pool' \in [Slugs -> 0 .. made']
  /\ \A s, t \in Slugs : pool'[s] = pool'[t] => s = t \/ pool'[s] = NoState
  /\ \A s \in Slugs : pool'[s] \in {NoState, pool[s]} \/ pool'[s] > made

LEMMA PoolSteps ==
  ASSUME FullInv, Next
  PROVE  /\ PoolStep
         /\ \A n \in Logins, s \in Slugs :
              Saved(n, s) => pool'[s] # NoState
                             /\ (pool'[s] = pool[s] \/ pool'[s] > made)
<1>1. KeysTypeOK /\ made \in Nat /\ made <= MaxStates /\ MaxStates \in Nat
  BY DeskAssumption DEF FullInv, KeyInv, KeysTypeOK
<1>2. ASSUME UNCHANGED poolVars
      PROVE  PoolStep
  BY <1>1, <1>2 DEF KeysTypeOK, PoolStep, poolVars
<1>3. ASSUME NEW list \in SUBSET Slugs, SyncPool(list)
      PROVE  /\ PoolStep
             /\ \A s \in list : pool'[s] # NoState
                                /\ (pool'[s] = pool[s] \/ pool'[s] > made)
  <2> DEFINE I == /\ made' \in 0 .. MaxStates /\ made <= made'
                  /\ pool' \in [Slugs -> 0 .. made']
                  /\ \A s, t \in Slugs :
                       pool'[s] = pool'[t] => s = t \/ pool'[s] = NoState
                  /\ \A s \in Slugs :
                       /\ s \notin list => pool'[s] = NoState
                       /\ s \in list /\ pool[s] # NoState => pool'[s] = pool[s]
                       /\ s \in list /\ pool[s] = NoState => pool'[s] > made
  <2>1. I
    BY <1>1, <1>3, SyncPoolIs DEF KeysTypeOK
  <2> QED
    BY <1>1, <2>1 DEF PoolStep, NoState
<1>4. ASSUME NEW w \in Callers, ApplyList(w)
      PROVE  PoolStep
  BY <1>1, <1>3, <1>4 DEF ApplyList, KeysTypeOK
<1>5. ASSUME NEW w \in Callers, CallerStep(w), ~ ApplyList(w), ~ Cascade(w)
      PROVE  UNCHANGED poolVars
  BY <1>5 DEF CallerStep, ListSlugs, Take, RemoveAccount, GetKey, AdoptKey, PassGate,
    RenewKey, PersistCreds, FetchAPIKey, KeepKey, WriteKeyFile, RefuseKey
<1>6. ASSUME NEW s \in Slugs, ActivateAccount(s)
      PROVE  PoolStep
  BY <1>3, <1>6 DEF ActivateAccount, Activate, Registered
<1>7. ASSUME NEW n \in Logins, NEW s \in Slugs, Saved(n, s)
      PROVE  /\ PoolStep /\ pool'[s] # NoState
             /\ (pool'[s] = pool[s] \/ pool'[s] > made)
  <2>1. SyncPool(Registered \cup {s})
    BY <1>7 DEF Saved, OnAccountSaved
  <2> QED
    BY <1>3, <2>1 DEF Registered
<1>8. ASSUME UNCHANGED keyVars
      PROVE  PoolStep
  BY <1>2, <1>8 DEF keyVars
<1>9. ASSUME NEW w \in Callers, Cascade(w)
      PROVE  PoolStep
  BY <1>2, <1>3, <1>9 DEF Cascade, Activate, Registered
<1> QED
  BY <1>2, <1>4, <1>5, <1>6, <1>7, <1>8, <1>9, KeyCases

LEMMA FilesTyped ==
  ASSUME FullInv, Next
  PROVE  FilesTypeOK'
<1> USE DEF FilesTypeOK
<1>1. FilesTypeOK /\ KeysTypeOK
  BY KeysTypes DEF FullInv, KeyInv
<1>2. CASE UNCHANGED <<file, current, keyFile>>
  BY <1>1, <1>2
<1>3. ASSUME NEW w \in Callers, NEW s \in Slugs, RemoveAccount(w, s)
      PROVE  FilesTypeOK'
  <2> DEFINE rest == Registered \ {s}
  <2>1. ASSUME rest # {}
        PROVE  First(rest) \in Slugs
    <3>1. rest \in SUBSET Nat /\ rest \subseteq Slugs
      BY DeskAssumption DEF Registered, Slugs
    <3>2. PICK m \in rest : \A u \in rest : m <= u
      BY <2>1, <3>1, LeastNatural
    <3> QED
      BY <3>1, <3>2 DEF First
  <2> QED
    BY <1>1, <1>3, <2>1 DEF RemoveAccount, RemoveFiles
<1>4. ASSUME NEW w \in Callers, PersistCreds(w)
      PROVE  FilesTypeOK'
  BY <1>1, <1>4 DEF PersistCreds, KeysTypeOK
<1>5. ASSUME NEW w \in Callers, WriteKeyFile(w)
      PROVE  FilesTypeOK'
  BY <1>1, <1>5 DEF WriteKeyFile, KeysTypeOK
<1>6. ASSUME NEW w \in Callers, CallerStep(w), ~ PersistCreds(w), ~ WriteKeyFile(w),
             ~ Cascade(w), ~ \E s \in Slugs : RemoveAccount(w, s)
      PROVE  UNCHANGED <<file, current, keyFile>>
  BY <1>6 DEF CallerStep, ListSlugs, ApplyList, Take, GetKey, AdoptKey, PassGate,
    RenewKey, FetchAPIKey, KeepKey, RefuseKey, registryVars
<1>7. ASSUME NEW s \in Slugs, ActivateAccount(s)
      PROVE  FilesTypeOK'
  BY <1>1, <1>7 DEF ActivateAccount, Activate
<1>8. ASSUME NEW n \in Logins, NEW s \in Slugs, Saved(n, s)
      PROVE  FilesTypeOK'
  BY <1>1, <1>8 DEF Saved
<1>9. CASE UNCHANGED keyVars
  BY <1>2, <1>9 DEF keyVars, registryVars
<1>10. ASSUME NEW w \in Callers, Cascade(w)
       PROVE  FilesTypeOK'
  BY <1>1, <1>10 DEF Cascade, Activate, Registered
<1> QED
  BY <1>2, <1>3, <1>4, <1>5, <1>6, <1>7, <1>8, <1>9, <1>10, KeyCases

(* Goroutines that return have no account any more, the others stay where  *)
(* they are.                                                               *)
LEMMA Finished ==
  ASSUME KeysTypeOK, NEW W \in SUBSET Callers, Finish(W)
  PROVE  /\ at' \in [Callers -> Places]
         /\ name' \in [Callers -> Slugs \cup {NoSlug}]
         /\ state' \in [Callers -> 0 .. made]
         /\ held' \in [Callers -> Logins \cup {NoLogin}]
         /\ \A w \in W : /\ at'[w] = "idle" /\ name'[w] = NoSlug
                         /\ state'[w] = NoState /\ held'[w] = NoLogin
         /\ \A w \in Callers \ W : /\ at'[w] = at[w] /\ name'[w] = name[w]
                                   /\ state'[w] = state[w] /\ held'[w] = held[w]
<1>1. at' \in [Callers -> Places]
  BY DEF Finish, KeysTypeOK, Places
<1>2. made \in Nat
  BY DeskAssumption DEF KeysTypeOK
<1>3. state' \in [Callers -> 0 .. made]
  BY <1>2 DEF Finish, KeysTypeOK, NoState
<1>4. /\ name' \in [Callers -> Slugs \cup {NoSlug}]
      /\ held' \in [Callers -> Logins \cup {NoLogin}]
  BY DEF Finish, KeysTypeOK
<1> QED
  BY <1>1, <1>3, <1>4 DEF Finish

(* Every step of a goroutine is its own, but for those that wait for the   *)
(* flight that lands.                                                      *)
Joined(w) == {w} \cup {v \in Callers : at[v] = "wait" /\ state[v] = state[w]}

LEMMA CallersTyped ==
  ASSUME FullInv, Next
  PROVE  CallersTypeOK'
<1> USE DEF CallersTypeOK
<1>1. /\ KeysTypeOK /\ CallersTypeOK /\ PlacesOK
      /\ made \in Nat /\ made' \in Nat /\ made <= made' /\ 0 .. made \subseteq 0 .. made'
  <2>1. KeysTypeOK /\ CallersTypeOK /\ PlacesOK
    BY KeysTypes DEF FullInv, KeyInv
  <2>2. made \in Nat /\ made' \in Nat /\ made <= made'
    BY <2>1, PoolSteps, DeskAssumption DEF PoolStep, KeysTypeOK
  <2> QED
    BY <2>1, <2>2
<1>2. ASSUME UNCHANGED <<key, failed, flight, callerVars>>
      PROVE  CallersTypeOK'
  BY <1>1, <1>2 DEF callerVars
<1>3. ASSUME NEW W \in SUBSET Callers, Finish(W),
             key' \in [States -> Logins \cup {NoLogin}],
             failed' \in [States -> Logins \cup {NoLogin}],
             flight' \in [States -> BOOLEAN]
      PROVE  CallersTypeOK'
  <2>1. seen' \in [Callers -> SUBSET Slugs]
    BY <1>1, <1>3 DEF Finish
  <2>2. /\ at' \in [Callers -> Places]
        /\ name' \in [Callers -> Slugs \cup {NoSlug}]
        /\ state' \in [Callers -> 0 .. made]
        /\ held' \in [Callers -> Logins \cup {NoLogin}]
    BY <1>1, <1>3, Finished
  <2>3. state' \in [Callers -> 0 .. made']
    BY <1>1, <2>2
  <2> QED
    BY <1>3, <2>1, <2>2, <2>3
<1>4. ASSUME NEW w \in Callers, NEW place \in Places, GoTo(w, place),
             key' \in [States -> Logins \cup {NoLogin}],
             failed' \in [States -> Logins \cup {NoLogin}],
             flight' \in [States -> BOOLEAN]
      PROVE  CallersTypeOK'
  BY <1>1, <1>4 DEF GoTo
<1>5. ASSUME NEW w \in Callers, ListSlugs(w) \/ ApplyList(w) \/ Cascade(w)
      PROVE  CallersTypeOK'
  BY <1>1, <1>5 DEF ListSlugs, ApplyList, Cascade, stateVars, Registered, Places
<1>6. ASSUME NEW w \in Callers, NEW s \in Slugs, Take(w, s) \/ RemoveAccount(w, s)
      PROVE  CallersTypeOK'
  <2>1. CASE Take(w, s)
    BY <1>1, <2>1 DEF Take, stateVars, poolVars, Places, KeysTypeOK
  <2>2. CASE RemoveAccount(w, s)
    <3>1. at' \in [Callers -> Places]
      BY <1>1, <2>2 DEF RemoveAccount, Places
    <3>2. UNCHANGED <<key, failed, flight, name, state, held, made>>
      BY <2>2 DEF RemoveAccount, stateVars, poolVars
    <3>3. seen' \in [Callers -> SUBSET Slugs]
      BY <1>1, <2>2 DEF RemoveAccount, Registered
    <3> QED
      BY <1>1, <3>1, <3>2, <3>3
  <2> QED
    BY <1>6, <2>1, <2>2
<1>7. ASSUME NEW w \in Callers, GetKey(w)
      PROVE  CallersTypeOK'
  <2>1. name[w] \in Slugs
    BY <1>1, <1>7 DEF GetKey, PlacesOK, Resting
  <2>2. /\ key' \in [States -> Logins \cup {NoLogin}]
        /\ failed' \in [States -> Logins \cup {NoLogin}]
        /\ flight' \in [States -> BOOLEAN]
    BY <1>1, <1>7 DEF GetKey, stateVars
  <2>3. CASE Finish({w})
    BY <1>3, <2>2, <2>3
  <2>4. CASE GoTo(w, "gate")
    BY <1>4, <2>2, <2>4 DEF Places
  <2>5. CASE /\ at' = [at EXCEPT ![w] = "adopt"]
             /\ held' = [held EXCEPT ![w] = keyFile[name[w]]]
             /\ UNCHANGED <<name, state, seen>>
    <3>1. keyFile[name[w]] \in Logins \cup {NoLogin}
      BY <1>1, <2>1 DEF KeysTypeOK
    <3>2. /\ at' \in [Callers -> Places]
          /\ held' \in [Callers -> Logins \cup {NoLogin}]
      BY <1>1, <2>5, <3>1 DEF Places
    <3> QED
      BY <1>1, <2>2, <2>5, <3>2
  <2> QED
    BY <1>7, <2>3, <2>4, <2>5 DEF GetKey
<1>8. ASSUME NEW w \in Callers, AdoptKey(w)
      PROVE  CallersTypeOK'
  <2>1. key' \in [States -> Logins \cup {NoLogin}]
    BY <1>1, <1>8 DEF AdoptKey
  <2> QED
    BY <1>1, <1>3, <1>8, <2>1 DEF AdoptKey
<1>9. ASSUME NEW w \in Callers, PassGate(w) \/ FetchAPIKey(w)
      PROVE  CallersTypeOK'
  BY <1>1, <1>3, <1>4, <1>9 DEF PassGate, FetchAPIKey, stateVars, Places
<1>10. ASSUME NEW w \in Callers, RenewKey(w)
       PROVE  CallersTypeOK'
  <2>1. name[w] \in Slugs
    BY <1>1, <1>10 DEF RenewKey, PlacesOK, Resting
  <2>2. file[name[w]] \in Logins \cup {NoLogin}
    BY <1>1, <2>1 DEF KeysTypeOK
  <2>3. CASE GoTo(w, "wait") /\ UNCHANGED flight
    BY <1>1, <1>4, <1>10, <2>3 DEF RenewKey, Places
  <2>4. CASE Finish({w}) /\ UNCHANGED flight
    BY <1>1, <1>3, <1>10, <2>4 DEF RenewKey
  <2>5. CASE /\ flight' = [flight EXCEPT ![state[w]] = TRUE]
             /\ at' = [at EXCEPT ![w] = "fetch"]
             /\ held' = [held EXCEPT ![w] = file[name[w]]]
             /\ UNCHANGED <<name, state, seen>>
    BY <1>1, <1>10, <2>2, <2>5 DEF RenewKey, Places
  <2> QED
    BY <1>10, <2>3, <2>4, <2>5 DEF RenewKey
<1>11. ASSUME NEW w \in Callers, PersistCreds(w)
       PROVE  CallersTypeOK'
  BY <1>1, <1>11 DEF PersistCreds, callerVars
<1>12. ASSUME NEW w \in Callers, KeepKey(w)
       PROVE  CallersTypeOK'
  BY <1>1, <1>12 DEF KeepKey, GoTo, Places
<1>13. ASSUME NEW w \in Callers, WriteKeyFile(w) \/ RefuseKey(w)
       PROVE  CallersTypeOK'
  <2>1. Joined(w) \in SUBSET Callers /\ Finish(Joined(w))
    BY <1>13 DEF WriteKeyFile, RefuseKey, Land, Joined
  <2>2. /\ key' \in [States -> Logins \cup {NoLogin}]
        /\ failed' \in [States -> Logins \cup {NoLogin}]
        /\ flight' \in [States -> BOOLEAN]
    BY <1>1, <1>13 DEF WriteKeyFile, RefuseKey, Land
  <2> QED
    BY <1>3, <2>1, <2>2
<1>14. ASSUME NEW s \in Slugs, ActivateAccount(s)
       PROVE  CallersTypeOK'
  BY <1>2, <1>14 DEF ActivateAccount, stateVars
<1>15. ASSUME NEW n \in Logins, NEW s \in Slugs, Saved(n, s)
       PROVE  CallersTypeOK'
  BY <1>1, <1>15 DEF Saved, OnAccountSaved, callerVars
<1>16. CASE UNCHANGED keyVars
  BY <1>2, <1>16 DEF keyVars, stateVars
<1> QED
  BY <1>5, <1>6, <1>7, <1>8, <1>9, <1>10, <1>11, <1>12, <1>13, <1>14, <1>15, <1>16,
    KeyCases DEF CallerStep

-----------------------------------------------------------------------------
(* What a step does to a goroutine, its own or another's step.             *)

Stays(v) ==
  at'[v] = at[v] /\ name'[v] = name[v] /\ state'[v] = state[v] /\ held'[v] = held[v]

Rests(v) ==
  at'[v] \in Resting /\ name'[v] = NoSlug /\ state'[v] = NoState /\ held'[v] = NoLogin

Takes(v) ==
  /\ at[v] = "idle" /\ at'[v] \in {"get", "renew"}
  /\ name'[v] \in Slugs /\ pool[name'[v]] # NoState
  /\ state'[v] = pool[name'[v]] /\ held'[v] = held[v]

GoesOn(v) ==
  /\ at[v] \notin Resting /\ at'[v] \notin Resting \cup {"adopt", "fetch"}
  /\ at'[v] \in {"keep", "write", "refuse"} => Flies(v)
  /\ name'[v] = name[v] /\ state'[v] = state[v] /\ held'[v] = held[v]

Adopts(v) ==
  /\ at[v] = "get" /\ at'[v] = "adopt"
  /\ name'[v] = name[v] /\ state'[v] = state[v]
  /\ held'[v] = keyFile[name[v]] /\ held'[v] # NoLogin

Fetches(v) ==
  /\ at[v] = "renew" /\ at'[v] = "fetch"
  /\ name'[v] = name[v] /\ state'[v] = state[v]
  /\ held'[v] = file[name[v]] /\ held'[v] # NoLogin

Moves(v) ==
  Stays(v) \/ Rests(v) \/ Takes(v) \/ GoesOn(v) \/ Adopts(v) \/ Fetches(v)

LEMMA EachMoves ==
  ASSUME FullInv, Next
  PROVE  \A v \in Callers : Moves(v)
<1> DEFINE G == \A v \in Callers : Moves(v)
<1> USE DEF Moves
<1>1. KeysTypeOK /\ PlacesOK
  BY DEF FullInv, KeyInv
<1>2. ASSUME UNCHANGED callerVars
      PROVE  G
  BY <1>2 DEF callerVars, Stays
<1>3. ASSUME NEW W \in SUBSET Callers, Finish(W)
      PROVE  G
  BY <1>1, <1>3, Finished DEF Stays, Rests, Resting
<1>4. ASSUME NEW w \in Callers, NEW place \in {"gate", "renew", "wait"},
             at[w] \in {"get", "gate", "renew"}, GoTo(w, place)
      PROVE  G
  BY <1>1, <1>4 DEF GoTo, Stays, GoesOn, Resting, KeysTypeOK
<1>5. ASSUME NEW w \in Callers, NEW place \in {"keep", "write", "refuse"}, Flies(w),
             GoTo(w, place)
      PROVE  G
  BY <1>1, <1>5 DEF GoTo, Stays, GoesOn, Resting, Flies, KeysTypeOK
<1>6. ASSUME NEW w \in Callers, ListSlugs(w) \/ ApplyList(w) \/ Cascade(w)
      PROVE  G
  BY <1>1, <1>6 DEF ListSlugs, ApplyList, Cascade, Stays, Rests, Resting, PlacesOK, KeysTypeOK
<1>7. ASSUME NEW w \in Callers, NEW s \in Slugs, RemoveAccount(w, s)
      PROVE  G
  BY <1>1, <1>7 DEF RemoveAccount, Stays, Rests, Resting, PlacesOK, KeysTypeOK
<1>8. ASSUME NEW w \in Callers, NEW s \in Slugs, Take(w, s)
      PROVE  G
  BY <1>1, <1>8 DEF Take, Stays, Takes, KeysTypeOK
<1>9. ASSUME NEW w \in Callers, GetKey(w)
      PROVE  G
  <2>1. CASE Finish({w}) \/ GoTo(w, "gate")
    BY <1>3, <1>4, <1>9, <2>1 DEF GetKey
  <2>2. CASE /\ keyFile[name[w]] # NoLogin
             /\ at' = [at EXCEPT ![w] = "adopt"]
             /\ held' = [held EXCEPT ![w] = keyFile[name[w]]]
             /\ UNCHANGED <<name, state, seen>>
    BY <1>1, <1>9, <2>2 DEF GetKey, Adopts, Stays, KeysTypeOK
  <2> QED
    BY <1>9, <2>1, <2>2 DEF GetKey
<1>10. ASSUME NEW w \in Callers, RenewKey(w)
       PROVE  G
  <2>1. CASE Finish({w}) \/ GoTo(w, "wait")
    BY <1>3, <1>4, <1>10, <2>1 DEF RenewKey
  <2>2. CASE /\ file[name[w]] # NoLogin
             /\ at' = [at EXCEPT ![w] = "fetch"]
             /\ held' = [held EXCEPT ![w] = file[name[w]]]
             /\ UNCHANGED <<name, state, seen>>
    BY <1>1, <1>10, <2>2 DEF RenewKey, Fetches, Stays, KeysTypeOK
  <2> QED
    BY <1>10, <2>1, <2>2 DEF RenewKey
<1>11. ASSUME NEW w \in Callers, PassGate(w)
       PROVE  G
  BY <1>3, <1>4, <1>11 DEF PassGate
<1>12. ASSUME NEW w \in Callers, FetchAPIKey(w) \/ KeepKey(w)
       PROVE  G
  BY <1>5, <1>12 DEF FetchAPIKey, KeepKey, Flies
<1>13. ASSUME NEW w \in Callers, AdoptKey(w) \/ WriteKeyFile(w) \/ RefuseKey(w)
       PROVE  G
  BY <1>3, <1>13 DEF AdoptKey, WriteKeyFile, RefuseKey, Land
<1>14. ASSUME NEW w \in Callers, PersistCreds(w)
       PROVE  G
  BY <1>2, <1>14 DEF PersistCreds
<1>15. ASSUME NEW n \in Logins, NEW s \in Slugs, Saved(n, s)
       PROVE  G
  BY <1>2, <1>15 DEF Saved
<1>16. ASSUME NEW s \in Slugs, ActivateAccount(s)
       PROVE  G
  BY <1>2, <1>16 DEF ActivateAccount
<1>17. CASE UNCHANGED keyVars
  BY <1>2, <1>17 DEF keyVars
<1> QED
  BY <1>6, <1>7, <1>8, <1>9, <1>10, <1>11, <1>12, <1>13, <1>14, <1>15, <1>16, <1>17,
    KeyCases DEF CallerStep

LEMMA PlacesKept ==
  ASSUME FullInv, Next
  PROVE  PlacesOK'
<1>1. KeysTypeOK /\ PlacesOK
  BY DEF FullInv, KeyInv
<1> SUFFICES ASSUME NEW v \in Callers
             PROVE  /\ at'[v] \in Resting <=> name'[v] = NoSlug
                    /\ at'[v] \in Resting <=> state'[v] = NoState
                    /\ at'[v] \in Resting => held'[v] = NoLogin
                    /\ at'[v] \in {"fetch", "keep", "write", "refuse", "adopt"}
                         => held'[v] # NoLogin
  BY DEF PlacesOK, Flies
<1>2. CASE Stays(v)
  BY <1>1, <1>2 DEF PlacesOK, Stays, Flies
<1>3. CASE Rests(v)
  BY <1>3 DEF Rests, Resting
<1>4. CASE Takes(v)
  <2>1. NoSlug \notin Slugs
    BY DeskAssumption DEF Slugs, NoSlug
  <2> QED
    BY <1>1, <1>4, <2>1 DEF Takes, Resting
<1>5. CASE GoesOn(v)
  BY <1>1, <1>5 DEF GoesOn, PlacesOK, Resting
<1>6. CASE Adopts(v) \/ Fetches(v)
  BY <1>1, <1>6 DEF Adopts, Fetches, PlacesOK, Resting
<1> QED
  BY <1>2, <1>3, <1>4, <1>5, <1>6, EachMoves DEF Moves

(* Who is not resting has an account and its state.                        *)
LEMMA HasState ==
  ASSUME KeysTypeOK, PlacesOK
  PROVE  /\ made \in Nat
         /\ \A w \in Callers :
              at[w] \notin Resting => state[w] \in States /\ name[w] \in Slugs
<1>1. made \in Nat /\ MaxStates \in Nat /\ made <= MaxStates
  BY DeskAssumption DEF KeysTypeOK
<1> SUFFICES ASSUME NEW w \in Callers, at[w] \notin Resting
             PROVE  state[w] \in States /\ name[w] \in Slugs
  BY <1>1
<1>2. state[w] \in 0 .. made /\ state[w] # 0
  BY DEF KeysTypeOK, PlacesOK, NoState
<1>3. name[w] \in Slugs
  BY DEF KeysTypeOK, PlacesOK
<1> QED
  BY <1>1, <1>2, <1>3 DEF States

(* One goroutine has the flight of an account state; who waits for it is   *)
(* let go when it lands.                                                   *)
LEMMA FlightKept ==
  ASSUME FullInv, Next
  PROVE  FlightOK'
<1> USE DEF FlightOK, Flies
<1>1. KeysTypeOK /\ PlacesOK /\ FlightOK
  BY KeysTypes DEF FullInv, KeyInv
<1>2. ASSUME UNCHANGED flight,
             \A v \in Callers : /\ Flies(v)' <=> Flies(v)
                                /\ Flies(v) => state'[v] = state[v]
                                /\ at'[v] = "wait" => flight[state'[v]]
      PROVE  FlightOK'
  BY <1>1, <1>2
<1>3. ASSUME UNCHANGED <<flight, callerVars>>
      PROVE  FlightOK'
  BY <1>1, <1>3 DEF callerVars
<1>4. ASSUME NEW w \in Callers, Finish({w}), ~ Flies(w), UNCHANGED flight
      PROVE  FlightOK'
  BY <1>1, <1>2, <1>4, Finished
<1>5. ASSUME NEW w \in Callers, NEW place \in Places, GoTo(w, place), UNCHANGED flight,
             Flies(w) <=> place \in {"fetch", "keep", "write", "refuse"},
             place = "wait" => flight[state[w]]
      PROVE  FlightOK'
  BY <1>1, <1>2, <1>5 DEF GoTo, KeysTypeOK
<1>6. ASSUME NEW w \in Callers, ListSlugs(w) \/ ApplyList(w) \/ Cascade(w)
      PROVE  FlightOK'
  BY <1>1, <1>2, <1>6 DEF ListSlugs, ApplyList, Cascade, stateVars, KeysTypeOK
<1>7. ASSUME NEW w \in Callers, NEW s \in Slugs, RemoveAccount(w, s) \/ Take(w, s)
      PROVE  FlightOK'
  BY <1>1, <1>2, <1>7 DEF RemoveAccount, Take, stateVars, KeysTypeOK
<1>8. ASSUME NEW w \in Callers, GetKey(w)
      PROVE  FlightOK'
  <2>1. CASE Finish({w})
    BY <1>4, <1>8, <2>1 DEF GetKey, stateVars
  <2>2. CASE GoTo(w, "gate")
    BY <1>5, <1>8, <2>2 DEF GetKey, stateVars, Places
  <2>3. CASE at' = [at EXCEPT ![w] = "adopt"] /\ UNCHANGED state
    BY <1>1, <1>2, <1>8, <2>3 DEF GetKey, stateVars, KeysTypeOK
  <2> QED
    BY <1>8, <2>1, <2>2, <2>3 DEF GetKey
<1>9. ASSUME NEW w \in Callers, AdoptKey(w) \/ PassGate(w)
      PROVE  FlightOK'
  BY <1>4, <1>5, <1>9 DEF AdoptKey, PassGate, stateVars, Places
<1>10. ASSUME NEW w \in Callers, FetchAPIKey(w) \/ KeepKey(w)
       PROVE  FlightOK'
  BY <1>5, <1>10 DEF FetchAPIKey, KeepKey, stateVars, Places
<1>11. ASSUME NEW w \in Callers, PersistCreds(w)
       PROVE  FlightOK'
  BY <1>3, <1>11 DEF PersistCreds
<1>12. ASSUME NEW w \in Callers, RenewKey(w)
       PROVE  FlightOK'
  <2>1. CASE flight[state[w]] /\ GoTo(w, "wait") /\ UNCHANGED flight
    BY <1>5, <1>12, <2>1 DEF RenewKey, Places
  <2>2. CASE Finish({w}) /\ UNCHANGED flight
    BY <1>4, <1>12, <2>2 DEF RenewKey
  <2>3. CASE /\ ~ flight[state[w]]
             /\ flight' = [flight EXCEPT ![state[w]] = TRUE]
             /\ at' = [at EXCEPT ![w] = "fetch"]
             /\ UNCHANGED <<name, state, seen>>
    <3>1. state[w] \in States /\ made \in Nat
      BY <1>1, <1>12, HasState DEF RenewKey, Resting
    <3>2. \A v \in Callers : Flies(v) => state[v] # state[w]
      BY <1>1, <2>3, <3>1
    <3>3. \A v \in Callers \ {w} : at'[v] = at[v] /\ state'[v] = state[v]
      BY <1>1, <2>3 DEF KeysTypeOK
    <3>4. at'[w] = "fetch" /\ state'[w] = state[w]
      BY <1>1, <2>3 DEF KeysTypeOK
    <3>5. flight'[state[w]] /\ \A i \in States \ {state[w]} : flight'[i] = flight[i]
      BY <1>1, <2>3, <3>1 DEF KeysTypeOK
    <3>6. \A i \in States : flight'[i] <=> \E v \in Callers : Flies(v)' /\ state'[v] = i
      BY <1>1, <3>3, <3>4, <3>5
    <3>7. \A u, v \in Callers : Flies(u)' /\ Flies(v)' /\ state'[u] = state'[v] => u = v
      BY <1>1, <3>2, <3>3, <3>4
    <3>8. \A v \in Callers : at'[v] = "wait" => flight'[state'[v]]
      <4> SUFFICES ASSUME NEW v \in Callers, at'[v] = "wait"
                   PROVE  flight'[state'[v]]
        OBVIOUS
      <4>1. v # w /\ at[v] = "wait" /\ flight[state[v]] /\ state'[v] = state[v]
        BY <1>1, <3>3, <3>4
      <4>2. state[v] \in States
        BY <1>1, <4>1, HasState DEF Resting
      <4> QED
        BY <3>5, <4>1, <4>2
    <3> QED
      BY <3>6, <3>7, <3>8
  <2> QED
    BY <1>12, <2>1, <2>2, <2>3 DEF RenewKey
<1>13. ASSUME NEW w \in Callers, WriteKeyFile(w) \/ RefuseKey(w)
       PROVE  FlightOK'
  <2>1. /\ flight' = [flight EXCEPT ![state[w]] = FALSE]
        /\ Joined(w) \in SUBSET Callers /\ Finish(Joined(w)) /\ Flies(w)
    BY <1>13 DEF WriteKeyFile, RefuseKey, Land, Joined
  <2>2. /\ \A v \in Joined(w) : at'[v] = "idle"
        /\ \A v \in Callers \ Joined(w) : at'[v] = at[v] /\ state'[v] = state[v]
    BY <1>1, <2>1, Finished
  <2>3. state[w] \in States
    BY <1>1, <2>1, HasState DEF Resting
  <2>4. ~ flight'[state[w]] /\ \A i \in States \ {state[w]} : flight'[i] = flight[i]
    BY <1>1, <2>1, <2>3 DEF KeysTypeOK
  <2>5. \A v \in Callers : Flies(v)' <=> Flies(v) /\ v # w
    BY <1>1, <2>1, <2>2 DEF Joined
  <2>6. \A v \in Callers : Flies(v) /\ v # w => state'[v] = state[v] /\ state[v] # state[w]
    BY <1>1, <2>1, <2>2 DEF Joined
  <2>7. \A i \in States : flight'[i] <=> \E v \in Callers : Flies(v)' /\ state'[v] = i
    BY <1>1, <2>1, <2>4, <2>5, <2>6
  <2>8. \A u, v \in Callers : Flies(u)' /\ Flies(v)' /\ state'[u] = state'[v] => u = v
    BY <1>1, <2>5, <2>6
  <2>9. \A v \in Callers : at'[v] = "wait" => flight'[state'[v]]
    <3> SUFFICES ASSUME NEW v \in Callers, at'[v] = "wait"
                 PROVE  flight'[state'[v]]
      OBVIOUS
    <3>1. at[v] = "wait" /\ state'[v] = state[v] /\ state[v] # state[w]
      BY <2>2, <2>1 DEF Joined
    <3>2. state[v] \in States
      BY <1>1, <3>1, HasState DEF Resting
    <3> QED
      BY <1>1, <2>4, <3>1, <3>2
  <2> QED
    BY <2>7, <2>8, <2>9
<1>14. ASSUME NEW n \in Logins, NEW s \in Slugs, Saved(n, s)
       PROVE  FlightOK'
  BY <1>3, <1>14 DEF Saved
<1>15. ASSUME NEW s \in Slugs, ActivateAccount(s)
       PROVE  FlightOK'
  BY <1>3, <1>15 DEF ActivateAccount, stateVars
<1>16. CASE UNCHANGED keyVars
  BY <1>3, <1>16 DEF keyVars, stateVars
<1> QED
  BY <1>6, <1>7, <1>8, <1>9, <1>10, <1>11, <1>12, <1>13, <1>14, <1>15, <1>16,
    KeyCases DEF CallerStep

LEMMA KeysTyped ==
  ASSUME FullInv, Next
  PROVE  KeysTypeOK'
<1>1. FilesTypeOK' /\ CallersTypeOK' /\ FlightOK' /\ PoolStep
  BY FilesTyped, CallersTyped, FlightKept, PoolSteps
<1> QED
  BY <1>1 DEF PoolStep, KeysTypeOK, FilesTypeOK, CallersTypeOK, FlightOK, Flies

-----------------------------------------------------------------------------
(* What a step does to the files, the states and the history.              *)

dataVars == <<file, keyFile, signed, pastVars, key, failed>>

LEMMA DataCases ==
  ASSUME FullInv, Next
  PROVE  \/ UNCHANGED dataVars
         \/ \E w \in Callers : \/ AdoptKey(w) \/ PersistCreds(w) \/ KeepKey(w)
                               \/ WriteKeyFile(w) \/ RefuseKey(w)
         \/ \E w \in Callers, s \in Slugs : RemoveAccount(w, s)
         \/ \E n \in Logins, s \in Slugs : Saved(n, s)
<1> USE DEF dataVars
<1>1. ASSUME NEW w \in Callers,
             \/ ListSlugs(w) \/ ApplyList(w) \/ Cascade(w) \/ (\E s \in Slugs : Take(w, s))
             \/ GetKey(w) \/ PassGate(w) \/ RenewKey(w) \/ FetchAPIKey(w)
      PROVE  UNCHANGED dataVars
  BY <1>1 DEF ListSlugs, ApplyList, Cascade, Take, GetKey, PassGate, RenewKey,
    FetchAPIKey, registryVars, stateVars
<1>2. ASSUME NEW s \in Slugs, ActivateAccount(s)
      PROVE  UNCHANGED dataVars
  BY <1>2 DEF ActivateAccount, stateVars
<1>3. CASE UNCHANGED keyVars
  BY <1>3 DEF keyVars, registryVars, stateVars
<1> QED
  BY <1>1, <1>2, <1>3, KeyCases DEF CallerStep

LEMMA StatesKept ==
  ASSUME FullInv, Next
  PROVE  StatesOK'
<1>1. KeysTypeOK /\ PlacesOK /\ StatesOK /\ PoolOK
  BY KeysTypes DEF FullInv, KeyInv
<1>2. PoolStep /\ made \in Nat /\ made' \in Nat
  BY <1>1, HasState, PoolSteps, DeskAssumption DEF PoolStep
<1>3. ASSUME NEW i \in States, i > made'
      PROVE  key'[i] = NoLogin /\ failed'[i] = NoLogin
  <2>1. i > made /\ i \in Nat
    BY <1>2, <1>3, DeskAssumption DEF PoolStep, States
  <2>2. key[i] = NoLogin /\ failed[i] = NoLogin
    BY <1>1, <2>1 DEF StatesOK
  <2>3. CASE UNCHANGED dataVars
    BY <2>2, <2>3 DEF dataVars
  <2>4. ASSUME NEW w \in Callers,
               \/ AdoptKey(w) \/ PersistCreds(w) \/ KeepKey(w)
               \/ WriteKeyFile(w) \/ RefuseKey(w)
        PROVE  key'[i] = NoLogin /\ failed'[i] = NoLogin
    <3>1. i # state[w]
      BY <1>1, <1>2, <2>1 DEF KeysTypeOK
    <3> QED
      BY <1>1, <2>2, <2>4, <3>1
        DEF AdoptKey, PersistCreds, KeepKey, WriteKeyFile, RefuseKey, KeysTypeOK
  <2>5. ASSUME NEW w \in Callers, NEW s \in Slugs, RemoveAccount(w, s)
        PROVE  key'[i] = NoLogin /\ failed'[i] = NoLogin
    BY <2>2, <2>5 DEF RemoveAccount, stateVars
  <2>6. ASSUME NEW n \in Logins, NEW s \in Slugs, Saved(n, s)
        PROVE  key'[i] = NoLogin /\ failed'[i] = NoLogin
    BY <1>1, <2>2, <2>6 DEF Saved, OnAccountSaved, KeysTypeOK
  <2> QED
    BY <2>3, <2>4, <2>5, <2>6, DataCases
<1>4. ASSUME NEW v \in Callers, NEW s \in Slugs,
             pool'[s] # NoState, state'[v] = pool'[s]
      PROVE  name'[v] = s
  <2>1. ASSUME pool'[s] = pool[s], state[v] = state'[v]
        PROVE  name[v] = s
    BY <1>1, <1>4, <2>1 DEF StatesOK
  <2>2. ASSUME pool'[s] > made, state'[v] \in 0 .. made
        PROVE  FALSE
    BY <1>2, <1>4, <2>2
  <2>3. pool'[s] = pool[s] \/ pool'[s] > made
    BY <1>2, <1>4 DEF PoolStep
  <2>4. CASE Stays(v) \/ GoesOn(v) \/ Adopts(v) \/ Fetches(v)
    BY <1>1, <2>1, <2>2, <2>3, <2>4
      DEF Stays, GoesOn, Adopts, Fetches, KeysTypeOK
  <2>5. CASE Rests(v)
    BY <1>4, <2>5 DEF Rests
  <2>6. CASE Takes(v)
    BY <1>1, <1>4, <2>2, <2>3, <2>6 DEF Takes, PoolOK
  <2> QED
    BY <2>4, <2>5, <2>6, EachMoves DEF Moves
<1> QED
  BY <1>3, <1>4 DEF StatesOK

LEMMA GrantsStillKept ==
  ASSUME FullInv, Next
  PROVE  GrantsKept'
<1> USE DEF GrantsKept
<1>1. /\ KeysTypeOK /\ PlacesOK /\ StatesOK /\ GrantsKept /\ DeskInv
  BY DEF FullInv, KeyInv
<1>2. Past \subseteq Past'
  BY <1>1, GrantStep
<1>3. KeysTypeOK'
  BY KeysTyped
<1>4. held' \in [Callers -> Past' \cup {NoLogin}]
  <2> SUFFICES ASSUME NEW v \in Callers
               PROVE  held'[v] \in Past' \cup {NoLogin}
    BY <1>3 DEF KeysTypeOK
  <2>1. CASE Stays(v) \/ Rests(v) \/ Takes(v) \/ GoesOn(v)
    BY <1>1, <1>2, <2>1 DEF Stays, Rests, Takes, GoesOn
  <2>2. CASE Adopts(v) \/ Fetches(v)
    <3>1. name[v] \in Slugs
      BY <1>1, <2>2, HasState DEF Adopts, Fetches, Resting
    <3> QED
      BY <1>1, <1>2, <2>2, <3>1 DEF Adopts, Fetches
  <2> QED
    BY <2>1, <2>2, EachMoves DEF Moves
<1> DEFINE G == /\ file' \in [Slugs -> Past' \cup {NoLogin}]
                /\ signed' \in [Slugs -> Past' \cup {NoLogin}]
                /\ keyFile' \in [Slugs -> Past' \cup {NoLogin}]
                /\ key' \in [States -> Past' \cup {NoLogin}]
                /\ overtaken' \in [Slugs -> SUBSET Past']
                /\ late' \in [Slugs -> SUBSET Past']
                /\ \A s \in Slugs : late'[s] \subseteq overtaken'[s]
<1>5. CASE UNCHANGED dataVars
  <2>1. G
    BY <1>1, <1>2, <1>5 DEF dataVars, pastVars
  <2> QED
    BY <1>4, <2>1
<1>6. ASSUME NEW w \in Callers,
             \/ AdoptKey(w) \/ PersistCreds(w) \/ KeepKey(w)
             \/ WriteKeyFile(w) \/ RefuseKey(w)
      PROVE  GrantsKept'
  <2>1. held[w] \in Past' \cup {NoLogin} /\ UNCHANGED <<signed, overtaken, late>>
    BY <1>1, <1>2, <1>6
      DEF AdoptKey, PersistCreds, KeepKey, WriteKeyFile, RefuseKey, registryVars, pastVars
  <2>2. G
    BY <1>1, <1>2, <1>6, <2>1
      DEF AdoptKey, PersistCreds, KeepKey, WriteKeyFile, RefuseKey, registryVars
  <2> QED
    BY <1>4, <2>2
<1>7. \A s \in Slugs : UnderWay(s) \subseteq Past
  BY <1>1 DEF UnderWay
<1>10. \A s \in Slugs : InFlight(s) \subseteq UnderWay(s)
  BY <1>1 DEF InFlight, UnderWay, PlacesOK
<1>8. ASSUME NEW w \in Callers, NEW s \in Slugs, RemoveAccount(w, s)
      PROVE  GrantsKept'
  <2>1. G
    BY <1>1, <1>2, <1>7, <1>8, <1>10 DEF RemoveAccount, RemoveFiles, stateVars
  <2> QED
    BY <1>4, <2>1
<1>9. ASSUME NEW n \in Logins, NEW s \in Slugs, Saved(n, s)
      PROVE  GrantsKept'
  <2>1. Left(s) \subseteq Past
    <3>1. pool[s] # NoState => pool[s] \in States
      <4>1. made \in Nat /\ MaxStates \in Nat /\ made <= MaxStates /\ pool[s] \in 0 .. made
        BY <1>1, HasState, DeskAssumption DEF KeysTypeOK
      <4> QED
        BY <4>1 DEF States, NoState
    <3> QED
      BY <1>1, <3>1 DEF Left
  <2>2. G
    BY <1>1, <1>2, <1>7, <1>9, <1>10, <2>1 DEF Saved
  <2> QED
    BY <1>4, <2>2
<1> QED
  BY <1>5, <1>6, <1>8, <1>9, DataCases

-----------------------------------------------------------------------------
(* A grant has one name.                                                   *)

LEMMA GoingStep ==
  ASSUME FullInv, Next, NEW n \in Logins, NEW s \in Slugs, Going(n, s)'
  PROVE  Going(n, s) \/ Saved(n, s)
<1>1. KeysTypeOK /\ PlacesOK /\ NoLogin \notin Logins
  BY FreeSlot DEF FullInv, KeyInv
<1>2. CASE \E v \in Callers : at'[v] = "fetch" /\ name'[v] = s /\ held'[v] = n
  <2> PICK v \in Callers : at'[v] = "fetch" /\ name'[v] = s /\ held'[v] = n
    BY <1>2
  <2>1. Stays(v) \/ Fetches(v)
    BY EachMoves DEF Moves, Rests, Takes, GoesOn, Adopts, Resting
  <2> QED
    BY <2>1 DEF Stays, Fetches, Going
<1>3. CASE file'[s] = n
  <2>1. CASE UNCHANGED file
    BY <1>3, <2>1 DEF Going
  <2>2. ASSUME NEW w \in Callers, PersistCreds(w)
        PROVE  Going(n, s)
    BY <1>1, <1>3, <2>2 DEF PersistCreds, Going, KeysTypeOK
  <2>3. ASSUME NEW w \in Callers, NEW t \in Slugs, RemoveAccount(w, t)
        PROVE  Going(n, s)
    BY <1>1, <1>3, <2>3 DEF RemoveAccount, RemoveFiles, Going, KeysTypeOK
  <2>4. ASSUME NEW m \in Logins, NEW t \in Slugs, Saved(m, t)
        PROVE  Going(n, s) \/ Saved(n, s)
    <3>1. file'[s] = IF s = t THEN m ELSE file[s]
      BY <1>1, <2>4 DEF Saved, KeysTypeOK
    <3> QED
      BY <1>3, <2>4, <3>1 DEF Going
  <2> QED
    BY <2>1, <2>2, <2>3, <2>4, DataCases
      DEF dataVars, AdoptKey, KeepKey, WriteKeyFile, RefuseKey, registryVars
<1> QED
  BY <1>2, <1>3 DEF Going

LEMMA OneNameKept ==
  ASSUME FullInv, Next
  PROVE  OneName'
<1>1. OneName /\ \A n \in Logins : Unsaved(n)' => Unsaved(n)
  BY GrantStep DEF FullInv, KeyInv
<1>2. ASSUME NEW n \in Logins, NEW s \in Slugs, NEW t \in Slugs,
             Going(n, s)', Going(n, t)'
      PROVE  s = t
  <2>1. (Going(n, s) \/ Saved(n, s)) /\ (Going(n, t) \/ Saved(n, t))
    BY <1>2, GoingStep
  <2>2. Saved(n, s) \/ Saved(n, t) => ~ Going(n, s) /\ ~ Going(n, t)
    BY <1>1 DEF Saved, OneName
  <2>3. Saved(n, s) /\ Saved(n, t) => s = t
    BY DEF Saved
  <2> QED
    BY <1>1, <2>1, <2>2, <2>3 DEF OneName
<1>3. ASSUME NEW n \in Logins, NEW s \in Slugs, Going(n, s)'
      PROVE  ~ Unsaved(n)'
  <2>1. Going(n, s) \/ Saved(n, s)
    BY <1>3, GoingStep
  <2> QED
    BY <1>1, <2>1 DEF Saved, OneName
<1> QED
  BY <1>2, <1>3 DEF OneName

-----------------------------------------------------------------------------
(* What is kept under a name.                                              *)

(* Own and Fresh after the step.                                           *)
OwnThen(n, s) ==
  \/ n = NoLogin
  \/ n \in overtaken'[s]
  \/ signed'[s] # NoLogin /\ who'[n] = who'[signed'[s]]

FreshThen(n, s) == n = NoLogin \/ n = signed'[s] \/ n \in late'[s]

(* The conjuncts of Owned after the step.                                  *)
FilesThen ==
  \A s \in Slugs : /\ file'[s] = NoLogin <=> signed'[s] = NoLogin
                   /\ FreshThen(file'[s], s)
                   /\ OwnThen(keyFile'[s], s)

HeldThen ==
  \A w \in Callers :
    /\ at'[w] \notin Resting => OwnThen(held'[w], name'[w])
    /\ at'[w] \in {"fetch", "keep", "write", "refuse"} => FreshThen(held'[w], name'[w])

PooledThen ==
  \A s \in Slugs :
    file'[s] # NoLogin /\ pool'[s] # NoState =>
      OwnThen(key'[pool'[s]], s) /\ FreshThen(failed'[pool'[s]], s)

LEMMA OwnedThen == FilesThen /\ HeldThen /\ PooledThen => Owned'
  BY DEF FilesThen, HeldThen, PooledThen, Owned, OwnThen, FreshThen, Own, Fresh, Flies

(* Where the history does not change, what was one's own stays so.         *)
LEMMA StillOwn ==
  ASSUME FullInv, Next, NEW s \in Slugs,
         signed'[s] = signed[s], overtaken'[s] = overtaken[s], late'[s] = late[s]
  PROVE  /\ \A n \in Past \cup {NoLogin} : Own(n, s) => OwnThen(n, s)
         /\ \A n \in Past \cup {NoLogin} : Fresh(n, s) => FreshThen(n, s)
<1>1. \A n \in Past : who'[n] = who[n]
  BY GrantStep DEF FullInv
<1>2. signed[s] \in Past \cup {NoLogin}
  BY DEF FullInv, KeyInv, GrantsKept
<1> QED
  BY <1>1, <1>2 DEF Own, OwnThen, Fresh, FreshThen

(* Goroutines only take what is kept under the name of their account.      *)
LEMMA HeldKept ==
  ASSUME FullInv, Next, UNCHANGED <<signed, overtaken, late>>
  PROVE  HeldThen
<1>1. KeysTypeOK /\ PlacesOK /\ GrantsKept /\ Owned
  BY DEF FullInv, KeyInv
<1> SUFFICES ASSUME NEW v \in Callers, at'[v] \notin Resting
             PROVE  /\ OwnThen(held'[v], name'[v])
                    /\ at'[v] \in {"fetch", "keep", "write", "refuse"} =>
                         FreshThen(held'[v], name'[v])
  BY DEF HeldThen, Resting
<1>2. ASSUME NEW n \in Past \cup {NoLogin}, NEW s \in Slugs
      PROVE  /\ Own(n, s) => OwnThen(n, s)
             /\ Fresh(n, s) => FreshThen(n, s)
  BY StillOwn
<1>3. held[v] \in Past \cup {NoLogin}
  BY <1>1 DEF GrantsKept
<1>4. CASE Stays(v) \/ GoesOn(v)
  <2>1. at[v] \notin Resting /\ name[v] \in Slugs
    BY <1>1, <1>4, HasState DEF Stays, GoesOn
  <2>2. Own(held[v], name[v]) /\ (Flies(v) => Fresh(held[v], name[v]))
    BY <1>1, <2>1 DEF Owned
  <2>3. at'[v] \in {"fetch", "keep", "write", "refuse"} => Flies(v)
    BY <1>4 DEF Stays, GoesOn, Flies
  <2>4. held'[v] = held[v] /\ name'[v] = name[v]
    BY <1>4 DEF Stays, GoesOn
  <2> QED
    BY <1>2, <1>3, <2>1, <2>2, <2>3, <2>4
<1>5. CASE Rests(v)
  BY <1>5 DEF Rests
<1>6. CASE Takes(v)
  BY <1>1, <1>6 DEF Takes, PlacesOK, Resting, OwnThen
<1>7. CASE Adopts(v)
  <2>1. name[v] \in Slugs /\ name'[v] = name[v] /\ held'[v] = keyFile[name[v]]
    BY <1>1, <1>7, HasState DEF Adopts, Resting
  <2>2. keyFile[name[v]] \in Past \cup {NoLogin} /\ Own(keyFile[name[v]], name[v])
    BY <1>1, <2>1 DEF GrantsKept, Owned
  <2>3. at'[v] = "adopt"
    BY <1>7 DEF Adopts
  <2> QED
    BY <1>2, <2>1, <2>2, <2>3
<1>8. CASE Fetches(v)
  <2>1. name[v] \in Slugs /\ name'[v] = name[v] /\ held'[v] = file[name[v]]
    BY <1>1, <1>8, HasState DEF Fetches, Resting
  <2>2. file[name[v]] \in Past \cup {NoLogin} /\ Fresh(file[name[v]], name[v])
    BY <1>1, <2>1 DEF GrantsKept, Owned
  <2>3. Own(file[name[v]], name[v])
    BY <1>1, <2>1, <2>2 DEF Fresh, Own, GrantsKept
  <2> QED
    BY <1>2, <2>1, <2>2, <2>3
<1> QED
  BY <1>4, <1>5, <1>6, <1>7, <1>8, EachMoves DEF Moves

(* The states in the pool: a new one has nothing, and into an old one only *)
(* goes what its account's goroutines have.                                *)
LEMMA PooledKept ==
  ASSUME FullInv, Next, NEW s \in Slugs, pool'[s] # NoState,
         pool'[s] > made \/ (pool'[s] = pool[s] /\ file[s] # NoLogin),
         signed'[s] = signed[s], overtaken'[s] = overtaken[s], late'[s] = late[s]
  PROVE  OwnThen(key'[pool'[s]], s) /\ FreshThen(failed'[pool'[s]], s)
<1>1. /\ KeysTypeOK /\ PlacesOK /\ StatesOK /\ GrantsKept /\ Owned
      /\ StatesOK' /\ KeysTypeOK'
  BY StatesKept, KeysTyped DEF FullInv, KeyInv
<1>2. pool'[s] \in States /\ made' \in Nat /\ made \in Nat
  <2>1. made' \in Nat /\ MaxStates \in Nat /\ made' <= MaxStates /\ pool'[s] \in 0 .. made'
    BY <1>1, DeskAssumption DEF KeysTypeOK
  <2> QED
    BY <1>1, <2>1, HasState DEF States, NoState
<1> DEFINE i == pool'[s]
<1>3. PICK j \in States : j = pool'[s]
  BY <1>2
<1>4. /\ \A n \in Past \cup {NoLogin} : Own(n, s) => OwnThen(n, s)
      /\ \A n \in Past \cup {NoLogin} : Fresh(n, s) => FreshThen(n, s)
  BY StillOwn
<1>5. Own(key[j], s) /\ Fresh(failed[j], s)
  <2>1. CASE j > made
    BY <1>1, <1>3, <2>1 DEF StatesOK, Own, Fresh
  <2>2. CASE pool[s] = j /\ file[s] # NoLogin
    BY <1>1, <1>2, <1>3, <2>2 DEF Owned
  <2> QED
    BY <1>3, <2>1, <2>2
<1>6. ASSUME NEW w \in Callers, at[w] \notin Resting, state[w] = j
      PROVE  name[w] = s
  <2>1. state[w] \in 0 .. made
    BY <1>1 DEF KeysTypeOK
  <2>2. pool[s] = j
    BY <1>2, <1>3, <1>6, <2>1
  <2> QED
    BY <1>1, <1>2, <1>3, <1>6, <2>2 DEF StatesOK
<1>7. key[j] \in Past \cup {NoLogin}
  BY <1>1 DEF GrantsKept
<1>8. OwnThen(key'[j], s)
  <2>1. CASE key'[j] = key[j]
    BY <1>4, <1>5, <1>7, <2>1
  <2>2. ASSUME NEW w \in Callers, AdoptKey(w) \/ KeepKey(w), key'[j] # key[j]
        PROVE  OwnThen(key'[j], s)
    <3>1. at[w] \notin Resting /\ state[w] = j /\ key'[j] = held[w]
      BY <1>1, <2>2 DEF AdoptKey, KeepKey, KeysTypeOK, Resting
    <3>2. held[w] \in Past \cup {NoLogin} /\ Own(held[w], s)
      BY <1>1, <1>6, <3>1 DEF Owned, GrantsKept
    <3> QED
      BY <1>4, <3>1, <3>2
  <2> QED
    BY <2>1, <2>2, DataCases
      DEF dataVars, PersistCreds, WriteKeyFile, RefuseKey, RemoveAccount, stateVars, Saved
<1>9. FreshThen(failed'[j], s)
  <2>1. CASE failed'[j] = failed[j]
    BY <1>5, <2>1 DEF Fresh, FreshThen
  <2>2. CASE failed'[j] = NoLogin
    BY <2>2 DEF FreshThen
  <2>3. ASSUME NEW w \in Callers, RefuseKey(w), failed'[j] # failed[j]
        PROVE  FreshThen(failed'[j], s)
    <3>1. at[w] = "refuse" /\ state[w] = j /\ failed'[j] = held[w]
      BY <1>1, <2>3 DEF RefuseKey, KeysTypeOK
    <3>2. held[w] \in Past \cup {NoLogin} /\ Fresh(held[w], s)
      BY <1>1, <1>6, <3>1 DEF Owned, GrantsKept, Resting, Flies
    <3> QED
      BY <1>4, <3>1, <3>2
  <2>4. ASSUME NEW w \in Callers, PersistCreds(w) \/ KeepKey(w)
        PROVE  failed'[j] \in {failed[j], NoLogin}
    BY <1>1, <2>4 DEF PersistCreds, KeepKey, KeysTypeOK
  <2>5. ASSUME NEW n \in Logins, NEW t \in Slugs, Saved(n, t)
        PROVE  failed'[j] \in {failed[j], NoLogin}
    BY <1>1, <2>5 DEF Saved, OnAccountSaved, KeysTypeOK
  <2> QED
    BY <2>1, <2>2, <2>3, <2>4, <2>5, DataCases
      DEF dataVars, AdoptKey, WriteKeyFile, RemoveAccount, stateVars
<1> QED
  BY <1>3, <1>8, <1>9

LEMMA OwnedByGoroutine ==
  ASSUME FullInv, Next,
         \/ UNCHANGED dataVars
         \/ \E w \in Callers : \/ AdoptKey(w) \/ PersistCreds(w) \/ KeepKey(w)
                               \/ WriteKeyFile(w) \/ RefuseKey(w)
  PROVE  Owned'
<1>1. KeysTypeOK /\ PlacesOK /\ GrantsKept /\ Owned
  BY DEF FullInv, KeyInv
<1>2. UNCHANGED <<signed, overtaken, late>>
  BY DEF dataVars, AdoptKey, PersistCreds, KeepKey, WriteKeyFile, RefuseKey,
    registryVars, pastVars
<1>3. HeldThen
  BY <1>2, HeldKept
<1>4. ASSUME NEW w \in Callers, PersistCreds(w)
      PROVE  /\ held[w] # NoLogin /\ held[w] \in Past \cup {NoLogin}
             /\ Fresh(held[w], name[w])
  BY <1>1, <1>4 DEF PersistCreds, PlacesOK, GrantsKept, Owned, Flies
<1>5. ASSUME NEW s \in Slugs
      PROVE  /\ file'[s] = NoLogin <=> file[s] = NoLogin
             /\ FreshThen(file'[s], s)
  <2>1. CASE file'[s] = file[s]
    BY <1>1, <1>2, <2>1, StillOwn DEF Owned, GrantsKept
  <2>2. ASSUME NEW w \in Callers, PersistCreds(w), file'[s] # file[s]
        PROVE  /\ file'[s] = NoLogin <=> file[s] = NoLogin
               /\ FreshThen(file'[s], s)
    <3>1. name[w] = s /\ file'[s] = held[w] /\ file[s] # NoLogin
      BY <1>1, <2>2 DEF PersistCreds, Registered, KeysTypeOK
    <3> QED
      BY <1>2, <1>4, <2>2, <3>1, StillOwn
  <2> QED
    BY <2>1, <2>2 DEF dataVars, AdoptKey, KeepKey, WriteKeyFile, RefuseKey, registryVars
<1>6. ASSUME NEW s \in Slugs
      PROVE  OwnThen(keyFile'[s], s)
  <2>1. CASE keyFile'[s] = keyFile[s]
    BY <1>1, <1>2, <2>1, StillOwn DEF Owned, GrantsKept
  <2>2. ASSUME NEW w \in Callers, WriteKeyFile(w), keyFile'[s] # keyFile[s]
        PROVE  OwnThen(keyFile'[s], s)
    <3>1. name[w] = s /\ keyFile'[s] = held[w]
      BY <1>1, <2>2 DEF WriteKeyFile, KeysTypeOK
    <3>2. held[w] \in Past \cup {NoLogin} /\ Own(held[w], s)
      BY <1>1, <2>2, <3>1 DEF WriteKeyFile, GrantsKept, Owned, Resting
    <3> QED
      BY <1>2, <3>1, <3>2, StillOwn
  <2> QED
    BY <2>1, <2>2 DEF dataVars, AdoptKey, KeepKey, PersistCreds, RefuseKey, registryVars
<1>7. FilesThen
  BY <1>1, <1>2, <1>5, <1>6 DEF FilesThen, Owned
<1>8. PooledThen
  <2> SUFFICES ASSUME NEW s \in Slugs, file'[s] # NoLogin, pool'[s] # NoState
               PROVE  OwnThen(key'[pool'[s]], s) /\ FreshThen(failed'[pool'[s]], s)
    BY DEF PooledThen
  <2>1. pool'[s] = pool[s] \/ pool'[s] > made
    BY PoolSteps DEF PoolStep
  <2> QED
    BY <1>2, <1>5, <2>1, PooledKept
<1> QED
  BY <1>3, <1>7, <1>8, OwnedThen

(* A removal: what its goroutines have is overtaken.                       *)
LEMMA OwnedAfterRemoval ==
  ASSUME FullInv, Next, NEW w \in Callers, NEW s \in Slugs, RemoveAccount(w, s)
  PROVE  Owned'
<1>1. KeysTypeOK /\ PlacesOK /\ GrantsKept /\ Owned
  BY DEF FullInv, KeyInv
<1>2. /\ file'[s] = NoLogin /\ keyFile'[s] = NoLogin /\ signed'[s] = NoLogin
      /\ overtaken'[s] = UnderWay(s) /\ late'[s] = InFlight(s)
      /\ \A t \in Slugs \ {s} : /\ file'[t] = file[t] /\ keyFile'[t] = keyFile[t]
                                /\ signed'[t] = signed[t] /\ overtaken'[t] = overtaken[t]
                                /\ late'[t] = late[t]
  BY <1>1 DEF RemoveAccount, RemoveFiles, KeysTypeOK, GrantsKept
<1>3. ASSUME NEW t \in Slugs \ {s}, NEW n \in Past \cup {NoLogin}
      PROVE  /\ Own(n, t) => OwnThen(n, t)
             /\ Fresh(n, t) => FreshThen(n, t)
  BY <1>2, StillOwn
<1>4. FilesThen
  <2> SUFFICES ASSUME NEW t \in Slugs
               PROVE  /\ file'[t] = NoLogin <=> signed'[t] = NoLogin
                      /\ FreshThen(file'[t], t) /\ OwnThen(keyFile'[t], t)
    BY DEF FilesThen
  <2>1. CASE t = s
    BY <1>2, <2>1 DEF FreshThen, OwnThen
  <2>2. CASE t # s
    BY <1>1, <1>2, <1>3, <2>2 DEF Owned, GrantsKept
  <2> QED
    BY <2>1, <2>2
<1>5. HeldThen
  <2> SUFFICES ASSUME NEW v \in Callers, at'[v] \notin Resting
               PROVE  /\ OwnThen(held'[v], name'[v])
                      /\ at'[v] \in {"fetch", "keep", "write", "refuse"} =>
                           FreshThen(held'[v], name'[v])
    BY DEF HeldThen, Resting
  <2>1. /\ at[v] \notin Resting /\ at'[v] = at[v]
        /\ name'[v] = name[v] /\ held'[v] = held[v]
    BY <1>1 DEF RemoveAccount, Resting, KeysTypeOK
  <2>2. name[v] \in Slugs
    BY <1>1, <2>1, HasState
  <2>3. CASE name[v] = s
    <3>1. /\ held[v] = NoLogin \/ held[v] \in UnderWay(s)
          /\ Flies(v) => held[v] \in InFlight(s)
      BY <2>3 DEF UnderWay, InFlight
    <3> QED
      BY <1>2, <2>1, <2>3, <3>1 DEF OwnThen, FreshThen, Flies
  <2>4. CASE name[v] # s
    <3>1. held[v] \in Past \cup {NoLogin} /\ Own(held[v], name[v])
      BY <1>1, <2>1 DEF GrantsKept, Owned
    <3>2. at[v] \in {"fetch", "keep", "write", "refuse"} => Fresh(held[v], name[v])
      BY <1>1 DEF Owned, Flies
    <3> QED
      BY <1>3, <2>1, <2>2, <2>4, <3>1, <3>2
  <2> QED
    BY <2>3, <2>4
<1>6. PooledThen
  <2> SUFFICES ASSUME NEW t \in Slugs, file'[t] # NoLogin, pool'[t] # NoState
               PROVE  OwnThen(key'[pool'[t]], t) /\ FreshThen(failed'[pool'[t]], t)
    BY DEF PooledThen
  <2>1. t # s /\ pool'[t] = pool[t] /\ file[t] # NoLogin
    BY <1>2 DEF RemoveAccount, poolVars
  <2> QED
    BY <1>2, <2>1, PooledKept
<1> QED
  BY <1>4, <1>5, <1>6, OwnedThen

(* A login: what is not its user's is overtaken, and what was refused is   *)
(* forgotten.                                                              *)
LEMMA OwnedAfterSave ==
  ASSUME FullInv, Next, NEW n \in Logins, NEW s \in Slugs, Saved(n, s)
  PROVE  Owned'
<1>1. /\ KeysTypeOK /\ PlacesOK /\ StatesOK /\ GrantsKept /\ Owned /\ DeskInv
      /\ KeysTypeOK' /\ NoLogin \notin Logins
  BY KeysTyped, FreeSlot DEF FullInv, KeyInv
<1>2. /\ file'[s] = n /\ signed'[s] = n /\ keyFile' = keyFile /\ key' = key
      /\ overtaken'[s] = overtaken[s] \cup UnderWay(s) \cup Left(s)
      /\ late'[s] = InFlight(s)
      /\ UNCHANGED callerVars
      /\ \A t \in Slugs \ {s} : /\ file'[t] = file[t]
                                /\ signed'[t] = signed[t] /\ overtaken'[t] = overtaken[t]
                                /\ late'[t] = late[t]
  BY <1>1 DEF Saved, KeysTypeOK, GrantsKept
<1>3. ASSUME NEW t \in Slugs \ {s}, NEW m \in Past \cup {NoLogin}
      PROVE  /\ Own(m, t) => OwnThen(m, t)
             /\ Fresh(m, t) => FreshThen(m, t)
  BY <1>2, StillOwn
<1>4. \A m \in Past : who'[m] = who[m]
  BY <1>1, GrantStep
<1>5. OwnThen(keyFile[s], s)
  <2>1. CASE keyFile[s] = NoLogin \/ keyFile[s] \in overtaken[s]
    BY <1>2, <2>1 DEF OwnThen
  <2>2. CASE /\ keyFile[s] # NoLogin
             /\ signed[s] # NoLogin /\ who[keyFile[s]] = who[signed[s]]
    <3>1. file[s] # NoLogin
      BY <1>1, <2>2 DEF Owned
    <3>2. who[file[s]] = who'[n]
      BY <3>1 DEF Saved
    <3>3. CASE who[file[s]] # who[signed[s]]
      <4>1. keyFile[s] \in Left(s)
        BY <2>2, <3>1, <3>3 DEF Left
      <4> QED
        BY <1>2, <4>1 DEF OwnThen
    <3>4. CASE who[file[s]] = who[signed[s]]
      <4>1. keyFile[s] \in Past
        BY <1>1, <2>2 DEF GrantsKept
      <4>2. who'[keyFile[s]] = who'[n]
        BY <1>4, <2>2, <3>2, <3>4, <4>1
      <4> QED
        BY <1>1, <1>2, <4>2 DEF OwnThen
    <3> QED
      BY <3>3, <3>4
  <2>3. Own(keyFile[s], s)
    BY <1>1 DEF Owned
  <2> QED
    BY <2>1, <2>2, <2>3 DEF Own
<1>6. FilesThen
  <2> SUFFICES ASSUME NEW t \in Slugs
               PROVE  /\ file'[t] = NoLogin <=> signed'[t] = NoLogin
                      /\ FreshThen(file'[t], t) /\ OwnThen(keyFile'[t], t)
    BY DEF FilesThen
  <2>1. CASE t = s
    BY <1>2, <1>5, <2>1 DEF FreshThen
  <2>2. CASE t # s
    BY <1>1, <1>2, <1>3, <2>2 DEF Owned, GrantsKept
  <2> QED
    BY <2>1, <2>2
<1>7. HeldThen
  <2> SUFFICES ASSUME NEW v \in Callers, at'[v] \notin Resting
               PROVE  /\ OwnThen(held'[v], name'[v])
                      /\ at'[v] \in {"fetch", "keep", "write", "refuse"} =>
                           FreshThen(held'[v], name'[v])
    BY DEF HeldThen, Resting
  <2>1. /\ at[v] \notin Resting /\ at'[v] = at[v]
        /\ name'[v] = name[v] /\ held'[v] = held[v]
    BY <1>2 DEF callerVars
  <2>2. name[v] \in Slugs
    BY <1>1, <2>1, HasState
  <2>3. CASE name[v] = s
    <3>1. /\ held[v] = NoLogin \/ held[v] \in UnderWay(s)
          /\ Flies(v) => held[v] \in InFlight(s)
      BY <2>3 DEF UnderWay, InFlight
    <3> QED
      BY <1>2, <2>1, <2>3, <3>1 DEF OwnThen, FreshThen, Flies
  <2>4. CASE name[v] # s
    <3>1. held[v] \in Past \cup {NoLogin} /\ Own(held[v], name[v])
      BY <1>1, <2>1 DEF GrantsKept, Owned
    <3>2. at[v] \in {"fetch", "keep", "write", "refuse"} => Fresh(held[v], name[v])
      BY <1>1 DEF Owned, Flies
    <3> QED
      BY <1>3, <2>1, <2>2, <2>4, <3>1, <3>2
  <2> QED
    BY <2>3, <2>4
<1>8. PooledThen
  <2> SUFFICES ASSUME NEW t \in Slugs, file'[t] # NoLogin, pool'[t] # NoState
               PROVE  OwnThen(key'[pool'[t]], t) /\ FreshThen(failed'[pool'[t]], t)
    BY DEF PooledThen
  <2>1. CASE t # s
    <3>1. pool'[t] = pool[t] \/ pool'[t] > made
      BY PoolSteps DEF PoolStep
    <3> QED
      BY <1>2, <2>1, <3>1, PooledKept
  <2>2. CASE t = s
    <3>1. pool'[s] \in States /\ made \in Nat
      <4>1. /\ made' \in Nat /\ MaxStates \in Nat /\ made' <= MaxStates
            /\ pool'[s] \in 0 .. made'
        BY <1>1, DeskAssumption DEF KeysTypeOK
      <4> QED
        BY <1>1, <2>2, <4>1, HasState DEF States, NoState
    <3>2. failed'[pool'[s]] = NoLogin
      BY <1>1, <3>1 DEF Saved, OnAccountSaved, KeysTypeOK
    <3>3. pool'[s] = pool[s] \/ pool'[s] > made
      BY PoolSteps
    <3>4. ASSUME pool'[s] > made
          PROVE  OwnThen(key'[pool'[s]], s)
      BY <1>1, <1>2, <3>1, <3>4 DEF StatesOK, OwnThen
    <3>5. ASSUME pool'[s] = pool[s]
          PROVE  OwnThen(key'[pool'[s]], s)
      <4>1. key[pool[s]] = NoLogin \/ key[pool[s]] \in Left(s)
        BY <2>2, <3>5 DEF Left
      <4> QED
        BY <1>2, <3>5, <4>1 DEF OwnThen
    <3>6. OwnThen(key'[pool'[s]], s)
      BY <3>3, <3>4, <3>5
    <3> QED
      BY <2>2, <3>2, <3>6 DEF FreshThen
  <2> QED
    BY <2>1, <2>2
<1> QED
  BY <1>6, <1>7, <1>8, OwnedThen

LEMMA OwnedKept ==
  ASSUME FullInv, Next
  PROVE  Owned'
  BY OwnedByGoroutine, OwnedAfterRemoval, OwnedAfterSave, DataCases

-----------------------------------------------------------------------------
LEMMA FullInitial == Init => FullInv
  BY DeskInductive, KeysStart DEF FullInv

LEMMA FullKept == FullInv /\ [Next]_vars => FullInv'
<1> SUFFICES ASSUME FullInv, [Next]_vars
             PROVE  FullInv'
  OBVIOUS
<1>1. CASE Next
  <2>1. DeskInv'
    BY <1>1, DeskKept DEF FullInv
  <2>2. KeysTypeOK' /\ PlacesOK' /\ StatesOK' /\ GrantsKept'
    BY <1>1, KeysTyped, PlacesKept, StatesKept, GrantsStillKept
  <2>3. OneName' /\ Owned'
    BY <1>1, OneNameKept, OwnedKept
  <2> QED
    BY <2>1, <2>2, <2>3 DEF FullInv, KeyInv
<1>2. CASE UNCHANGED vars
  <2>1. DeskInv'
    BY <1>2, DeskKept DEF FullInv
  <2>2. UNCHANGED <<grantVars, pollVars, keyVars>>
    BY <1>2 DEF vars, loginVars
  <2>3. KeyInv'
    BY <2>2 DEF FullInv, KeyInv, keyVars, registryVars, poolVars, stateVars,
      callerVars, pastVars, grantVars, pollVars, KeysTypeOK, Flies, PlacesOK, StatesOK, GrantsKept,
      Past, OneName, Going, Unsaved, Busy, Owned, Own, Fresh
  <2> QED
    BY <2>1, <2>3 DEF FullInv
<1> QED
  BY <1>1, <1>2

LEMMA FullAlways == Spec => []FullInv
  BY FullInitial, FullKept, PTL DEF Spec

(* Every variable of the desk keeps its type; in particular the loop of    *)
(* SaveAccountAutoSlug always finds a name (registry.go:537-546), every    *)
(* account in the pool has a state of its own (balancer.go syncPool), one  *)
(* goroutine has the flight of a key, and nobody waits for a flight that   *)
(* nobody has (account_state.go, RefreshAPIKey).                           *)
THEOREM DeskTypeCorrect == Spec => []TypeOK
<1>1. FullInv => TypeOK
  BY DEF FullInv, DeskInv, LoginInv, KeyInv, TypeOK
<1> QED
  BY <1>1, FullAlways, PTL

(* However logins, imports, removals and switches of accounts cross the    *)
(* goroutines that fetch keys: the credentials of an account are those of  *)
(* its last login, unless a flight that ran when they were saved has put   *)
(* its own back; the key file and the key in memory are its own user's,    *)
(* but for what was under way or left over when the name changed hands     *)
(* (registry.go:804).                                                      *)
THEOREM KeysStayOwn == Spec => []KeysOwn
<1>1. FullInv => KeysOwn
  <2> SUFFICES ASSUME FullInv, NEW s \in Slugs, file[s] # NoLogin
               PROVE  /\ file[s] \in {signed[s]} \cup late[s]
                      /\ Belongs(keyFile[s], s)
                      /\ pool[s] # NoState => Belongs(key[pool[s]], s)
    BY DEF KeysOwn, Registered
  <2>1. Owned
    BY DEF FullInv, KeyInv
  <2>2. \A n : Own(n, s) => Belongs(n, s)
    BY DEF Own, Belongs
  <2>3. file[s] \in {signed[s]} \cup late[s]
    BY <2>1 DEF Owned, Fresh
  <2> QED
    BY <2>1, <2>2, <2>3 DEF Owned
<1> QED
  BY <1>1, FullAlways, PTL

(* An account that was logged in again is turned away for nothing but what *)
(* its own credentials are refused for (balancer.go:51-55), or those of a  *)
(* flight that ran under its name at the very moment it was saved: what    *)
(* was refused before is forgotten.                                        *)
THEOREM RefusalsStayFresh == Spec => []RefusalsFresh
<1>1. FullInv => RefusalsFresh
  BY DEF FullInv, KeyInv, Owned, Fresh, RefusalsFresh, Registered
<1> QED
  BY <1>1, FullAlways, PTL
=============================================================================
