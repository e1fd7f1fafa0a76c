----------------------------- MODULE LoginFlow -----------------------------
(***************************************************************************)
(* The device login of the WebUI (internal/account/login_flow.go): one     *)
(* slot for the login that is under way, and requests of any number of     *)
(* browser tabs that poll it.  Start and Poll call the upstream without    *)
(* f.mu, so that an answer may be about a login that is no longer the      *)
(* slot's.  What a finished login saves is in module AccountDesk.          *)
(*                                                                         *)
(* Time: `since` counts from the last poll that went to the upstream, in   *)
(* steps, up to Ever; a login that was never polled is not throttled.      *)
(* The upstream answers slow_down whenever it is asked sooner than Pace.   *)
(* Messages for the page are left out.                                     *)
(***************************************************************************)
EXTENDS Grants

CONSTANTS
  Tabs,         (* Requests that poll.                                     *)
  Intervals,    (* The intervals the upstream may ask for, in steps.       *)
  Backoff,      (* What slow_down adds to it: 5 s ...                      *)
  Longest,      (* ... up to this: 30 s.                                   *)
  Pace,         (* What the upstream really wants.                         *)
  Ever,         (* Bound: the time that is counted.                        *)
  MaxLapses     (* Bound: logins that are cancelled or expire.             *)

VARIABLES
  starting,     (* Logins initiated upstream, and not yet in the slot.     *)
  slot,         (* The login under way: its number, the time since its     *)
                (* last poll, its interval.                                *)
  poll,         (* poll[p]: where tab p's request stands.                  *)
  ticket,       (* ticket[p]: the slot it took with it.                    *)
  answer,       (* answer[p]: what the upstream says.                      *)
  exchanges,    (* History: how often login n's code was exchanged.        *)
  lapses        (* How many were cancelled or expired.                     *)

slotVars == <<starting, slot>>
pollVars == <<poll, ticket, answer>>
loginVars == <<slotVars, pollVars, exchanges, lapses>>

(* loginSlot; Free is nil.                                                 *)
Slot(n, interval) == [nr |-> n, since |-> Ever, interval |-> interval]
Free == Slot(NoLogin, 0)

Stages == {"idle", "asking", "told", "exchange", "compare", "save"}

LoginTypeOK ==
  /\ starting \subseteq Logins
  /\ slot \in [nr : Logins \cup {NoLogin}, since : 0 .. Ever,
               interval : 0 .. Ever]
  /\ slot.nr \notin starting /\ (slot.nr = NoLogin => slot = Free)
  /\ poll \in [Tabs -> Stages]
  /\ ticket \in [Tabs -> Logins \cup {NoLogin}]
  /\ answer \in [Tabs -> Statuses \cup {"slow_down"}]
  /\ exchanges \in [Logins -> Nat]
  /\ lapses \in 0 .. MaxLapses
  /\ \A p \in Tabs : poll[p] = "idle" <=> ticket[p] = NoLogin

LoginInit ==
  /\ starting = {} /\ slot = Free
  /\ poll = [p \in Tabs |-> "idle"]
  /\ ticket = [p \in Tabs |-> NoLogin]
  /\ answer = [p \in Tabs |-> "none"]
  /\ exchanges = [n \in Logins |-> 0]
  /\ lapses = 0

-----------------------------------------------------------------------------
(* Start asks the upstream for an authorization request ...                *)
Initiate(n) ==
  /\ request[n] = "none"
  /\ \A m \in 1 .. n - 1 : request[m] # "none"
  /\ request' = [request EXCEPT ![n] = "pending"]
  /\ starting' = starting \cup {n}
  /\ UNCHANGED <<who, revoked, known, slot, pollVars, exchanges, lapses>>

(* ... and takes over the slot, whatever is in it.                         *)
Start(n) ==
  /\ n \in starting
  /\ starting' = starting \ {n}
  /\ \E interval \in Intervals : slot' = Slot(n, interval)
  /\ UNCHANGED <<grantVars, pollVars, exchanges, lapses>>

Cancel ==
  /\ lapses < MaxLapses
  /\ lapses' = lapses + 1
  /\ slot' = Free
  /\ UNCHANGED <<grantVars, starting, pollVars, exchanges>>

(* Time passes.                                                            *)
Tick ==
  /\ slot.nr # NoLogin /\ slot.since < Ever
  /\ slot' = [slot EXCEPT !.since = @ + 1]
  /\ UNCHANGED <<grantVars, starting, pollVars, exchanges, lapses>>

-----------------------------------------------------------------------------
(* Poll, up to the call: a login whose expiresAt is over is dropped, a     *)
(* throttled one is answered without a call.                               *)
PollExpired(p) ==
  /\ poll[p] = "idle"
  /\ slot.nr # NoLogin
  /\ lapses < MaxLapses
  /\ lapses' = lapses + 1
  /\ slot' = Free
  /\ UNCHANGED <<grantVars, starting, pollVars, exchanges>>

(* Who asks sooner than Pace is told to slow down.                         *)
Greeting == IF slot.since < Pace THEN "slow_down" ELSE "none"

Poll(p) ==
  /\ poll[p] = "idle"
  /\ slot.nr # NoLogin
  /\ slot.since >= slot.interval
  /\ slot' = [slot EXCEPT !.since = 0]
  /\ poll' = [poll EXCEPT ![p] = "asking"]
  /\ ticket' = [ticket EXCEPT ![p] = slot.nr]
  /\ answer' = [answer EXCEPT ![p] = Greeting]
  /\ UNCHANGED <<grantVars, starting, exchanges, lapses>>

(* The request of tab p is answered.                                       *)
Return(p) ==
  /\ poll' = [poll EXCEPT ![p] = "idle"]
  /\ ticket' = [ticket EXCEPT ![p] = NoLogin]
  /\ answer' = [answer EXCEPT ![p] = "none"]

Reply(p) ==
  /\ poll[p] = "asking"
  /\ poll' = [poll EXCEPT ![p] = "told"]
  /\ answer' = [answer EXCEPT
       ![p] = IF @ = "slow_down" THEN @ ELSE request[ticket[p]]]
  /\ UNCHANGED <<grantVars, slotVars, ticket, exchanges, lapses>>

(* No answer, one that is not 2xx, or one that cannot be read.             *)
NoReply(p) ==
  /\ poll[p] = "asking"
  /\ Return(p)
  /\ UNCHANGED <<grantVars, slotVars, exchanges, lapses>>

Told(p, status) == poll[p] = "told" /\ answer[p] = status

(* Mutant of SlowDown: folded into pending.                                *)
SlowDownIgnored(p) ==
  /\ Told(p, "slow_down")
  /\ Return(p)
  /\ UNCHANGED <<grantVars, slotVars, exchanges, lapses>>

(* Backoff is added, up to Longest: an interval above that is cut to it.   *)
SlowDown(p) ==
  /\ Told(p, "slow_down")
  /\ slot' = IF slot.nr # ticket[p] THEN slot
             ELSE [slot EXCEPT !.interval = IF @ + Backoff > Longest THEN Longest
                                            ELSE @ + Backoff]
  /\ Return(p)
  /\ UNCHANGED <<grantVars, starting, exchanges, lapses>>

StillPending(p) ==
  /\ Told(p, "pending")
  /\ Return(p)
  /\ UNCHANGED <<grantVars, slotVars, exchanges, lapses>>

(* Mutant of ClearSlotIfCurrent: whoever has the slot.                     *)
ClearSlot(n) == slot' = Free

ClearSlotIfCurrent(n) == slot' = IF slot.nr = n THEN Free ELSE slot

Refused(p) ==
  /\ \E status \in {"refused", "completed"} : Told(p, status)
  /\ ClearSlotIfCurrent(ticket[p])
  /\ Return(p)
  /\ UNCHANGED <<grantVars, starting, exchanges, lapses>>

(* Mutant of Authorized: the login goes on without taking the slot away.   *)
AuthorizedLeavingSlot(p) ==
  /\ Told(p, "authorized")
  /\ IF slot.nr = ticket[p]
     THEN poll' = [poll EXCEPT ![p] = "exchange"] /\ UNCHANGED <<ticket, answer>>
     ELSE Return(p)
  /\ UNCHANGED <<grantVars, slotVars, exchanges, lapses>>

(* Whoever takes the login out of the slot goes on with it.                *)
Authorized(p) ==
  /\ Told(p, "authorized")
  /\ slot' = IF slot.nr = ticket[p] THEN Free ELSE slot
  /\ IF slot.nr = ticket[p]
     THEN poll' = [poll EXCEPT ![p] = "exchange"] /\ UNCHANGED <<ticket, answer>>
     ELSE Return(p)
  /\ UNCHANGED <<grantVars, starting, exchanges, lapses>>

-----------------------------------------------------------------------------
(* complete: the code is exchanged, or used up by a call that fails.  The  *)
(* user is asked for next, which may fail, too, and does not matter.       *)
Exchange(p) ==
  LET n == ticket[p]
      used == [request EXCEPT ![n] = "completed"]
  IN  /\ poll[p] = "exchange"
      /\ exchanges' = [exchanges EXCEPT ![n] = @ + 1]
      /\ \/ /\ request[n] = "authorized"
            /\ request' = used
            /\ known' \in {known, known \cup {n}}
            /\ poll' = [poll EXCEPT ![p] = "compare"]
            /\ UNCHANGED <<ticket, answer>>
         \/ request' \in {request, used} /\ Return(p) /\ UNCHANGED known
      /\ UNCHANGED <<who, revoked, slotVars, lapses>>

PollStep(p) ==
  \/ PollExpired(p) \/ Poll(p) \/ Reply(p) \/ NoReply(p)
  \/ SlowDown(p) \/ StillPending(p) \/ Refused(p) \/ Authorized(p)
  \/ Exchange(p)

SlotStep ==
  \/ \E n \in Logins : Initiate(n) \/ Start(n)
  \/ Cancel \/ Tick

-----------------------------------------------------------------------------
(* Properties.                                                             *)

(* An authorization code is exchanged once, however many tabs poll and in  *)
(* whatever order their answers come (login_flow.go:221-222): a second     *)
(* exchange would fail, or make a second account.                          *)
CodeUsedOnce == \A n \in Logins : exchanges[n] <= 1

(* A login leaves the slot because it expired, was cancelled, gave way to  *)
(* a new one, or because its own poll said it was over: no late answer     *)
(* about an older login ends it (login_flow.go:254-255).                   *)
OwnEnd ==
  [][slot # Free /\ slot' = Free =>
       \/ lapses' # lapses
       \/ \E p \in Tabs :
            /\ ticket[p] = slot.nr /\ poll[p] = "told" /\ poll'[p] # "told"
            /\ answer[p] \in {"authorized", "refused", "completed"}]_loginVars

(* Once a user has authorized the login in the slot it is taken up or      *)
(* over: the page never says "waiting" for ever (login_flow.go:158-160,    *)
(* 197-198), although the upstream wants to be asked less often than it    *)
(* said at first.                                                          *)
AuthorizedTakenUp ==
  \A n \in Logins :
    slot.nr = n /\ request[n] = "authorized" ~> slot.nr # n
=============================================================================
