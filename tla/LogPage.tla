------------------------------ MODULE LogPage -------------------------------
(***************************************************************************)
(* The log page of the WebUI (webui/web/pages/logs.js) at work with the    *)
(* ring: load() is started by mount, by the poller, by a change of the     *)
(* filter and by the retry button, and its second half runs when the       *)
(* answer is there, with whatever the page's state is by then.  GETs of    *)
(* one path share one fetch (assets/api.js), and router.js starts the      *)
(* poller, which loads at once, right after mount has loaded.              *)
(*                                                                         *)
(* The second halves of the load()s that wait for one fetch run one after  *)
(* the other, before any other event of the page.                          *)
(***************************************************************************)
EXTENDS RequestLog, FiniteSets

CONSTANTS
  DecimalUnit,  (* Step of the decimals a double that large is printed     *)
                (* with (100 in the code).                                 *)
  PageLimit,    (* PAGE_LIMIT (200 in the code, below the capacity).       *)
  AnyKind,      (* The filter that lets everything through.                *)
  NoAnswer,     (* A fetch the server has not answered.                    *)
  MaxEvents     (* Bound: things the user does, and fetches that fail.     *)

ASSUME PrintAssumption == DecimalUnit \in 1 .. Grain - 1
ASSUME PageAssumption == PageLimit \in Nat \ {0} /\ MaxEvents \in Nat

VARIABLES
  kindFilter, lastSeq, fullReload, view,   (* As in logs.js.               *)
  fetches,      (* The fetches in flight.                                  *)
  failed,       (* An error is shown instead of the rows.                  *)
  events        (* What is left of MaxEvents.                              *)

pageVars == <<kindFilter, lastSeq, fullReload, view, fetches, failed, events>>
vars == <<logVars, pageVars>>

Filters == Kinds \cup {AnyKind}

(* The path without a cursor is one of its own.                            *)
NoCursor == -1

FetchesOK ==
  /\ \A f \in fetches :
       /\ f.since \in NoCursor .. MaxSeq + Grain /\ f.waiting \in Nat
       /\ f.answer = NoAnswer \/ f.answer \in Seq(Entry)
  /\ \A f, g \in fetches : f.since = g.since => f = g

(* A sequence number in the page is a double: the nearest multiple of      *)
(* Grain, the even one where two are as near.                              *)
Number(s) ==
  LET q == s \div Grain
      r == s % Grain
      up == 2 * r > Grain \/ (2 * r = Grain /\ q % 2 = 1)
  IN  (IF up THEN q + 1 ELSE q) * Grain

(* A cursor in a path has the fewest digits that read back as the double:  *)
(* modelled as the nearest multiple of DecimalUnit.                        *)
Printed(n) == ((2 * n + DecimalUnit) \div (2 * DecimalUnit)) * DecimalUnit

(* One fetch per path, a view within the page's limit, and a cursor that   *)
(* never runs ahead of what the server gave out.                           *)
TypeOK ==
  /\ LogTypeOK
  /\ kindFilter \in Filters
  /\ lastSeq \in 0 .. Number(seq)
  /\ fullReload \in BOOLEAN
  /\ view \in Seq(Entry) /\ Len(view) <= PageLimit
  /\ FetchesOK
  /\ failed \in BOOLEAN
  /\ events \in 0 .. MaxEvents

-----------------------------------------------------------------------------
(* load(), called n times in a row, up to its await.                       *)
Started(fs, since, n) ==
  LET same == {f \in fs : f.since = since}
  IN  IF same = {}
      THEN fs \cup {[since |-> since, waiting |-> n, answer |-> NoAnswer]}
      ELSE (fs \ same) \cup {[f EXCEPT !.waiting = @ + n] : f \in same}

Cursor == IF fullReload THEN NoCursor ELSE Printed(lastSeq)

Init ==
  /\ LogInit
  /\ kindFilter = AnyKind /\ lastSeq = 0 /\ fullReload = TRUE /\ view = <<>>
  /\ fetches = Started({}, NoCursor, 2)
  /\ failed = FALSE /\ events = MaxEvents

UserActs == events > 0 /\ events' = events - 1

(* The page is left and entered again: loads that belong to its old        *)
(* elements change nothing any more, but a fetch under way is shared.      *)
Mount ==
  /\ UserActs
  /\ kindFilter' = AnyKind /\ lastSeq' = 0 /\ fullReload' = TRUE /\ view' = <<>>
  /\ fetches' = Started({[f EXCEPT !.waiting = 0] : f \in fetches}, NoCursor, 2)
  /\ failed' = FALSE
  /\ UNCHANGED logVars

ChangeFilter(k) ==
  /\ UserActs
  /\ k # kindFilter
  /\ kindFilter' = k /\ lastSeq' = 0 /\ fullReload' = TRUE /\ view' = <<>>
  /\ fetches' = Started(fetches, NoCursor, 1)
  /\ UNCHANGED <<logVars, failed>>

Retry ==
  /\ UserActs
  /\ failed
  /\ fullReload' = TRUE
  /\ fetches' = Started(fetches, NoCursor, 1)
  /\ UNCHANGED <<logVars, kindFilter, lastSeq, view, failed>>

(* Every five seconds, and when the tab becomes visible again.  Bound: one *)
(* poll at a time waits for the same fetch.                                *)
Poll ==
  /\ \A f \in fetches : f.since = Cursor => f.waiting = 0
  /\ fetches' = Started(fetches, Cursor, 1)
  /\ UNCHANGED <<logVars, kindFilter, lastSeq, fullReload, view, failed,
                 events>>

(* handleAPILogs.                                                          *)
Serve(f) ==
  /\ f.answer = NoAnswer
  /\ fetches' = (fetches \ {f})
                \cup {[f EXCEPT !.answer = Snapshot(PageLimit, f.since)]}
  /\ UNCHANGED <<logVars, kindFilter, lastSeq, fullReload, view, failed,
                 events>>

(* Mutant of Cut: the view is not cut to the page's limit.                 *)
CutNever(rows) == rows

Cut(rows) == SubSeq(rows, 1, IF Len(rows) < PageLimit THEN Len(rows)
                             ELSE PageLimit)

(* The entries of an answer that pass the filter.                          *)
Shown(answer) ==
  LET upTo[n \in 0 .. Len(answer)] ==
        IF n = 0 THEN <<>>
        ELSE IF kindFilter \in {AnyKind, answer[n].kind}
        THEN Append(upTo[n - 1], answer[n])
        ELSE upTo[n - 1]
  IN  upTo[Len(answer)]

(* The second half of load().                                              *)
Received(p, answer) ==
  LET rows == Shown(answer)
  IN  [lastSeq |-> IF answer # <<>> /\ Number(answer[1].seq) > p.lastSeq
                   THEN Number(answer[1].seq) ELSE p.lastSeq,
       view |-> Cut(IF p.full THEN rows ELSE rows \o p.view),
       full |-> FALSE]

Deliver(f) ==
  LET after[n \in Nat] ==
        IF n = 0
        THEN [lastSeq |-> lastSeq, view |-> view, full |-> fullReload]
        ELSE Received(after[n - 1], f.answer)
      p == after[f.waiting]
  IN  /\ f.answer # NoAnswer
      /\ lastSeq' = p.lastSeq /\ view' = p.view /\ fullReload' = p.full
      /\ fetches' = fetches \ {f}
      /\ failed' = (failed /\ f.waiting = 0)
      /\ UNCHANGED <<logVars, kindFilter, events>>

(* A fetch runs into its ten seconds or is refused.                        *)
FetchFails(f) ==
  /\ UserActs
  /\ fetches' = fetches \ {f}
  /\ failed' = (failed \/ f.waiting > 0)
  /\ UNCHANGED <<logVars, kindFilter, lastSeq, fullReload, view>>

(* What was in flight when the process ended is lost with it.              *)
ServerRestarts ==
  /\ Restart
  /\ fetches' = {f \in fetches : f.answer # NoAnswer}
  /\ failed' = (failed \/ \E f \in fetches \ fetches' : f.waiting > 0)
  /\ UNCHANGED <<kindFilter, lastSeq, fullReload, view, events>>

-----------------------------------------------------------------------------
User == Mount \/ (\E k \in Filters : ChangeFilter(k)) \/ Retry

Next ==
  \/ \E k \in Kinds : Push(k) /\ UNCHANGED pageVars
  \/ ServerRestarts
  \/ User
  \/ Poll
  \/ \E f \in fetches : Serve(f) \/ Deliver(f) \/ FetchFails(f)

(* While the page is open and visible its timer goes on, and a fetch is    *)
(* answered or fails.                                                      *)
Fairness ==
  /\ WF_vars(Poll)
  /\ WF_vars(\E f \in fetches : Serve(f))
  /\ WF_vars(\E f \in fetches : Deliver(f))

Spec == Init /\ [][Next]_vars
FairSpec == Spec /\ Fairness

-----------------------------------------------------------------------------
(* The cursor and the newest entry differ by a rounding at most.           *)
NearNewest ==
  count > 0 => LET gap == lastSeq - Newest(0).seq
               IN  2 * gap <= Grain /\ -2 * gap <= Grain

(* Once no more requests end, the page's cursor is that of the newest      *)
(* entry up to rounding: no cursor, also none from before a restart, hides *)
(* more than half a grain of later entries for good.                       *)
CursorFollows == <>[]NearNewest
=============================================================================
