--------------------------- MODULE AnthropicGuard ---------------------------
(***************************************************************************)
(* AnthropicGuard of internal/sseguard/guard.go: the state it keeps of a   *)
(* /messages stream, and what it writes for each line and at the end.      *)
(* A result is the guard's next state g and the lines out it writes.       *)
(***************************************************************************)
EXTENDS EventStream, StopWords

AnthropicInit ==
  [open |-> {}, sawStop |-> FALSE, sawError |-> FALSE, buffer |-> <<>>,
   pend |-> <<>>, textIdx |-> 0, pendActive |-> FALSE, done |-> FALSE,
   held |-> <<>>]

Result(g, out) == [g |-> g, out |-> out]

-----------------------------------------------------------------------------
\* The events it makes up.  A block's stop begins with a newline of its own.
BlockStopBare(i) == <<EventLine("stop"), DataLine("stop", i, NoText), Blank>>

BlockStop(i) == <<Blank, EventLine("stop"), DataLine("stop", i, NoText), Blank>>

MessageStopOnly == <<EventLine("mstop"), DataLine("mstop", 0, NoText), Blank>>

MessageStop(reason) ==
  <<EventLine("mdelta"), DataLine("mdelta", 0, <<reason>>), Blank>> \o MessageStopOnly

(* The stops of the blocks in S, in ascending order.                       *)
Closing(S) ==
  LET upto[n \in 0 .. Cardinality(Blocks)] ==
        IF n = 0 THEN <<>>
        ELSE upto[n - 1] \o (IF n - 1 \in S THEN BlockStop(n - 1) ELSE <<>>)
  IN  upto[Cardinality(Blocks)]

EmitText(i, s) ==
  IF s = <<>> THEN <<>>
  ELSE <<EventLine("delta"), DataLine("delta", i, s), Blank>>

-----------------------------------------------------------------------------
\* scan.  Types are found by pattern, so that an unfinished line may count.
Scan(g, l) ==
  IF l.k # "data" THEN g
  ELSE CASE l.type = "start" ->
              [g EXCEPT !.open = @ \cup {IF l.idx = NoIndex THEN 0 ELSE l.idx}]
         [] l.type = "stop" /\ l.idx # NoIndex -> [g EXCEPT !.open = @ \ {l.idx}]
         [] l.type = "mstop" -> [g EXCEPT !.sawStop = TRUE]
         [] l.type = "error" -> [g EXCEPT !.sawError = TRUE]
         [] OTHER -> g

\* flushPend
FlushedNot(g) == [g EXCEPT !.pendActive = FALSE]

Pending(g) == IF g.pendActive THEN EmitText(g.textIdx, g.pend) ELSE <<>>
Flushed(g) == [g EXCEPT !.pend = <<>>, !.pendActive = FALSE]

\* synthStopSeq
StopHitUndrained(g) ==
  [g EXCEPT !.sawStop = TRUE, !.pend = <<>>, !.pendActive = FALSE, !.buffer = <<>>]

StopHit(g) ==
  [g EXCEPT !.sawStop = TRUE, !.done = TRUE, !.pend = <<>>, !.pendActive = FALSE,
            !.buffer = <<>>]

\* trimContentBlockDelta: text waits until no word can begin in it any more.
TrimDelta(g, l) ==
  LET s == g.pend \o l.text
      h == [g EXCEPT !.held = <<>>, !.textIdx = l.idx, !.pendActive = TRUE]
  IN  IF ~l.whole \/ l.text = NoText
      THEN Result([g EXCEPT !.held = <<>>], g.held \o <<l>>)
      ELSE IF HasStop(s)
      THEN Result(StopHit(h), EmitText(l.idx, Clean(s)) \o BlockStop(l.idx)
                                \o MessageStop("stop_sequence"))
      ELSE Result([h EXCEPT !.pend = HeldBack(s)], EmitText(l.idx, Released(s)))

\* The events before which the text of the block must be out.
Border == {"start", "stop", "mdelta", "mstop", "error"}

\* trimLine: a delta's event line is held until its data is known.
TrimLine(g, l) ==
  LET h == [g EXCEPT !.held = <<>>]
  IN  IF l.type = "delta" /\ l.k = "event" THEN Result([g EXCEPT !.held = <<l>>], <<>>)
      ELSE IF l.type = "delta" /\ l.k = "data" THEN TrimDelta(g, l)
      ELSE IF l.k = "data" /\ l.type \in Border
      THEN Result(Scan(Flushed(h), l), g.held \o Pending(h) \o <<l>>)
      ELSE Result(h, g.held \o <<l>>)

\* Write: one complete line, relayed and then scanned, or trimmed.
AnthropicWrite(g, l, trim) ==
  IF ~trim THEN Result(Scan(g, l), <<l>>)
  ELSE IF g.done THEN Result(g, <<>>)
  ELSE TrimLine(g, l)

\* The line buffer is over its cap: the line is forgotten.
AnthropicOverflow(g) == [g EXCEPT !.buffer = <<>>, !.sawError = TRUE]

\* Finish: the unfinished line, the text held back, the blocks still open in
\* ascending order, and the end unless it was seen.
AnthropicFinish(g, trim) ==
  LET e == [g EXCEPT !.buffer = <<>>]
      r == IF g.buffer = <<>> THEN Result(e, <<>>)
           ELSE IF trim THEN TrimLine(e, g.buffer[1])
           ELSE Result(Scan(e, g.buffer[1]), <<>>)
      end == IF r.g.sawStop THEN <<>>
             ELSE IF r.g.sawError THEN MessageStopOnly
             ELSE MessageStop("end_turn")
  IN  IF g.done THEN Result(e, <<>>)
      ELSE IF r.g.done THEN r
      ELSE Result(Flushed(r.g), r.out \o Pending(r.g) \o Closing(r.g.open) \o end)
=============================================================================
