---------------------------- MODULE OpenAIGuard ----------------------------
(***************************************************************************)
(* OpenAIGuard of internal/sseguard/guard.go: the [DONE] of a              *)
(* /chat/completions stream, and the trimming of its first choice.         *)
(***************************************************************************)
EXTENDS AnthropicGuard

OpenAIInit ==
  [sawDone |-> FALSE, buffer |-> <<>>, pend |-> <<>>, done |-> FALSE]

IsDoneLine(l) == l = Done

\* The bare chunk that carries held-back text when no other will come.
FlushChunk(s) ==
  IF s = <<>> THEN <<>> ELSE <<DataLine("chunk", 0, s), Blank>>

\* emitHit: this chunk becomes the last one, and [DONE] follows.
EmitHit(g, l, prefix) ==
  Result([g EXCEPT !.sawDone = TRUE, !.done = TRUE, !.pend = <<>>, !.buffer = <<>>],
         <<[l EXCEPT !.type = "finish", !.text = prefix], Done, Blank>>)

\* trimChunk: the text goes out with this chunk, all of it when the chunk is
\* the last one.
TrimChunk(g, l) ==
  LET s == IF l.text = NoText THEN g.pend ELSE g.pend \o l.text
  IN  IF l.text = NoText /\ (l.type = "chunk" \/ g.pend = <<>>) THEN Result(g, <<l>>)
      ELSE IF HasStop(s) THEN EmitHit(g, l, Clean(s))
      ELSE IF l.type = "finish"
      THEN Result([g EXCEPT !.pend = <<>>], <<[l EXCEPT !.text = s]>>)
      ELSE Result([g EXCEPT !.pend = HeldBack(s)], <<[l EXCEPT !.text = Released(s)]>>)

\* trimLine
TrimLineO(g, l) ==
  IF IsDoneLine(l)
  THEN Result([g EXCEPT !.pend = <<>>, !.sawDone = TRUE], FlushChunk(g.pend) \o <<l>>)
  ELSE IF l.k = "data" /\ l.whole /\ l.type \in {"chunk", "finish"} THEN TrimChunk(g, l)
  ELSE Result(g, <<l>>)

\* Write
OpenAIWrite(g, l, trim) ==
  IF ~trim THEN Result([g EXCEPT !.sawDone = @ \/ IsDoneLine(l)], <<l>>)
  ELSE IF g.done THEN Result(g, <<>>)
  ELSE TrimLineO(g, l)

OpenAIOverflow(g) == [g EXCEPT !.buffer = <<>>]

\* Finish
OpenAIFinish(g, trim) ==
  LET e == [g EXCEPT !.buffer = <<>>]
      r == IF g.buffer = <<>> THEN Result(e, <<>>)
           ELSE IF trim THEN TrimLineO(e, g.buffer[1])
           ELSE Result([e EXCEPT !.sawDone = @ \/ IsDoneLine(g.buffer[1])], <<>>)
  IN  IF g.done THEN Result(e, <<>>)
      ELSE IF r.g.done THEN r
      ELSE Result([r.g EXCEPT !.pend = <<>>],
                  r.out \o FlushChunk(r.g.pend)
                    \o (IF r.g.sawDone THEN <<>> ELSE <<Done, Blank>>))
=============================================================================
