---------------------------- MODULE EventStream ----------------------------
(***************************************************************************)
(* Server-sent events as lines, and the client that reads them.  The       *)
(* client is code outside this repository.  It is modelled twice in one    *)
(* record: line by line, as simple clients and this repository's tests     *)
(* read a stream (every data line counts by itself), and event by event,   *)
(* as the format prescribes (an event is what stands between blank lines,  *)
(* its data lines are joined, and it goes by the name on its event line).  *)
(***************************************************************************)
EXTENDS Integers, Sequences, FiniteSets

CONSTANT Blocks          \* indices of content blocks

NoText == <<"-">>        \* a payload that carries no text
NoIndex == -1            \* an index that cannot be parsed

(* Anthropic payloads: start, delta, stop, mdelta, mstop, error, noise.    *)
(* OpenAI payloads: chunk, finish, done, noise.  "cut" is a payload whose  *)
(* type cannot be told.  text is what a delta or chunk says, or the stop   *)
(* reason of an mdelta, alone in a sequence.                               *)
Line(kind, type, idx, text) ==
  [k |-> kind, type |-> type, idx |-> idx, text |-> text, whole |-> TRUE]
EventLine(type) == Line("event", type, 0, NoText)
DataLine(type, idx, text) == Line("data", type, idx, text)
Blank == Line("blank", "cut", 0, NoText)
Junk == Line("junk", "cut", 0, NoText)
Done == DataLine("done", 0, NoText)

\* What may have arrived of line l when it is cut before its newline: too
\* little to tell its type, its type alone, all but the end, or all of it.
Halves(l) ==
  CASE l.k = "blank" -> {}
    [] l.k = "data" -> {[l EXCEPT !.type = "cut", !.whole = FALSE],
                        [l EXCEPT !.idx = NoIndex, !.whole = FALSE],
                        [l EXCEPT !.whole = FALSE],
                        l}
    [] OTHER -> {[l EXCEPT !.type = "cut", !.whole = FALSE], l}

-----------------------------------------------------------------------------
\* The client.  named: events go by names (Anthropic).
Client(named) ==
  [named |-> named, tail |-> <<>>, name |-> "cut", data |-> <<>>,
   malformed |-> FALSE,
   open |-> {}, ends |-> 0, failed |-> FALSE, reason |-> "none",
   text |-> [b \in Blocks |-> <<>>]]

\* The effect of one data line that is complete JSON.
Apply(c, p) ==
  CASE p.type = "start" -> [c EXCEPT !.open = @ \cup {p.idx}]
    [] p.type = "stop" -> [c EXCEPT !.open = @ \ {p.idx}]
    [] p.type \in {"delta", "chunk"} /\ p.text # NoText ->
         [c EXCEPT !.text[p.idx] = @ \o p.text]
    [] p.type = "finish" ->
         [c EXCEPT !.reason = "upstream",
                   !.text[p.idx] = IF p.text = NoText THEN @ ELSE @ \o p.text]
    [] p.type = "mdelta" -> [c EXCEPT !.reason = p.text[1]]
    [] p.type \in {"mstop", "done"} -> [c EXCEPT !.ends = @ + 1]
    [] p.type = "error" -> [c EXCEPT !.failed = TRUE]
    [] OTHER -> c

\* The event under way has one payload and goes by that payload's name.
WellFormed(c) ==
  /\ Len(c.data) = 1
  /\ c.data[1].whole
  /\ c.named => c.name = c.data[1].type

Take(c, l) ==
  CASE l.k = "event" -> [c EXCEPT !.name = l.type]
    [] l.k = "data" ->
         LET d == [c EXCEPT !.data = Append(@, [type |-> l.type, whole |-> l.whole])]
         IN  IF l.whole THEN Apply(d, l) ELSE d
    [] l = Blank ->
         [c EXCEPT !.malformed = @ \/ (c.data # <<>> /\ ~WellFormed(c)),
                   !.name = "cut", !.data = <<>>]
    [] OTHER -> c

\* A line and its newline arrive.  After an unfinished line a newline ends
\* that line; anything else runs into it and spoils both.
Receive(c, l) ==
  IF c.tail = <<>> THEN Take(c, l)
  ELSE LET t == [c EXCEPT !.tail = <<>>]
       IN  Take(t, IF l = Blank THEN c.tail[1]
                   ELSE [c.tail[1] EXCEPT !.type = "cut", !.whole = FALSE])

ReceiveAll(c, out) ==
  LET after[n \in 0 .. Len(out)] ==
        IF n = 0 THEN c ELSE Receive(after[n - 1], out[n])
  IN  after[Len(out)]

\* The connection ends: an unfinished line is taken for a line.
HangUp(c) ==
  IF c.tail = <<>> THEN c ELSE Take([c EXCEPT !.tail = <<>>], c.tail[1])
=============================================================================
