----------------------------- MODULE StreamPump -----------------------------
(***************************************************************************)
(* One streamed response: the upstream that sends it, pump of              *)
(* internal/sseguard/guard.go that reads it through a guard, and the       *)
(* client.  The upstream may break off, fall silent or flood a line        *)
(* anywhere, in the middle of lines too, and the client may leave.         *)
(* A Read that returns several lines is as many steps: the guard handles   *)
(* them one by one, and nobody sees the moment between.                    *)
(***************************************************************************)
EXTENDS OpenAIGuard

CONSTANTS
  Protocols,             \* subset of {"anthropic", "openai"}
  Modes,                 \* subset of BOOLEAN: with stop words or without
  Texts,                 \* the texts a delta may carry
  MaxUnits               \* bound on the events an upstream sends

ASSUME StreamAssumption ==
  /\ Protocols \subseteq {"anthropic", "openai"}
  /\ Modes \subseteq BOOLEAN
  /\ Texts \subseteq Seq(Chars) /\ NoText \notin Seq(Chars)
  /\ MaxUnits \in Nat
  /\ IsFiniteSet(Blocks) /\ 0 \in Blocks /\ Blocks = 0 .. Cardinality(Blocks) - 1

VARIABLES
  proto, trim,           \* which guard, and whether it looks for stop words
  up,                    \* the upstream: what it has sent and has yet to send
  g,                     \* the guard
  cl,                    \* the client
  sent,                  \* history: the text of each block that reached the guard
  ended,                 \* "no", "eof", "error", or "left": the client's write failed
  cut                    \* history: where the upstream ended: "border" of an
                         \* event, inside an "event", or inside a "line" after
                         \* which nothing is owed

vars == <<proto, trim, up, g, cl, sent, ended, cut>>

-----------------------------------------------------------------------------
\* The upstream, as the two APIs define their streams.
Upstream ==
  [todo |-> <<>>, units |-> 0, open |-> {}, next |-> 0, reason |-> FALSE, over |-> FALSE]

Event(type, idx, text) == [type |-> type, idx |-> idx, text |-> text]

(* Blocks may overlap; deltas belong to the block started last.  With stop *)
(* words one block is open at a time: synthStopSeq closes no other.        *)
AnthropicEvents(u) ==
  {Event("start", b, NoText) :
     b \in {b \in Blocks \cap {u.next} : ~u.reason /\ (u.open = {} \/ ~trim)}}
  \cup {Event("delta", b, t) :
          b \in u.open \cap {u.next - 1}, t \in Texts \cup {NoText}}
  \cup {Event("stop", b, NoText) : b \in u.open}
  \cup (IF u.open = {} /\ u.next > 0 /\ ~u.reason
        THEN {Event("mdelta", 0, <<"upstream">>)} ELSE {})
  \cup (IF u.reason THEN {Event("mstop", 0, NoText)} ELSE {})
  \cup {Event("error", 0, NoText), Event("noise", 0, NoText)}

OpenAIEvents(u) ==
  (IF u.reason THEN {}
   ELSE {Event(type, 0, t) : type \in {"chunk", "finish"}, t \in Texts \cup {NoText}})
  \cup {Event("done", 0, NoText), Event("noise", 0, NoText)}

\* How the upstream goes on after event e.
After(u, e) ==
  [todo |-> (IF proto = "anthropic" THEN <<EventLine(e.type)>> ELSE <<>>)
              \o <<DataLine(e.type, e.idx, e.text), Blank>>,
   units |-> u.units + 1,
   open |-> CASE e.type = "start" -> u.open \cup {e.idx}
              [] e.type = "stop" -> u.open \ {e.idx}
              [] OTHER -> u.open,
   next |-> IF e.type = "start" THEN u.next + 1 ELSE u.next,
   reason |-> u.reason \/ e.type \in {"mdelta", "finish"},
   over |-> e.type \in {"mstop", "error", "done"}]

Send ==
  /\ ended = "no" /\ up.todo = <<>> /\ ~up.over /\ up.units < MaxUnits
  /\ \E e \in IF proto = "anthropic" THEN AnthropicEvents(up) ELSE OpenAIEvents(up) :
       up' = After(up, e)
  /\ UNCHANGED <<proto, trim, g, cl, sent, ended, cut>>

-----------------------------------------------------------------------------
\* Pipe*, pump, Write
Guarded(l) ==
  IF proto = "anthropic" THEN AnthropicWrite(g, l, trim) ELSE OpenAIWrite(g, l, trim)

Unbuffered(r) == [r.g EXCEPT !.buffer = <<>>]

\* A text is sent once its data line is complete, unless that was forgotten.
Heard(s, l) ==
  IF l.k = "data" /\ l.whole /\ l.type \in {"delta", "chunk", "finish"} /\ l.text # NoText
  THEN [s EXCEPT ![l.idx] = @ \o l.text] ELSE s

\* The next line is complete, with its newline.  When a part of it was
\* relayed before, the client now has all of it.
ReadLine ==
  /\ ended = "no" /\ up.todo # <<>>
  /\ LET l == Head(up.todo)
         r == Guarded(l)
     IN  /\ g' = Unbuffered(r)
         /\ cl' = ReceiveAll([cl EXCEPT !.tail = <<>>], r.out)
         /\ sent' = Heard(sent, l)
  /\ up' = [up EXCEPT !.todo = Tail(@)]
  /\ UNCHANGED <<proto, trim, ended, cut>>

\* A part of the next line: it waits in the line buffer, and without stop
\* words the client has it already.
ReadHalf ==
  /\ ended = "no" /\ up.todo # <<>> /\ g.buffer = <<>> /\ ~(trim /\ g.done)
  /\ \E h \in Halves(Head(up.todo)) :
       /\ g' = [g EXCEPT !.buffer = <<h>>]
       /\ cl' = IF trim THEN cl ELSE [cl EXCEPT !.tail = <<h>>]
  /\ UNCHANGED <<proto, trim, up, sent, ended, cut>>

\* A line goes on and on, over lineBufferCap, and the guard forgets what it has
\* of it.  With stop words the line is lost, and its rest is passed on as it
\* is; without, the client gets all of it, and the guard learns nothing from
\* such a line anyway, but that the stream is amiss.  Left out: a line of these
\* that does tell it which blocks are open or that the end was sent.  A
\* content_block_start that long would open a block that is never closed.
Endless == {"delta", "mdelta", "error", "noise", "chunk", "finish"}

Flood ==
  /\ ended = "no" /\ g.buffer # <<>> /\ g.buffer[1].k = "data"
  /\ Head(up.todo).type \in Endless
  /\ g' = IF proto = "anthropic" THEN AnthropicOverflow(g) ELSE OpenAIOverflow(g)
  /\ up' = IF trim THEN [up EXCEPT !.todo = <<Junk>> \o Tail(@)] ELSE up
  /\ UNCHANGED <<proto, trim, cl, sent, ended, cut>>

\* No end is owed after half a line that the client has a part of, nor after
\* one that the guard counts and the client cannot read: trimLine scans a stop
\* whose type is there, whether it is JSON or not.
Misread(l) == ~l.whole /\ l.type \in {"stop", "mstop"}

NothingOwed ==
  IF trim THEN g.buffer # <<>> /\ Misread(g.buffer[1])
  ELSE g.buffer # <<>> \/ cl.tail # <<>>

\* The body ends, fails, or is closed by the idle timer of idlebody.go: pump
\* has the guard finish the stream either way.
End ==
  /\ ended = "no"
  /\ LET r == IF proto = "anthropic" THEN AnthropicFinish(g, trim) ELSE OpenAIFinish(g, trim)
     IN  /\ g' = r.g
         /\ cl' = HangUp(ReceiveAll(cl, r.out))
         /\ sent' = IF trim /\ g.buffer # <<>> THEN Heard(sent, g.buffer[1])
                    ELSE sent
  /\ ended' \in {"eof", "error"}
  /\ cut' = IF NothingOwed THEN "line"
            ELSE IF g.buffer # <<>> \/ (up.todo # <<>> /\ Head(up.todo) = Blank)
            THEN "event" ELSE "border"
  /\ UNCHANGED <<proto, trim, up>>

\* A write to the client fails: pump returns at once, without Finish.
Disconnect ==
  /\ ended = "no" /\ up.todo # <<>>
  /\ ended' = "left"
  /\ UNCHANGED <<proto, trim, up, g, cl, sent, cut>>

Init ==
  /\ proto \in Protocols
  /\ trim \in Modes
  /\ up = Upstream
  /\ g = IF proto = "anthropic" THEN AnthropicInit ELSE OpenAIInit
  /\ cl = Client(proto = "anthropic")
  /\ sent = [b \in Blocks |-> <<>>]
  /\ ended = "no"
  /\ cut = "border"

Next == Send \/ ReadLine \/ ReadHalf \/ Flood \/ End \/ Disconnect

Spec == Init /\ [][Next]_vars

-----------------------------------------------------------------------------
\* Types, and that nothing is held back of a stream that is over.
TypeOK ==
  /\ cl.open \subseteq Blocks /\ cl.ends \in 0 .. 1
  /\ ended \in {"no", "eof", "error", "left"} /\ cut \in {"border", "event", "line"}
  /\ Len(g.buffer) <= 1 /\ Len(cl.tail) <= 1
  /\ Len(g.pend) <= Holdback
  /\ ended \in {"eof", "error"} => g.pend = <<>> /\ g.buffer = <<>>

Finished == ended \in {"eof", "error"}

(***************************************************************************)
(* The stream a client gets, read line by line, is a closed stream (guard, *)
(* lines 1 to 10): however it was cut, each block is closed, the end comes *)
(* exactly once, and no error is followed by a made-up end_turn.  When the *)
(* upstream broke off inside a line and the client has a part of it, what  *)
(* the guard appends may run into that line, and nothing is promised; with *)
(* stop words the client has no part, and the promise stands, but for half *)
(* a content_block_stop or message_stop, which the guard takes for a whole *)
(* one (against guard.go:455-459).                                         *)
(***************************************************************************)
Closed == INSTANCE ClosedStream WITH
  open <- cl.open, ends <- cl.ends, failed <- cl.failed, reason <- cl.reason,
  state <- IF ended = "no" THEN "streaming"
           ELSE IF Finished /\ cut # "line" THEN "closed" ELSE "gone"

StreamClosed == Closed!Spec

\* With stop words, the client never sees a character of a text from its
\* first stop word on, nor of a later block, whatever way the text was split
\* into deltas and cut (trimContentBlockDelta, trimChunk); and when the stream
\* is over nothing before that is missing, nor anything without stop words.
\* It takes words that are apart (StopWords!WordsApart): with the words "abab"
\* and "b" the deltas "ab", "ab" show "a", and the delta "abab" nothing.
TextKept ==
  \A b \in Blocks :
    LET due == IF ~trim THEN sent[b]
               ELSE IF \E a \in Blocks : a < b /\ HasStop(sent[a]) THEN <<>>
               ELSE Clean(sent[b])
    IN  /\ trim => IsPrefix(cl.text[b], due)
        /\ Finished /\ cut # "line" => cl.text[b] = due

\* Any words, apart or not: the client never sees a whole one, sees of each
\* text its beginning, and misses something of a finished stream only if a
\* word came, however the text was split into deltas (the prefix that
\* trimContentBlockDelta and trimChunk emit before a hit, guard.go:349).
NoWordShown ==
  trim =>
    \A b \in Blocks :
      /\ IsPrefix(cl.text[b], sent[b]) /\ ~HasStop(cl.text[b])
      /\ Finished /\ cut # "line" /\ cl.text[b] # sent[b]
           => \E a \in Blocks : a <= b /\ HasStop(sent[a])

\* A finished stream shows what the same response would have shown had it
\* been buffered and cut by TrimStopBody, unless a stop word begins in one
\* block and ends in the next.  It takes words that are apart, too.
TrimmedAlike ==
  LET texts == [i \in 1 .. Cardinality(Blocks) |-> sent[i - 1]]
      cutTexts == IF proto = "anthropic" THEN TrimBlocks(texts) ELSE TrimChoices(texts)
  IN  Finished /\ trim /\ cut # "line" /\ ~Straddles(texts) =>
        \A i \in DOMAIN texts :
          cl.text[i - 1] = IF i \in DOMAIN cutTexts THEN cutTexts[i] ELSE <<>>

\* A client that reads event by event gets well-formed events, too, as long
\* as the stream is relayed without stop words and breaks off at the border of
\* an event, or inside one while a block is open: the newline that begins a
\* made-up content_block_stop (guard.go:36) ends the unfinished event.
RelayedWhole ==
  Finished /\ ~trim
    /\ (cut = "border" \/ (cut = "event" /\ proto = "anthropic" /\ g.open # {}))
  => ~cl.malformed /\ cl.data = <<>>

\* The same with stop words (PROTOCOL_SCHEMA.md:293-295): every event that is
\* relayed or made up reaches the client under its name and by itself.
EventsWellFormed ==
  cut = "border" => ~cl.malformed
=============================================================================
