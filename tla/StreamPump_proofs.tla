------------------------- MODULE StreamPump_proofs --------------------------
(***************************************************************************)
(* Proofs about the streams that pass the two guards, for any stop words,  *)
(* texts, blocks and lengths, and wherever the upstream breaks off.        *)
(***************************************************************************)
EXTENDS StreamPump, NaturalOrder, FiniteSetTheorems

-----------------------------------------------------------------------------
(* What the lines are.                                                     *)

Reasons == Closed!Reasons
Payloads == Seq(Chars) \cup {NoText} \cup {<<r>> : r \in Reasons}
Kinds == {"event", "data", "blank", "junk"}
Types == {"start", "delta", "stop", "mdelta", "mstop", "error", "noise", "cut",
          "chunk", "finish", "done"}
Lines == [k : Kinds, type : Types, idx : Int, text : Payloads, whole : BOOLEAN]

(* The parts of a line that somebody acts upon are as they should be.      *)
LineOK(l) ==
  /\ l \in Lines
  /\ l.k = "data" /\ l.type = "start" => l.idx \in Blocks \/ (l.idx = NoIndex /\ ~l.whole)
  /\ l.k = "data" /\ l.type = "mdelta" => l.text \in {<<r>> : r \in Reasons}
  /\ l.k = "data" /\ l.type \in {"delta", "chunk", "finish"} =>
       l.text \in Seq(Chars) \cup {NoText}

(* The lines that tell a client nothing of a stream's course, the ones     *)
(* that end it, and the ones that give no reason.                          *)
Quiet(l) ==
  \/ l.k # "data" \/ ~l.whole
  \/ l.type \in {"delta", "chunk", "noise", "cut"}

Ending(l) == ~Quiet(l) /\ l.type \in {"mstop", "done"}

Mute(l) == Quiet(l) \/ l.type \notin {"mdelta", "finish"}

GoodLines == {l \in Lines : LineOK(l)}
QuietLines == {l \in GoodLines : Quiet(l)}

-----------------------------------------------------------------------------
(* The guards.                                                             *)

AnthropicGuards ==
  [open : SUBSET Blocks, sawStop : BOOLEAN, sawError : BOOLEAN,
   buffer : Seq(Lines), pend : Seq(Chars), textIdx : Int,
   pendActive : BOOLEAN, done : BOOLEAN, held : Seq(QuietLines)]

OpenAIGuards ==
  [sawDone : BOOLEAN, buffer : Seq(Lines), pend : Seq(Chars), done : BOOLEAN]

(* What a guard knows of the stream it has passed on.                      *)
KnownOpen(h) == IF proto = "anthropic" THEN h.open ELSE {}
KnownEnd(h) == IF proto = "anthropic" THEN h.sawStop ELSE h.sawDone
KnownError(h) == proto = "anthropic" /\ h.sawError

GuardOK(h) ==
  /\ IF proto = "anthropic" THEN h \in AnthropicGuards ELSE h \in OpenAIGuards
  /\ Len(h.pend) <= Holdback /\ Len(h.buffer) <= 1
  /\ h.done => h.pend = <<>>
  /\ ~trim => ~h.done /\ h.pend = <<>>
  /\ ~trim /\ proto = "anthropic" => ~h.pendActive /\ h.held = <<>>

-----------------------------------------------------------------------------
(* The upstream.                                                           *)

UpTypeOK ==
  up \in [todo : Seq(Lines), units : Nat, open : SUBSET Blocks, next : Nat,
          reason : BOOLEAN, over : BOOLEAN]

(* The event of data line l is not read yet.                               *)
Ahead(l) ==
  \/ up.todo = <<l, Blank>>
  \/ up.todo = <<EventLine(l.type), l, Blank>> /\ proto = "anthropic"

NoneAhead == up.todo \in {<<>>, <<Blank>>, <<Junk, Blank>>}

DataLines ==
  IF proto = "anthropic"
  THEN {DataLine(type, b, NoText) : type \in {"start", "stop"}, b \in Blocks}
       \cup {DataLine("delta", b, t) : b \in Blocks, t \in Texts \cup {NoText}}
       \cup {DataLine("mdelta", 0, <<"upstream">>)}
       \cup {DataLine(type, 0, NoText) : type \in {"mstop", "error", "noise"}}
  ELSE {DataLine(type, 0, t) : type \in {"chunk", "finish"}, t \in Texts \cup {NoText}}
       \cup {DataLine(type, 0, NoText) : type \in {"done", "noise"}}

UpOK ==
  /\ UpTypeOK
  /\ proto = "anthropic" /\ up.reason => up.open = {}
  /\ proto = "openai" => up.open = {}
  /\ trim => \A a, b \in up.open : a = b
  /\ NoneAhead \/ \E l \in DataLines : Ahead(l)

-----------------------------------------------------------------------------
(* The client.                                                             *)

ClientFields ==
  {"named", "tail", "name", "data", "malformed", "open", "ends", "failed",
   "reason", "text"}

ClientOK(c) ==
  /\ c = [f \in ClientFields |-> c[f]]
  /\ c.tail \in Seq(Lines) /\ Len(c.tail) <= 1
  /\ c.open \subseteq Blocks /\ c.ends \in Nat /\ c.failed \in BOOLEAN
  /\ c.reason \in Reasons

(* What the upstream goes on from is what the client was told.             *)
InStep ==
  \/ /\ NoneAhead
     /\ cl.open = up.open
     /\ cl.ends = 1 \/ cl.failed => up.over
  \/ \E l \in DataLines :
       /\ Ahead(l)
       /\ cl.ends = 0 /\ ~cl.failed
       /\ up.open = CASE l.type = "start" -> cl.open \cup {l.idx}
                      [] l.type = "stop" -> cl.open \ {l.idx}
                      [] OTHER -> cl.open
       /\ l.type \in {"mstop", "error", "done"} => up.over
       /\ l.type = "mstop" => cl.open = {}
       /\ trim /\ l.type = "delta" => cl.open \subseteq {l.idx}

Agreed ==
  IF g.done THEN cl.open = {} /\ cl.ends = 1
  ELSE /\ cl.open = KnownOpen(g)
       /\ cl.ends = IF KnownEnd(g) THEN 1 ELSE 0
       /\ cl.failed => KnownError(g)
       /\ InStep

(* A line under way is in the line buffer, or was forgotten there.         *)
HalfOK ==
  /\ g.buffer # <<>> =>
       up.todo # <<>> /\ g.buffer[1] \in Halves(Head(up.todo)) /\ ~g.done
  /\ trim => cl.tail = <<>>
  /\ ~trim /\ g.buffer # <<>> => cl.tail = g.buffer
  /\ g.buffer = <<>> /\ cl.tail # <<>> =>
       LineOK(cl.tail[1]) /\ ~Ending(cl.tail[1]) /\ (cl.failed => Mute(cl.tail[1]))

Running ==
  /\ GuardOK(g) /\ UpOK /\ ClientOK(cl) /\ Agreed /\ HalfOK
  /\ cut = "border"

Over ==
  /\ cl.open \subseteq Blocks /\ cl.ends \in 0 .. 1
  /\ Len(g.buffer) <= 1 /\ Len(cl.tail) <= 1 /\ Len(g.pend) <= Holdback
  /\ ended \in {"eof", "error"} => g.pend = <<>> /\ g.buffer = <<>>

StreamInv ==
  /\ proto \in {"anthropic", "openai"} /\ trim \in BOOLEAN
  /\ ended \in {"no", "eof", "error", "left"} /\ cut \in {"border", "event", "line"}
  /\ IF ended = "no" THEN Running ELSE Over

-----------------------------------------------------------------------------
(* A client that reads several lines.                                      *)

IsCourse(f, c, out, m) ==
  f = [n \in 0 .. m |-> IF n = 0 THEN c ELSE Receive(f[n - 1], out[n])]

LEMMA CourseExists ==
  ASSUME NEW c, NEW out
  PROVE  \A m \in Nat : \E f : IsCourse(f, c, out, m)
<1> DEFINE A == {m \in Nat : \E f : IsCourse(f, c, out, m)}
<1>1. 0 \in A
  <2>1. IsCourse([n \in 0 .. 0 |-> c], c, out, 0)
    BY DEF IsCourse
  <2> QED
    BY <2>1
<1>2. ASSUME NEW m \in Nat, m \in A PROVE m + 1 \in A
  <2>1. PICK f : IsCourse(f, c, out, m)
    BY <1>2
  <2> DEFINE h == [n \in 0 .. m + 1 |-> IF n = m + 1 THEN Receive(f[m], out[m + 1])
                                        ELSE f[n]]
  <2>2. ASSUME NEW n \in 0 .. m + 1
        PROVE  h[n] = IF n = 0 THEN c ELSE Receive(h[n - 1], out[n])
    <3>1. CASE n = 0
      BY <2>1, <3>1 DEF IsCourse
    <3>2. CASE n # 0
      <4>1. n - 1 \in 0 .. m /\ h[n - 1] = f[n - 1]
        BY <3>2
      <4>2. n # m + 1 => n \in 0 .. m /\ h[n] = f[n]
        OBVIOUS
      <4>3. n # m + 1 => f[n] = Receive(f[n - 1], out[n])
        BY <2>1, <3>2, <4>2 DEF IsCourse
      <4>4. n = m + 1 => h[n] = Receive(f[n - 1], out[n])
        OBVIOUS
      <4> QED
        BY <3>2, <4>1, <4>2, <4>3, <4>4
    <3> QED
      BY <3>1, <3>2
  <2>3. IsCourse(h, c, out, m + 1)
    <3>1. h = [n \in 0 .. m + 1 |-> h[n]]
      OBVIOUS
    <3> HIDE DEF h
    <3> QED
      BY <2>2, <3>1 DEF IsCourse
  <2> HIDE DEF h
  <2> QED
    BY <2>3
<1>3. Nat \subseteq A
  <2> HIDE DEF A
  <2> QED
    BY <1>1, <1>2, SetOfAllNaturals
<1> QED
  BY <1>3

LEMMA CourseUnique ==
  ASSUME NEW c, NEW out, NEW m \in Nat, NEW f, NEW h,
         IsCourse(f, c, out, m), IsCourse(h, c, out, m)
  PROVE  f = h
<1> DEFINE A == {n \in Nat : n <= m => f[n] = h[n]}
<1>1. 0 \in A
  BY DEF IsCourse
<1>2. ASSUME NEW n \in Nat, n \in A PROVE n + 1 \in A
  <2> SUFFICES ASSUME n + 1 <= m PROVE f[n + 1] = h[n + 1]
    OBVIOUS
  <2>1. f[n] = h[n] /\ n + 1 \in 0 .. m /\ n + 1 # 0 /\ (n + 1) - 1 = n
    BY <1>2
  <2>2. f[n + 1] = Receive(f[n], out[n + 1]) /\ h[n + 1] = Receive(h[n], out[n + 1])
    BY <2>1 DEF IsCourse
  <2> QED
    BY <2>1, <2>2
<1>3. Nat \subseteq A
  <2> HIDE DEF A
  <2> QED
    BY <1>1, <1>2, SetOfAllNaturals
<1>4. \A n \in 0 .. m : f[n] = h[n]
  BY <1>3
<1> QED
  BY <1>4 DEF IsCourse

(* What it is after all of them.                                           *)
LEMMA ReceiveAllIs ==
  ASSUME NEW c, NEW out, Len(out) \in Nat, NEW f, IsCourse(f, c, out, Len(out))
  PROVE  ReceiveAll(c, out) = f[Len(out)]
<1> DEFINE after[n \in 0 .. Len(out)] == IF n = 0 THEN c ELSE Receive(after[n - 1], out[n])
<1>1. ReceiveAll(c, out) = after[Len(out)]
  BY DEF ReceiveAll
<1>2. after = CHOOSE h : h = [n \in 0 .. Len(out) |->
                                IF n = 0 THEN c ELSE Receive(h[n - 1], out[n])]
  BY DEF after
<1>3. IsCourse(after, c, out, Len(out))
  <2> HIDE DEF after
  <2> QED
    BY <1>2 DEF IsCourse
<1> HIDE DEF after
<1> QED
  BY <1>1, <1>3, CourseUnique

LEMMA ReceiveNone ==
  ASSUME NEW c
  PROVE  ReceiveAll(c, <<>>) = c
<1>1. PICK f : IsCourse(f, c, <<>>, 0)
  BY CourseExists
<1>2. f[0] = c
  BY <1>1 DEF IsCourse
<1> QED
  BY <1>1, <1>2, ReceiveAllIs

LEMMA ReceiveOne ==
  ASSUME NEW c, NEW l
  PROVE  ReceiveAll(c, <<l>>) = Receive(c, l)
<1>1. PICK f : IsCourse(f, c, <<l>>, 1)
  BY CourseExists
<1>2. f[0] = c /\ f[1] = Receive(f[0], l)
  BY <1>1 DEF IsCourse
<1>3. Len(<<l>>) = 1
  OBVIOUS
<1>4. ReceiveAll(c, <<l>>) = f[1]
  BY <1>1, <1>3, ReceiveAllIs
<1> QED
  BY <1>2, <1>4

LEMMA ReceiveMore ==
  ASSUME NEW S, NEW s \in Seq(S), NEW t \in Seq(S), NEW c
  PROVE  ReceiveAll(c, s \o t) = ReceiveAll(ReceiveAll(c, s), t)
<1> DEFINE k == Len(s)
           m == Len(t)
<1>0. k \in Nat /\ m \in Nat /\ Len(s \o t) = k + m
      /\ (\A n \in 1 .. k : (s \o t)[n] = s[n])
      /\ (\A n \in 1 .. m : (s \o t)[k + n] = t[n])
  OBVIOUS
<1>1. PICK f : IsCourse(f, c, s, k)
  BY <1>0, CourseExists
<1>2. PICK h : IsCourse(h, f[k], t, m)
  BY <1>0, CourseExists
<1>3. ReceiveAll(c, s) = f[k] /\ ReceiveAll(f[k], t) = h[m]
  BY <1>0, <1>1, <1>2, ReceiveAllIs
<1> DEFINE j == [n \in 0 .. k + m |-> IF n <= k THEN f[n] ELSE h[n - k]]
<1> HIDE DEF k, m
<1>4. h[0] = f[k]
  BY <1>0, <1>2 DEF IsCourse
<1>5. ASSUME NEW n \in 0 .. k + m
      PROVE  j[n] = IF n = 0 THEN c ELSE Receive(j[n - 1], (s \o t)[n])
  <2>1. CASE n = 0
    BY <1>0, <1>1, <2>1 DEF IsCourse
  <2>2. CASE n \in 1 .. k
    <3>1. j[n] = f[n] /\ j[n - 1] = f[n - 1]
      <4>1. /\ n - 1 \in 0 .. k + m /\ n <= k /\ n - 1 <= k
            /\ n \in 0 .. k + m
        BY <1>0, <2>2
      <4> QED
        BY <4>1
    <3>2. f[n] = Receive(f[n - 1], s[n])
      BY <1>0, <1>1, <2>2 DEF IsCourse
    <3>3. (s \o t)[n] = s[n] /\ n # 0
      BY <1>0, <2>2
    <3> QED
      BY <2>2, <3>1, <3>2, <3>3
  <2>3. CASE n > k
    <3>1. n - k \in 1 .. m /\ n = k + (n - k) /\ n # 0
      BY <1>0, <2>3
    <3>2. (s \o t)[n] = t[n - k]
      BY <1>0, <3>1
    <3>3. j[n] = h[n - k]
      BY <1>0, <2>3
    <3>4. j[n - 1] = h[(n - k) - 1]
      BY <1>0, <1>4, <2>3
    <3>5. h[n - k] = Receive(h[(n - k) - 1], t[n - k])
      <4>1. \A i \in 1 .. m : h[i] = Receive(h[i - 1], t[i])
        BY <1>0, <1>2 DEF IsCourse
      <4> QED
        BY <3>1, <4>1
    <3> QED
      BY <3>1, <3>2, <3>3, <3>4, <3>5
  <2> QED
    BY <1>0, <2>1, <2>2, <2>3
<1>6. IsCourse(j, c, s \o t, k + m)
  <2>1. j = [n \in 0 .. k + m |-> j[n]]
    OBVIOUS
  <2> HIDE DEF j
  <2> QED
    BY <1>5, <2>1 DEF IsCourse
<1>7. j[k + m] = h[m]
  <2>1. CASE m = 0
    BY <1>0, <1>4, <2>1
  <2>2. CASE m # 0
    <3>1. k + m \in 0 .. k + m /\ ~(k + m <= k) /\ (k + m) - k = m
      BY <1>0, <2>2
    <3> QED
      BY <3>1
  <2> QED
    BY <2>1, <2>2
<1> HIDE DEF j
<1>8. ReceiveAll(c, s \o t) = j[k + m]
  <2>1. Len(s \o t) \in Nat /\ IsCourse(j, c, s \o t, Len(s \o t))
    BY <1>0, <1>6
  <2>2. ReceiveAll(c, s \o t) = j[Len(s \o t)]
    BY <2>1, ReceiveAllIs
  <2> QED
    BY <1>0, <2>2
<1> QED
  BY <1>3, <1>7, <1>8

LEMMA ReceiveThen ==
  ASSUME NEW S, NEW s \in Seq(S), NEW l \in S, NEW c
  PROVE  ReceiveAll(c, s \o <<l>>) = Receive(ReceiveAll(c, s), l)
<1> DEFINE w == <<l>>
           a == ReceiveAll(c, s)
<1>1. w \in Seq(S)
  OBVIOUS
<1>2. ReceiveAll(a, w) = Receive(a, l)
  BY ReceiveOne
<1> HIDE DEF w
<1>3. ReceiveAll(c, s \o w) = ReceiveAll(a, w)
  BY <1>1, ReceiveMore
<1> QED
  BY <1>2, <1>3 DEF w

-----------------------------------------------------------------------------
(* What a line tells a client.                                             *)

ToldOpen(c, l) ==
  IF Quiet(l) THEN c.open
  ELSE CASE l.type = "start" -> c.open \cup {l.idx}
         [] l.type = "stop" -> c.open \ {l.idx}
         [] OTHER -> c.open

ToldEnds(c, l) ==
  IF ~Quiet(l) /\ l.type \in {"mstop", "done"} THEN c.ends + 1 ELSE c.ends

ToldFailed(c, l) == c.failed \/ (~Quiet(l) /\ l.type = "error")

ToldReason(c, l) ==
  IF Quiet(l) THEN c.reason
  ELSE CASE l.type = "mdelta" -> l.text[1]
         [] l.type = "finish" -> "upstream"
         [] OTHER -> c.reason

Told(c, l, d) ==
  /\ d.open = ToldOpen(c, l) /\ d.ends = ToldEnds(c, l)
  /\ d.failed = ToldFailed(c, l) /\ d.reason = ToldReason(c, l)

Same(c, d) ==
  d.open = c.open /\ d.ends = c.ends /\ d.failed = c.failed /\ d.reason = c.reason

(* A line is left unfinished, or its rest is forgotten.                    *)
LEMMA TailSet ==
  ASSUME NEW c, ClientOK(c), NEW v \in Seq(Lines), Len(v) <= 1,
         NEW d, d = [c EXCEPT !.tail = v]
  PROVE  ClientOK(d) /\ d.tail = v /\ Same(c, d)
<1>1. c = [f \in ClientFields |-> c[f]]
  BY DEF ClientOK
<1>2. /\ d = [f \in ClientFields |-> d[f]]
      /\ \A f \in ClientFields : d[f] = IF f = "tail" THEN v ELSE c[f]
  BY <1>1
<1>3. /\ d.tail = v /\ d.open = c.open /\ d.ends = c.ends /\ d.failed = c.failed
      /\ d.reason = c.reason
  BY <1>2 DEF ClientFields
<1> QED
  BY <1>2, <1>3 DEF ClientOK, Same

(* A text goes on, and the reason is told.                                 *)
LEMMA TextSet ==
  ASSUME NEW c, ClientOK(c), NEW i, NEW w, NEW d, d = [c EXCEPT !.text[i] = w]
  PROVE  ClientOK(d) /\ d.tail = c.tail /\ Same(c, d)
<1>1. c = [f \in ClientFields |-> c[f]]
  BY DEF ClientOK
<1>2. /\ d = [f \in ClientFields |-> d[f]]
      /\ \A f \in ClientFields : f # "text" => d[f] = c[f]
  BY <1>1
<1>3. /\ d.tail = c.tail /\ d.open = c.open /\ d.ends = c.ends /\ d.failed = c.failed
      /\ d.reason = c.reason
  BY <1>2 DEF ClientFields
<1> QED
  BY <1>2, <1>3 DEF ClientOK, Same

Reasoned(c, r, i, w) == [c EXCEPT !.reason = r, !.text[i] = w]

LEMMA ReasonSet ==
  ASSUME NEW c, ClientOK(c), NEW i, NEW w, NEW r \in Reasons,
         NEW d, d = Reasoned(c, r, i, w)
  PROVE  /\ ClientOK(d) /\ d.tail = c.tail /\ d.open = c.open /\ d.ends = c.ends
         /\ d.failed = c.failed /\ d.reason = r
<1>1. c = [f \in ClientFields |-> c[f]]
  BY DEF ClientOK
<1>2. /\ d = [f \in ClientFields |-> d[f]]
      /\ \A f \in ClientFields : f \notin {"text", "reason"} => d[f] = c[f]
      /\ d["reason"] = r
  BY <1>1 DEF ClientFields, Reasoned
<1>3. /\ d.tail = c.tail /\ d.open = c.open /\ d.ends = c.ends /\ d.failed = c.failed
      /\ d.reason = r
  BY <1>2 DEF ClientFields
<1> QED
  BY <1>2, <1>3 DEF ClientOK

LEMMA QuietTells ==
  ASSUME NEW c, ClientOK(c), NEW l, Quiet(l), NEW d
  PROVE  Told(c, l, d) <=> Same(c, d)
BY DEF Told, Same, ToldOpen, ToldEnds, ToldFailed, ToldReason, ClientOK

LEMMA ApplyFinish ==
  ASSUME NEW c, ClientOK(c), NEW l, l.type = "finish", NEW d, d = Apply(c, l)
  PROVE  /\ ClientOK(d) /\ d.tail = c.tail /\ d.open = c.open /\ d.ends = c.ends
         /\ d.failed = c.failed /\ d.reason = "upstream"
<1> DEFINE w == IF l.text = NoText THEN c.text[l.idx] ELSE c.text[l.idx] \o l.text
           i == l.idx
           r == "upstream"
<1>1. d = Reasoned(c, r, i, w)
  BY DEF Apply, Reasoned
<1>2. r \in Reasons /\ r = "upstream"
  BY DEF Reasons, Closed!Reasons
<1> HIDE DEF w, i, r
<1>3. /\ ClientOK(d) /\ d.tail = c.tail /\ d.open = c.open /\ d.ends = c.ends
      /\ d.failed = c.failed /\ d.reason = r
  BY <1>1, <1>2, ReasonSet
<1> QED
  BY <1>2, <1>3

LEMMA ApplyTells ==
  ASSUME NEW c, ClientOK(c), NEW l, LineOK(l), l.k = "data", l.whole
  PROVE  ClientOK(Apply(c, l)) /\ Apply(c, l).tail = c.tail /\ Told(c, l, Apply(c, l))
<1> USE DEF ClientOK, ClientFields, Told, ToldOpen, ToldEnds, ToldFailed, ToldReason,
        Quiet, LineOK, Lines, Reasons, Closed!Reasons
<1>1. CASE l.type = "start"
  BY <1>1 DEF Apply
<1>2. CASE l.type = "stop"
  BY <1>2 DEF Apply
<1>3. CASE l.type \in {"delta", "chunk"}
  <2> DEFINE d == [c EXCEPT !.text[l.idx] = @ \o l.text]
  <2>1. ClientOK(d) /\ d.tail = c.tail /\ Same(c, d)
    BY TextSet
  <2>2. Apply(c, l) \in {c, d}
    BY <1>3 DEF Apply
  <2>3. Quiet(l)
    BY <1>3
  <2>4. ClientOK(c) /\ Same(c, c)
    BY DEF Same
  <2> HIDE DEF d, Quiet, ClientOK, Told, LineOK
  <2> QED
    BY <2>1, <2>2, <2>3, <2>4, QuietTells
<1>4. CASE l.type = "finish"
  <2>1. LET d == Apply(c, l)
        IN  /\ ClientOK(d) /\ d.tail = c.tail /\ d.open = c.open /\ d.ends = c.ends
            /\ d.failed = c.failed /\ d.reason = "upstream"
    <3> HIDE DEF ClientOK
    <3> QED
      BY <1>4, ApplyFinish
  <2> QED
    BY <1>4, <2>1
<1>5. CASE l.type = "mdelta"
  <2>1. PICK r \in Closed!Reasons : l.text = <<r>>
    BY <1>5
  <2>2. l.text[1] = r
    BY <2>1
  <2>3. Apply(c, l) = [c EXCEPT !.reason = r]
    BY <1>5, <2>2 DEF Apply
  <2> QED
    BY <1>5, <2>2, <2>3
<1>6. CASE l.type \in {"mstop", "done"}
  <2>1. Apply(c, l) = [c EXCEPT !.ends = c.ends + 1]
    BY <1>6 DEF Apply
  <2>2. c.ends + 1 \in Nat
    OBVIOUS
  <2> DEFINE n == c.ends + 1
  <2>3. Apply(c, l) = [c EXCEPT !.ends = n] /\ n \in Nat
    BY <2>1, <2>2
  <2>4. ~Quiet(l) /\ ToldEnds(c, l) = n
    BY <1>6
  <2> HIDE DEF n
  <2> QED
    BY <1>6, <2>3, <2>4
<1>7. CASE l.type = "error"
  BY <1>7 DEF Apply
<1>8. CASE l.type \notin {"start", "stop", "delta", "chunk", "finish", "mdelta",
                          "mstop", "done", "error"}
  BY <1>8 DEF Apply
<1> QED
  BY <1>1, <1>2, <1>3, <1>4, <1>5, <1>6, <1>7, <1>8

LEMMA TakeTells ==
  ASSUME NEW c, ClientOK(c), NEW l, LineOK(l)
  PROVE  ClientOK(Take(c, l)) /\ Take(c, l).tail = c.tail /\ Told(c, l, Take(c, l))
<1> DEFINE d == [c EXCEPT !.data = Append(@, [type |-> l.type, whole |-> l.whole])]
<1>1. ClientOK(d) /\ d.tail = c.tail /\ Same(c, d)
  BY DEF ClientOK, ClientFields, Same
<1>2. CASE l.k = "data" /\ l.whole
  <2>1. Take(c, l) = Apply(d, l)
    BY <1>2 DEF Take, LineOK, Lines, Blank, Line
  <2>2. \A e : Told(d, l, e) => Told(c, l, e)
    BY <1>1 DEF Told, Same, ToldOpen, ToldEnds, ToldFailed, ToldReason
  <2> HIDE DEF d
  <2> QED
    BY <1>1, <1>2, <2>1, <2>2, ApplyTells
<1>3. CASE l.k = "data" /\ ~l.whole
  <2>1. Take(c, l) = d
    BY <1>3 DEF Take, LineOK, Lines, Blank, Line
  <2>2. Quiet(l)
    BY <1>3 DEF Quiet
  <2> HIDE DEF d
  <2> QED
    BY <1>1, <2>1, <2>2, QuietTells
<1>4. CASE l.k # "data"
  <2>1. \/ Take(c, l) = [c EXCEPT !.name = l.type]
        \/ \E m : Take(c, l) = [c EXCEPT !.malformed = m, !.name = "cut", !.data = <<>>]
        \/ Take(c, l) = c
    <3>1. CASE l.k = "event"
      <4>1. l # Blank
        BY <3>1 DEF Blank, Line
      <4>2. Take(c, l) = [c EXCEPT !.name = l.type]
        BY <3>1, <4>1 DEF Take
      <4> QED
        BY <4>2
    <3>2. CASE l.k # "event" /\ l = Blank
      BY <1>4, <3>2 DEF Take, Blank, Line
    <3>3. CASE l.k # "event" /\ l # Blank
      BY <1>4, <3>3 DEF Take
    <3> QED
      BY <3>1, <3>2, <3>3
  <2>2. ClientOK(Take(c, l)) /\ Take(c, l).tail = c.tail /\ Same(c, Take(c, l))
    BY <2>1 DEF Same, ClientOK, ClientFields
  <2>3. Quiet(l)
    BY <1>4 DEF Quiet
  <2> QED
    BY <2>2, <2>3, QuietTells
<1> QED
  BY <1>2, <1>3, <1>4 DEF LineOK, Lines

-----------------------------------------------------------------------------
(* What several lines tell a client.                                       *)

OtherLines == {l \in GoodLines : ~Ending(l)}

MuteLines == {l \in GoodLines : Mute(l)}

(* A client whose unfinished line is one that may have come.               *)
Sane(c) == ClientOK(c) /\ (c.tail # <<>> => LineOK(c.tail[1]))

(* How often the stream has ended for it, or will when it hangs up.        *)
Heaviest(c) == c.ends + (IF c.tail # <<>> /\ Ending(c.tail[1]) THEN 1 ELSE 0)

LEMMA HeaviestNatural ==
  ASSUME NEW c, Sane(c)
  PROVE  Heaviest(c) \in Nat
BY DEF Heaviest, Sane, ClientOK

(* What is left of a line that another line runs into.                     *)
Spoilt(y) == [y EXCEPT !.type = "cut", !.whole = FALSE]

LEMMA SpoiltIs ==
  ASSUME NEW y \in Lines
  PROVE  Spoilt(y) \in Lines /\ Spoilt(y).type = "cut" /\ ~Spoilt(y).whole
<1>1. ASSUME NEW b \in Types, NEW w \in BOOLEAN
      PROVE  /\ [y EXCEPT !.type = b, !.whole = w] \in Lines
             /\ [y EXCEPT !.type = b, !.whole = w].type = b
             /\ [y EXCEPT !.type = b, !.whole = w].whole = w
  BY DEF Lines
<1>2. "cut" \in Types /\ FALSE \in BOOLEAN
  BY DEF Types
<1> QED
  BY <1>1, <1>2 DEF Spoilt

(* What a client was told is not taken back.                               *)
Later(c, d) == c.ends <= d.ends /\ (c.failed => d.failed)

LEMMA ToldLater ==
  ASSUME NEW c, ClientOK(c), NEW d, ClientOK(d), NEW l, Told(c, l, d)
  PROVE  Later(c, d) /\ (Mute(l) => d.reason = c.reason)
BY DEF ClientOK, Told, ToldEnds, ToldFailed, ToldReason, Mute, Later

LEMMA Subsequences ==
  ASSUME NEW A, NEW B, A \subseteq B, NEW s \in Seq(A)
  PROVE  s \in Seq(B)
OBVIOUS

LEMMA ReceiveTells ==
  ASSUME NEW c, Sane(c), NEW l, LineOK(l)
  PROVE  /\ ClientOK(Receive(c, l)) /\ Receive(c, l).tail = <<>> /\ Sane(Receive(c, l))
         /\ c.tail = <<>> => Told(c, l, Receive(c, l))
         /\ Heaviest(Receive(c, l)) <= Heaviest(c) + (IF Ending(l) THEN 1 ELSE 0)
         /\ Later(c, Receive(c, l))
         /\ Mute(l) /\ (c.tail # <<>> => Mute(c.tail[1])) => Receive(c, l).reason = c.reason
<1>1. CASE c.tail = <<>>
  <2>1. Receive(c, l) = Take(c, l)
    BY <1>1 DEF Receive
  <2>2. /\ ClientOK(Take(c, l)) /\ Take(c, l).tail = <<>>
        /\ Told(c, l, Take(c, l))
    BY <1>1, TakeTells DEF Sane
  <2>3. Take(c, l).ends <= c.ends + (IF Ending(l) THEN 1 ELSE 0)
    BY <2>2 DEF Told, ToldEnds, Ending, Sane, ClientOK
  <2>4. Heaviest(Take(c, l)) = Take(c, l).ends /\ Heaviest(c) = c.ends
    <3>1. Take(c, l).ends \in Nat /\ c.ends \in Nat
      BY <2>2 DEF ClientOK, Sane
    <3> QED
      BY <1>1, <2>2, <3>1 DEF Heaviest
  <2>5. Later(c, Take(c, l)) /\ (Mute(l) => Take(c, l).reason = c.reason)
    <3>1. ClientOK(c)
      BY DEF Sane
    <3> QED
      BY <2>2, <3>1, ToldLater
  <2> QED
    BY <1>1, <2>1, <2>2, <2>3, <2>4, <2>5 DEF Sane
<1>2. CASE c.tail # <<>>
  <2> DEFINE t == [c EXCEPT !.tail = <<>>]
             x == IF l = Blank THEN c.tail[1]
                  ELSE [c.tail[1] EXCEPT !.type = "cut", !.whole = FALSE]
  <2>1. Receive(c, l) = Take(t, x)
    BY <1>2 DEF Receive
  <2>2. /\ ClientOK(t) /\ t.tail = <<>> /\ t.ends = c.ends
        /\ t.failed = c.failed /\ t.reason = c.reason
    <3> DEFINE v == <<>>
    <3>1. ClientOK(c) /\ v \in Seq(Lines) /\ Len(v) <= 1
      BY DEF Sane
    <3>2. t = [c EXCEPT !.tail = v]
      OBVIOUS
    <3>3. v = <<>>
      OBVIOUS
    <3> HIDE DEF v, t
    <3>4. ClientOK(t) /\ t.tail = v /\ Same(c, t)
      BY <3>1, <3>2, TailSet
    <3> QED
      BY <3>3, <3>4 DEF Same
  <2>3. LineOK(x) /\ (Ending(x) => Ending(c.tail[1])) /\ (Mute(c.tail[1]) => Mute(x))
    <3>1. LineOK(c.tail[1])
      BY <1>2 DEF Sane
    <3>2. CASE l = Blank
      BY <3>1, <3>2
    <3>3. CASE l # Blank
      <4>1. x = [c.tail[1] EXCEPT !.type = "cut", !.whole = FALSE]
        BY <3>3
      <4>2. x \in Lines /\ x.type = "cut" /\ ~x.whole
        <5>1. \A y \in Lines : Spoilt(y) \in Lines /\ Spoilt(y).type = "cut" /\ ~Spoilt(y).whole
          BY SpoiltIs
        <5>2. c.tail[1] \in Lines
          BY <3>1 DEF LineOK
        <5>3. x = Spoilt(c.tail[1])
          BY <4>1 DEF Spoilt
        <5> HIDE DEF x
        <5> QED
          BY <5>1, <5>2, <5>3
      <4> HIDE DEF x
      <4> QED
        BY <4>2 DEF LineOK, Ending, Mute, Quiet
    <3> QED
      BY <3>2, <3>3
  <2> HIDE DEF t, x
  <2>4. ClientOK(Take(t, x)) /\ Take(t, x).tail = <<>> /\ Told(t, x, Take(t, x))
    BY <2>2, <2>3, TakeTells
  <2>5. Take(t, x).ends <= Heaviest(c)
    BY <1>2, <2>2, <2>3, <2>4 DEF Told, ToldEnds, Ending, Sane, ClientOK, Heaviest
  <2>6. Heaviest(c) <= Heaviest(c) + (IF Ending(l) THEN 1 ELSE 0)
    <3>1. Heaviest(c) \in Nat
      BY DEF Heaviest, Sane, ClientOK
    <3> QED
      BY <3>1
  <2>7. Heaviest(Take(t, x)) = Take(t, x).ends
    <3>1. Take(t, x).ends \in Nat
      BY <2>4 DEF ClientOK
    <3> QED
      BY <2>4, <3>1 DEF Heaviest
  <2>8. Heaviest(Take(t, x)) <= Heaviest(c) + (IF Ending(l) THEN 1 ELSE 0)
    <3>1. Heaviest(Take(t, x)) \in Nat /\ Heaviest(c) \in Nat
      BY <2>4, <2>7 DEF Heaviest, Sane, ClientOK
    <3> QED
      BY <2>5, <2>6, <2>7, <3>1
  <2>9. Later(t, Take(t, x)) /\ (Mute(x) => Take(t, x).reason = t.reason)
    BY <2>2, <2>4, ToldLater
  <2>10. Later(c, Take(t, x)) /\ (Mute(c.tail[1]) => Take(t, x).reason = c.reason)
    BY <2>2, <2>3, <2>9 DEF Later
  <2> QED
    BY <1>2, <2>1, <2>4, <2>8, <2>10 DEF Sane
<1> QED
  BY <1>1, <1>2

LEMMA LinesTell ==
  ASSUME NEW c, Sane(c), NEW out \in Seq(GoodLines)
  PROVE  /\ Sane(ReceiveAll(c, out))
         /\ c.tail = <<>> => ReceiveAll(c, out).tail = <<>>
         /\ out \in Seq(OtherLines) => Heaviest(ReceiveAll(c, out)) <= Heaviest(c)
         /\ c.tail = <<>> /\ out \in Seq(QuietLines) => Same(c, ReceiveAll(c, out))
         /\ Later(c, ReceiveAll(c, out))
         /\ out \in Seq(MuteLines) /\ (c.tail # <<>> => Mute(c.tail[1])) =>
              /\ ReceiveAll(c, out).reason = c.reason
              /\ ReceiveAll(c, out).tail \in {<<>>, c.tail}
<1>0. Len(out) \in Nat /\ \A n \in 1 .. Len(out) : LineOK(out[n])
  BY DEF GoodLines
<1>1. PICK f : IsCourse(f, c, out, Len(out))
  BY <1>0, CourseExists
<1>2. /\ f[0] = c
      /\ \A n \in 1 .. Len(out) : f[n] = Receive(f[n - 1], out[n])
  BY <1>0, <1>1 DEF IsCourse
<1> DEFINE A == {n \in Nat : n <= Len(out) =>
                   /\ Sane(f[n])
                   /\ c.tail = <<>> => f[n].tail = <<>>
                   /\ out \in Seq(OtherLines) => Heaviest(f[n]) <= Heaviest(c)
                   /\ c.tail = <<>> /\ out \in Seq(QuietLines) => Same(c, f[n])
                   /\ Later(c, f[n])
                   /\ out \in Seq(MuteLines) /\ (c.tail # <<>> => Mute(c.tail[1])) =>
                        f[n].reason = c.reason /\ f[n].tail \in {<<>>, c.tail}}
<1>3. 0 \in A
  <2>1. Heaviest(c) \in Nat
    BY HeaviestNatural
  <2>2. Later(c, c)
    BY DEF Later, Sane, ClientOK
  <2> QED
    BY <1>2, <2>1, <2>2 DEF Same
<1>4. ASSUME NEW n \in Nat, n \in A PROVE n + 1 \in A
  <2> SUFFICES ASSUME n + 1 <= Len(out)
               PROVE  /\ Sane(f[n + 1])
                      /\ c.tail = <<>> => f[n + 1].tail = <<>>
                      /\ out \in Seq(OtherLines) => Heaviest(f[n + 1]) <= Heaviest(c)
                      /\ c.tail = <<>> /\ out \in Seq(QuietLines) => Same(c, f[n + 1])
                      /\ Later(c, f[n + 1])
                      /\ out \in Seq(MuteLines) /\ (c.tail # <<>> => Mute(c.tail[1])) =>
                           f[n + 1].reason = c.reason /\ f[n + 1].tail \in {<<>>, c.tail}
    OBVIOUS
  <2>1. n + 1 \in 1 .. Len(out) /\ (n + 1) - 1 = n
    BY <1>0
  <2>2. f[n + 1] = Receive(f[n], out[n + 1]) /\ LineOK(out[n + 1]) /\ Sane(f[n])
    BY <1>0, <1>2, <1>4, <2>1
  <2> DEFINE d == f[n]
             e == f[n + 1]
             l == out[n + 1]
  <2>3. /\ Sane(e) /\ e.tail = <<>>
        /\ d.tail = <<>> => Told(d, l, e)
        /\ Heaviest(e) <= Heaviest(d) + (IF Ending(l) THEN 1 ELSE 0)
        /\ Later(d, e)
        /\ Mute(l) /\ (d.tail # <<>> => Mute(d.tail[1])) => e.reason = d.reason
    BY <2>2, ReceiveTells
  <2>4. ASSUME out \in Seq(OtherLines) PROVE Heaviest(e) <= Heaviest(c)
    <3>1. ~Ending(l)
      BY <2>1, <2>4 DEF OtherLines
    <3>2. Heaviest(d) <= Heaviest(c)
      BY <1>4, <2>1, <2>4
    <3>3. Sane(c) /\ Sane(d) /\ Sane(e)
      BY <2>2, <2>3
    <3> HIDE DEF d, e, l
    <3>4. Heaviest(c) \in Nat /\ Heaviest(d) \in Nat /\ Heaviest(e) \in Nat
      BY <3>3, HeaviestNatural
    <3> QED
      BY <2>3, <3>1, <3>2, <3>4
  <2>5. ASSUME c.tail = <<>>, out \in Seq(QuietLines) PROVE Same(c, e)
    <3>1. Quiet(l)
      BY <2>1, <2>5 DEF QuietLines
    <3>2. Same(c, d) /\ d.tail = <<>>
      BY <1>4, <2>1, <2>5
    <3>3. Same(d, e)
      BY <2>2, <2>3, <3>1, <3>2, QuietTells DEF Sane
    <3> QED
      BY <3>2, <3>3 DEF Same
  <2>6. Later(c, e)
    <3>1. Later(c, d)
      BY <1>4, <2>1
    <3>2. c.ends \in Nat /\ d.ends \in Nat /\ e.ends \in Nat
      BY <2>2, <2>3 DEF Sane, ClientOK
    <3> HIDE DEF d, e, l
    <3> QED
      BY <2>3, <3>1, <3>2 DEF Later
  <2>7. ASSUME out \in Seq(MuteLines), c.tail # <<>> => Mute(c.tail[1])
        PROVE  e.reason = c.reason /\ e.tail \in {<<>>, c.tail}
    <3>1. Mute(l)
      BY <2>1, <2>7 DEF MuteLines
    <3>2. d.reason = c.reason /\ d.tail \in {<<>>, c.tail}
      BY <1>4, <2>1, <2>7
    <3> HIDE DEF d, e, l
    <3> QED
      BY <2>3, <2>7, <3>1, <3>2
  <2> QED
    BY <2>3, <2>4, <2>5, <2>6, <2>7
<1>5. Nat \subseteq A
  <2> HIDE DEF A
  <2> QED
    BY <1>3, <1>4, SetOfAllNaturals
<1>6. ReceiveAll(c, out) = f[Len(out)]
  BY <1>0, <1>1, ReceiveAllIs
<1> QED
  BY <1>0, <1>5, <1>6

LEMMA HangUpTells ==
  ASSUME NEW c, Sane(c)
  PROVE  /\ ClientOK(HangUp(c)) /\ HangUp(c).tail = <<>>
         /\ Later(c, HangUp(c)) /\ HangUp(c).ends <= Heaviest(c)
         /\ (c.tail # <<>> => Mute(c.tail[1])) => HangUp(c).reason = c.reason
         /\ c.tail = <<>> => HangUp(c) = c
<1>1. CASE c.tail = <<>>
  <2>1. HangUp(c) = c
    BY <1>1 DEF HangUp
  <2>2. c.ends \in Nat
    BY DEF Sane, ClientOK
  <2> QED
    BY <1>1, <2>1, <2>2 DEF Sane, Later, Heaviest
<1>2. CASE c.tail # <<>>
  <2> DEFINE t == [c EXCEPT !.tail = <<>>]
             l == c.tail[1]
  <2>1. HangUp(c) = Take(t, l)
    BY <1>2 DEF HangUp
  <2>2. /\ ClientOK(t) /\ t.tail = <<>> /\ t.ends = c.ends
        /\ t.failed = c.failed /\ t.reason = c.reason
    <3> DEFINE v == <<>>
    <3>1. ClientOK(c) /\ v \in Seq(Lines) /\ Len(v) <= 1
      BY DEF Sane
    <3>2. t = [c EXCEPT !.tail = v]
      OBVIOUS
    <3>3. v = <<>>
      OBVIOUS
    <3> HIDE DEF v, t
    <3>4. ClientOK(t) /\ t.tail = v /\ Same(c, t)
      BY <3>1, <3>2, TailSet
    <3> QED
      BY <3>3, <3>4 DEF Same
  <2>3. LineOK(l)
    BY <1>2 DEF Sane
  <2> HIDE DEF t
  <2>4. ClientOK(Take(t, l)) /\ Take(t, l).tail = <<>> /\ Told(t, l, Take(t, l))
    BY <2>2, <2>3, TakeTells
  <2>5. Later(t, Take(t, l)) /\ (Mute(l) => Take(t, l).reason = t.reason)
    BY <2>2, <2>4, ToldLater
  <2>6. Take(t, l).ends <= Heaviest(c)
    <3>1. Heaviest(c) = IF Ending(l) THEN c.ends + 1 ELSE c.ends
      <4>1. c.ends \in Nat
        BY DEF Sane, ClientOK
      <4> QED
        BY <1>2, <4>1 DEF Heaviest
    <3>2. Take(t, l).ends = ToldEnds(t, l)
      BY <2>4 DEF Told
    <3>3. c.ends \in Nat
      BY DEF Sane, ClientOK
    <3> HIDE DEF l
    <3>4. ToldEnds(t, l) = IF ~Quiet(l) /\ l.type \in {"mstop", "done"} THEN c.ends + 1 ELSE c.ends
      BY <2>2 DEF ToldEnds
    <3> QED
      BY <3>1, <3>2, <3>3, <3>4 DEF Ending
  <2> QED
    BY <1>2, <2>1, <2>2, <2>4, <2>5, <2>6 DEF Later
<1> QED
  BY <1>1, <1>2

(* One line that counts, among quiet ones.                                 *)
LEMMA OneTells ==
  ASSUME NEW c, Sane(c), c.tail = <<>>, NEW l \in GoodLines,
         NEW q \in Seq(QuietLines), NEW v \in Seq(QuietLines),
         NEW d, d = ReceiveAll(c, (q \o <<l>>) \o v)
  PROVE  Told(c, l, d) /\ Sane(d) /\ d.tail = <<>>
<1> DEFINE a == ReceiveAll(c, q)
           b == Receive(a, l)
<1>1. q \in Seq(GoodLines) /\ v \in Seq(GoodLines) /\ <<l>> \in Seq(GoodLines)
      /\ q \o <<l>> \in Seq(GoodLines)
  <2>1. QuietLines \subseteq GoodLines
    BY DEF QuietLines
  <2>2. q \in Seq(GoodLines) /\ v \in Seq(GoodLines)
    BY <2>1, Subsequences
  <2>3. <<l>> \in Seq(GoodLines)
    OBVIOUS
  <2>4. \A s, t \in Seq(GoodLines) : s \o t \in Seq(GoodLines)
    OBVIOUS
  <2> QED
    BY <2>2, <2>3, <2>4
<1>2. Sane(a) /\ a.tail = <<>> /\ Same(c, a)
  BY <1>1, LinesTell
<1>3. ReceiveAll(c, q \o <<l>>) = b
  BY <1>1, ReceiveThen
<1>4. d = ReceiveAll(b, v)
  <2> DEFINE w == q \o <<l>>
  <2>1. w \in Seq(GoodLines) /\ d = ReceiveAll(c, w \o v) /\ ReceiveAll(c, w) = b
    BY <1>1, <1>3
  <2> HIDE DEF w, b
  <2> QED
    BY <1>1, <2>1, ReceiveMore
<1> HIDE DEF a, b
<1>5. Sane(b) /\ b.tail = <<>> /\ Told(a, l, b)
  <2>1. LineOK(l)
    BY DEF GoodLines
  <2> QED
    BY <1>2, <2>1, ReceiveTells DEF b
<1>6. Sane(d) /\ d.tail = <<>> /\ Same(b, d)
  BY <1>1, <1>4, <1>5, LinesTell
<1> QED
  BY <1>2, <1>5, <1>6 DEF Same, Told, ToldOpen, ToldEnds, ToldFailed, ToldReason

(* One line that may end the stream, among lines that do not.              *)
LEMMA OneEnding ==
  ASSUME NEW c, Sane(c), NEW l \in GoodLines,
         NEW u \in Seq(OtherLines), NEW v \in Seq(OtherLines),
         NEW d, d = ReceiveAll(c, (u \o <<l>>) \o v)
  PROVE  Heaviest(d) <= Heaviest(c) + 1
<1> DEFINE a == ReceiveAll(c, u)
           b == Receive(a, l)
<1>1. u \in Seq(GoodLines) /\ v \in Seq(GoodLines) /\ <<l>> \in Seq(GoodLines)
      /\ u \o <<l>> \in Seq(GoodLines)
  <2>1. OtherLines \subseteq GoodLines
    BY DEF OtherLines
  <2>2. u \in Seq(GoodLines) /\ v \in Seq(GoodLines)
    BY <2>1, Subsequences
  <2>3. <<l>> \in Seq(GoodLines)
    OBVIOUS
  <2>4. \A s, t \in Seq(GoodLines) : s \o t \in Seq(GoodLines)
    OBVIOUS
  <2> QED
    BY <2>2, <2>3, <2>4
<1>2. Sane(a) /\ Heaviest(a) <= Heaviest(c)
  BY <1>1, LinesTell
<1>3. ReceiveAll(c, u \o <<l>>) = b
  BY <1>1, ReceiveThen
<1>4. d = ReceiveAll(b, v)
  <2> DEFINE w == u \o <<l>>
  <2>1. w \in Seq(GoodLines) /\ d = ReceiveAll(c, w \o v) /\ ReceiveAll(c, w) = b
    BY <1>1, <1>3
  <2> HIDE DEF w, b
  <2> QED
    BY <1>1, <2>1, ReceiveMore
<1> HIDE DEF a, b
<1>5. Sane(b) /\ Heaviest(b) <= Heaviest(a) + (IF Ending(l) THEN 1 ELSE 0)
  <2>1. LineOK(l)
    BY DEF GoodLines
  <2> QED
    BY <1>2, <2>1, ReceiveTells DEF b
<1>6. Sane(d) /\ Heaviest(d) <= Heaviest(b)
  BY <1>1, <1>4, <1>5, LinesTell
<1>7. Heaviest(a) \in Nat /\ Heaviest(b) \in Nat /\ Heaviest(c) \in Nat /\ Heaviest(d) \in Nat
  BY <1>2, <1>5, <1>6, HeaviestNatural
<1> QED
  BY <1>2, <1>5, <1>6, <1>7

-----------------------------------------------------------------------------
(* The lines there are.                                                    *)

Reads(l, k, y, i, s) ==
  /\ l \in Lines
  /\ l.k = k /\ l.type = y /\ l.idx = i /\ l.text = s /\ l.whole = TRUE

LEMMA LineReads ==
  ASSUME NEW k \in Kinds, NEW y \in Types, NEW i \in Int, NEW s \in Payloads
  PROVE  Reads(Line(k, y, i, s), k, y, i, s)
BY DEF Reads, Line, Lines

LEMMA NoTextIs == NoText \in Payloads
BY DEF Payloads

(* Events of the upstream, by their names.                                 *)
LEMMA EventLineIs ==
  ASSUME NEW y \in Types
  PROVE  /\ EventLine(y) \in QuietLines
         /\ EventLine(y).k = "event" /\ EventLine(y).type = y /\ EventLine(y).whole = TRUE
<1>1. "event" \in Kinds /\ 0 \in Int
  BY DEF Kinds
<1>2. Reads(EventLine(y), "event", y, 0, NoText)
  BY <1>1, LineReads, NoTextIs DEF EventLine
<1> QED
  BY <1>2 DEF QuietLines, GoodLines, LineOK, Quiet, Reads

LEMMA DataLineReads ==
  ASSUME NEW y \in Types, NEW i \in Int, NEW s \in Payloads
  PROVE  Reads(DataLine(y, i, s), "data", y, i, s)
<1>1. "data" \in Kinds
  BY DEF Kinds
<1> QED
  BY <1>1, LineReads DEF DataLine

LEMMA BlankIs ==
  /\ Blank \in QuietLines /\ Blank.k = "blank" /\ Blank.type = "cut" /\ Blank.whole = TRUE
  /\ Junk \in QuietLines /\ Junk.k = "junk" /\ Junk.type = "cut" /\ Junk.whole = TRUE
<1>1. "blank" \in Kinds /\ "junk" \in Kinds /\ "cut" \in Types /\ 0 \in Int
  BY DEF Kinds, Types
<1>2. Reads(Blank, "blank", "cut", 0, NoText) /\ Reads(Junk, "junk", "cut", 0, NoText)
  BY <1>1, LineReads, NoTextIs DEF Blank, Junk
<1> QED
  BY <1>2 DEF QuietLines, GoodLines, LineOK, Quiet, Reads

(* Data lines the guards make up, and what they are to a client.           *)
LEMMA MadeLines ==
  /\ \A i \in Blocks : i \in Int /\ i # NoIndex
  /\ \A i \in Int : DataLine("stop", i, NoText) \in GoodLines
  /\ \A i \in Int : LET l == DataLine("stop", i, NoText)
                    IN  ~Quiet(l) /\ ~Ending(l) /\ Mute(l)
  /\ \A r \in Reasons : DataLine("mdelta", 0, <<r>>) \in GoodLines
  /\ \A r \in Reasons : ~Ending(DataLine("mdelta", 0, <<r>>))
  /\ DataLine("mstop", 0, NoText) \in GoodLines
  /\ ~Quiet(DataLine("mstop", 0, NoText)) /\ Mute(DataLine("mstop", 0, NoText))
  /\ Done \in GoodLines /\ ~Quiet(Done) /\ Mute(Done)
  /\ \A i \in Int, s \in Seq(Chars) : DataLine("delta", i, s) \in QuietLines
  /\ \A s \in Seq(Chars) : DataLine("chunk", 0, s) \in QuietLines
<1>1. {"stop", "mdelta", "mstop", "done", "delta", "chunk"} \subseteq Types /\ 0 \in Int
  BY DEF Types
<1>2. \A i \in Blocks : i \in Int /\ i # NoIndex
  BY StreamAssumption, FS_CardinalityType DEF NoIndex
<1>3. ASSUME NEW i \in Int
      PROVE  LET l == DataLine("stop", i, NoText)
             IN  l \in GoodLines /\ ~Quiet(l) /\ ~Ending(l) /\ Mute(l)
  <2> DEFINE l == DataLine("stop", i, NoText)
  <2>1. Reads(l, "data", "stop", i, NoText)
    BY <1>1, DataLineReads, NoTextIs
  <2> HIDE DEF l
  <2>2. l \in GoodLines /\ ~Quiet(l) /\ ~Ending(l) /\ Mute(l)
    BY <2>1 DEF Reads, GoodLines, LineOK, Quiet, Ending, Mute
  <2> QED
    BY <2>2 DEF l
<1>4. ASSUME NEW r \in Reasons
      PROVE  DataLine("mdelta", 0, <<r>>) \in GoodLines /\ ~Ending(DataLine("mdelta", 0, <<r>>))
  <2> DEFINE l == DataLine("mdelta", 0, <<r>>)
  <2>1. <<r>> \in Payloads
    BY DEF Payloads
  <2>2. Reads(l, "data", "mdelta", 0, <<r>>)
    BY <1>1, <2>1, DataLineReads
  <2> HIDE DEF l
  <2>3. l \in GoodLines /\ ~Ending(l)
    BY <2>2 DEF Reads, GoodLines, LineOK, Ending
  <2> QED
    BY <2>3 DEF l
<1>5. /\ DataLine("mstop", 0, NoText) \in GoodLines
      /\ ~Quiet(DataLine("mstop", 0, NoText)) /\ Mute(DataLine("mstop", 0, NoText))
  <2> DEFINE l == DataLine("mstop", 0, NoText)
  <2>1. Reads(l, "data", "mstop", 0, NoText)
    BY <1>1, DataLineReads, NoTextIs
  <2> HIDE DEF l
  <2>2. l \in GoodLines /\ ~Quiet(l) /\ Mute(l)
    BY <2>1 DEF Reads, GoodLines, LineOK, Quiet, Mute
  <2> QED
    BY <2>2 DEF l
<1>6. Done \in GoodLines /\ ~Quiet(Done) /\ Mute(Done)
  <2> DEFINE l == DataLine("done", 0, NoText)
  <2>1. Reads(l, "data", "done", 0, NoText)
    BY <1>1, DataLineReads, NoTextIs
  <2> HIDE DEF l
  <2>2. l \in GoodLines /\ ~Quiet(l) /\ Mute(l)
    BY <2>1 DEF Reads, GoodLines, LineOK, Quiet, Mute
  <2> QED
    BY <2>2 DEF l, Done
<1>7. ASSUME NEW y \in {"delta", "chunk"}, NEW i \in Int, NEW s \in Seq(Chars)
      PROVE  DataLine(y, i, s) \in QuietLines
  <2> DEFINE l == DataLine(y, i, s)
  <2>1. y \in Types /\ s \in Payloads
    BY <1>1 DEF Payloads
  <2>2. Reads(l, "data", y, i, s)
    BY <2>1, DataLineReads
  <2> HIDE DEF l
  <2>3. l \in QuietLines
    BY <2>2 DEF Reads, GoodLines, QuietLines, LineOK, Quiet
  <2> QED
    BY <2>3 DEF l
<1> QED
  BY <1>1, <1>2, <1>3, <1>4, <1>5, <1>6, <1>7

(* Lines that neither end a stream nor say why.                            *)
PlainLines == OtherLines \cap MuteLines

LEMMA QuietPlain ==
  QuietLines \subseteq PlainLines
BY DEF QuietLines, PlainLines, OtherLines, MuteLines, Ending, Mute

LEMMA PlainSeq ==
  ASSUME NEW s \in Seq(PlainLines)
  PROVE  s \in Seq(OtherLines) /\ s \in Seq(MuteLines) /\ s \in Seq(GoodLines)
<1>1. PlainLines \subseteq OtherLines /\ PlainLines \subseteq MuteLines
      /\ PlainLines \subseteq GoodLines
  BY DEF PlainLines, OtherLines
<1> QED
  BY <1>1, Subsequences

(* The stop that is made up for a block.                                   *)
LEMMA BlockStopTells ==
  ASSUME NEW i \in Blocks
  PROVE  /\ BlockStop(i) \in Seq(PlainLines)
         /\ \A c : Sane(c) /\ c.tail = <<>> =>
              LET d == ReceiveAll(c, BlockStop(i))
              IN  /\ Sane(d) /\ d.tail = <<>>
                  /\ d.open = c.open \ {i} /\ d.ends = c.ends
                  /\ d.failed = c.failed /\ d.reason = c.reason
<1> DEFINE l == DataLine("stop", i, NoText)
           q == <<Blank, EventLine("stop")>>
           v == <<Blank>>
<1>1. "stop" \in Types /\ i \in Int
  BY MadeLines DEF Types
<1>2. l \in GoodLines /\ ~Quiet(l) /\ ~Ending(l) /\ Mute(l) /\ l.type = "stop" /\ l.idx = i
  <2>1. Reads(l, "data", "stop", i, NoText)
    BY <1>1, DataLineReads, NoTextIs
  <2> QED
    BY <1>1, <2>1, MadeLines DEF Reads
<1>3. Blank \in QuietLines /\ EventLine("stop") \in QuietLines
  BY <1>1, BlankIs, EventLineIs
<1>4. q \in Seq(QuietLines) /\ v \in Seq(QuietLines)
  BY <1>3
<1>5. BlockStop(i) = (q \o <<l>>) \o v
  BY DEF BlockStop
<1>6. BlockStop(i) \in Seq(PlainLines)
  <2>1. l \in PlainLines /\ Blank \in PlainLines /\ EventLine("stop") \in PlainLines
    BY <1>2, <1>3, QuietPlain DEF PlainLines, OtherLines, MuteLines
  <2> HIDE DEF l
  <2> QED
    BY <2>1 DEF BlockStop, l
<1> HIDE DEF l, q, v
<1>7. ASSUME NEW c, Sane(c), c.tail = <<>>, NEW d, d = ReceiveAll(c, BlockStop(i))
      PROVE  /\ Sane(d) /\ d.tail = <<>>
             /\ d.open = c.open \ {i} /\ d.ends = c.ends
             /\ d.failed = c.failed /\ d.reason = c.reason
  <2>1. Told(c, l, d) /\ Sane(d) /\ d.tail = <<>>
    BY <1>2, <1>4, <1>5, <1>7, OneTells
  <2> QED
    BY <1>2, <1>7, <2>1 DEF Told, ToldOpen, ToldEnds, ToldFailed, ToldReason, Sane, ClientOK
<1> QED
  BY <1>6, <1>7

(* Lines that end a stream once.                                           *)
EndsOnce(out) ==
  \E u, v \in Seq(OtherLines) : \E e \in GoodLines : out = (u \o <<e>>) \o v

LEMMA EndsOnceWithin ==
  ASSUME NEW out, EndsOnce(out), NEW p \in Seq(OtherLines), NEW q \in Seq(OtherLines)
  PROVE  EndsOnce(p \o out) /\ EndsOnce(out \o q) /\ out \in Seq(GoodLines)
<1>1. PICK u \in Seq(OtherLines), v \in Seq(OtherLines), e \in GoodLines :
        out = (u \o <<e>>) \o v
  BY DEF EndsOnce
<1>2. p \o u \in Seq(OtherLines) /\ v \o q \in Seq(OtherLines)
  <2>1. p \o u \in Seq(OtherLines)
    OBVIOUS
  <2>2. v \o q \in Seq(OtherLines)
    OBVIOUS
  <2> QED
    BY <2>1, <2>2
<1>3. OtherLines \subseteq GoodLines
  BY DEF OtherLines
<1>4. p \in Seq(GoodLines) /\ u \in Seq(GoodLines) /\ v \in Seq(GoodLines) /\ q \in Seq(GoodLines)
  <2>1. \A w \in Seq(OtherLines) : w \in Seq(GoodLines)
    BY <1>3, Subsequences
  <2> QED
    BY <2>1
<1>5. p \o ((u \o <<e>>) \o v) = ((p \o u) \o <<e>>) \o v
  BY <1>4
<1>6. ((u \o <<e>>) \o v) \o q = (u \o <<e>>) \o (v \o q)
  BY <1>4
<1>7. out \in Seq(GoodLines)
  BY <1>1, <1>4
<1> QED
  BY <1>1, <1>2, <1>5, <1>6, <1>7 DEF EndsOnce

(* The end of an Anthropic stream, without a reason and with one.          *)
LEMMA MessageStopOnlyTells ==
  /\ MessageStopOnly \in Seq(MuteLines) /\ EndsOnce(MessageStopOnly)
  /\ \A c : Sane(c) /\ c.tail = <<>> =>
       LET d == ReceiveAll(c, MessageStopOnly)
       IN  /\ Sane(d) /\ d.tail = <<>>
           /\ d.open = c.open /\ d.ends = c.ends + 1
           /\ d.failed = c.failed /\ d.reason = c.reason
<1> DEFINE l == DataLine("mstop", 0, NoText)
           q == <<EventLine("mstop")>>
           v == <<Blank>>
<1>1. "mstop" \in Types /\ 0 \in Int
  BY DEF Types
<1>2. l \in GoodLines /\ ~Quiet(l) /\ Mute(l) /\ l.type = "mstop"
  <2>1. Reads(l, "data", "mstop", 0, NoText)
    BY <1>1, DataLineReads, NoTextIs
  <2> QED
    BY <2>1, MadeLines DEF Reads
<1>3. Blank \in QuietLines /\ EventLine("mstop") \in QuietLines
  BY <1>1, BlankIs, EventLineIs
<1>4. q \in Seq(QuietLines) /\ v \in Seq(QuietLines)
  BY <1>3
<1>5. MessageStopOnly = (q \o <<l>>) \o v
  BY DEF MessageStopOnly
<1>6. MessageStopOnly \in Seq(MuteLines)
  <2>1. l \in MuteLines /\ Blank \in MuteLines /\ EventLine("mstop") \in MuteLines
    BY <1>2, <1>3, QuietPlain DEF PlainLines, MuteLines
  <2> HIDE DEF l
  <2> QED
    BY <2>1 DEF MessageStopOnly, l
<1>7. EndsOnce(MessageStopOnly)
  <2>1. q \in Seq(OtherLines) /\ v \in Seq(OtherLines)
    BY <1>4, QuietPlain, Subsequences DEF PlainLines
  <2> HIDE DEF l, q, v
  <2> QED
    BY <1>2, <1>5, <2>1 DEF EndsOnce
<1> HIDE DEF l, q, v
<1>8. ASSUME NEW c, Sane(c), c.tail = <<>>, NEW d, d = ReceiveAll(c, MessageStopOnly)
      PROVE  /\ Sane(d) /\ d.tail = <<>>
             /\ d.open = c.open /\ d.ends = c.ends + 1
             /\ d.failed = c.failed /\ d.reason = c.reason
  <2>1. Told(c, l, d) /\ Sane(d) /\ d.tail = <<>>
    BY <1>2, <1>4, <1>5, <1>8, OneTells
  <2> QED
    BY <1>2, <1>8, <2>1 DEF Told, ToldOpen, ToldEnds, ToldFailed, ToldReason, Sane, ClientOK
<1> QED
  BY <1>6, <1>7, <1>8

LEMMA MessageStopTells ==
  ASSUME NEW r \in Reasons
  PROVE  /\ EndsOnce(MessageStop(r))
         /\ \A c : Sane(c) /\ c.tail = <<>> =>
              LET d == ReceiveAll(c, MessageStop(r))
              IN  /\ Sane(d) /\ d.tail = <<>>
                  /\ d.open = c.open /\ d.ends = c.ends + 1
                  /\ d.failed = c.failed /\ d.reason = r
<1> DEFINE l == DataLine("mdelta", 0, <<r>>)
           q == <<EventLine("mdelta")>>
           v == <<Blank>>
           w == (q \o <<l>>) \o v
<1>1. "mdelta" \in Types /\ 0 \in Int /\ <<r>> \in Payloads
  BY DEF Types, Payloads
<1>2. l \in GoodLines /\ ~Ending(l) /\ l.type = "mdelta" /\ ~Quiet(l) /\ l.text[1] = r
  <2>1. Reads(l, "data", "mdelta", 0, <<r>>)
    BY <1>1, DataLineReads
  <2>2. l \in GoodLines /\ ~Ending(l)
    BY MadeLines
  <2> HIDE DEF l
  <2>3. l.text[1] = r
    BY <2>1 DEF Reads
  <2> QED
    BY <2>1, <2>2, <2>3 DEF Reads, Quiet
<1>3. Blank \in QuietLines /\ EventLine("mdelta") \in QuietLines
  BY <1>1, BlankIs, EventLineIs
<1>4. q \in Seq(QuietLines) /\ v \in Seq(QuietLines)
  BY <1>3
<1>5. MessageStop(r) = w \o MessageStopOnly
  BY DEF MessageStop
<1>6. w \in Seq(OtherLines)
  <2>1. l \in OtherLines /\ Blank \in OtherLines /\ EventLine("mdelta") \in OtherLines
    BY <1>2, <1>3, QuietPlain DEF PlainLines, OtherLines
  <2> HIDE DEF l
  <2> QED
    BY <2>1
<1>7. w = (q \o <<l>>) \o v
  OBVIOUS
<1> HIDE DEF l, q, v, w
<1>8. EndsOnce(MessageStop(r))
  BY <1>5, <1>6, MessageStopOnlyTells, EndsOnceWithin
<1>9. ASSUME NEW c, Sane(c), c.tail = <<>>, NEW d, d = ReceiveAll(c, MessageStop(r))
      PROVE  /\ Sane(d) /\ d.tail = <<>>
             /\ d.open = c.open /\ d.ends = c.ends + 1
             /\ d.failed = c.failed /\ d.reason = r
  <2> DEFINE b == ReceiveAll(c, w)
  <2>1. Told(c, l, b) /\ Sane(b) /\ b.tail = <<>>
    BY <1>2, <1>4, <1>7, <1>9, OneTells
  <2>2. d = ReceiveAll(b, MessageStopOnly)
    <3>1. w \in Seq(GoodLines) /\ MessageStopOnly \in Seq(GoodLines)
      <4>1. OtherLines \subseteq GoodLines
        BY DEF OtherLines
      <4>2. w \in Seq(GoodLines)
        BY <1>6, <4>1, Subsequences
      <4>3. <<>> \in Seq(OtherLines)
        OBVIOUS
      <4> QED
        BY <4>2, <4>3, MessageStopOnlyTells, EndsOnceWithin
    <3> QED
      BY <1>5, <1>9, <3>1, ReceiveMore
  <2> HIDE DEF b
  <2>3. /\ Sane(d) /\ d.tail = <<>>
        /\ d.open = b.open /\ d.ends = b.ends + 1
        /\ d.failed = b.failed /\ d.reason = b.reason
    BY <2>1, <2>2, MessageStopOnlyTells
  <2> QED
    BY <1>2, <1>9, <2>1, <2>3 DEF Told, ToldOpen, ToldEnds, ToldFailed, ToldReason,
                                  Sane, ClientOK
<1> QED
  BY <1>8, <1>9

(* The end of an OpenAI stream.                                            *)
LEMMA DoneTells ==
  /\ <<Done, Blank>> \in Seq(MuteLines) /\ EndsOnce(<<Done, Blank>>)
  /\ \A c : Sane(c) /\ c.tail = <<>> =>
       LET d == ReceiveAll(c, <<Done, Blank>>)
       IN  /\ Sane(d) /\ d.tail = <<>>
           /\ d.open = c.open /\ d.ends = c.ends + 1
           /\ d.failed = c.failed /\ d.reason = c.reason
<1> DEFINE q == <<>>
           v == <<Blank>>
<1>1. "done" \in Types /\ 0 \in Int
  BY DEF Types
<1>2. Done \in GoodLines /\ ~Quiet(Done) /\ Mute(Done) /\ Done.type = "done"
  <2>1. Reads(Done, "data", "done", 0, NoText)
    BY <1>1, DataLineReads, NoTextIs DEF Done
  <2> QED
    BY <2>1, MadeLines DEF Reads
<1>3. Blank \in QuietLines
  BY BlankIs
<1>4. q \in Seq(QuietLines) /\ v \in Seq(QuietLines)
  BY <1>3
<1>5. <<Done, Blank>> = (q \o <<Done>>) \o v
  OBVIOUS
<1>6. <<Done, Blank>> \in Seq(MuteLines)
  <2>1. Done \in MuteLines /\ Blank \in MuteLines
    BY <1>2, <1>3, QuietPlain DEF PlainLines, MuteLines
  <2> QED
    BY <2>1
<1>7. EndsOnce(<<Done, Blank>>)
  <2>1. q \in Seq(OtherLines) /\ v \in Seq(OtherLines)
    BY <1>4, QuietPlain, Subsequences DEF PlainLines
  <2> HIDE DEF q, v
  <2> QED
    BY <1>2, <1>5, <2>1 DEF EndsOnce
<1> HIDE DEF q, v
<1>8. ASSUME NEW c, Sane(c), c.tail = <<>>, NEW d, d = ReceiveAll(c, <<Done, Blank>>)
      PROVE  /\ Sane(d) /\ d.tail = <<>>
             /\ d.open = c.open /\ d.ends = c.ends + 1
             /\ d.failed = c.failed /\ d.reason = c.reason
  <2>1. Told(c, Done, d) /\ Sane(d) /\ d.tail = <<>>
    BY <1>2, <1>4, <1>5, <1>8, OneTells
  <2> QED
    BY <1>2, <1>8, <2>1 DEF Told, ToldOpen, ToldEnds, ToldFailed, ToldReason, Sane, ClientOK
<1> QED
  BY <1>6, <1>7, <1>8

(* The stops of several blocks.                                            *)
StopOf(S, n) == IF n - 1 \in S THEN BlockStop(n - 1) ELSE <<>>

IsClosing(f, S, m) ==
  f = [n \in 0 .. m |-> IF n = 0 THEN <<>> ELSE f[n - 1] \o StopOf(S, n)]

LEMMA ClosingExists ==
  ASSUME NEW S
  PROVE  \A m \in Nat : \E f : IsClosing(f, S, m)
<1> DEFINE A == {m \in Nat : \E f : IsClosing(f, S, m)}
<1>1. 0 \in A
  <2>1. IsClosing([n \in 0 .. 0 |-> <<>>], S, 0)
    BY DEF IsClosing
  <2> QED
    BY <2>1
<1>2. ASSUME NEW m \in Nat, m \in A PROVE m + 1 \in A
  <2>1. PICK f : IsClosing(f, S, m)
    BY <1>2
  <2> DEFINE h == [n \in 0 .. m + 1 |-> IF n = m + 1 THEN f[m] \o StopOf(S, m + 1)
                                        ELSE f[n]]
  <2>2. ASSUME NEW n \in 0 .. m + 1
        PROVE  h[n] = IF n = 0 THEN <<>> ELSE h[n - 1] \o StopOf(S, n)
    <3>1. CASE n = 0
      BY <2>1, <3>1 DEF IsClosing
    <3>2. CASE n # 0
      <4>1. n - 1 \in 0 .. m /\ h[n - 1] = f[n - 1]
        BY <3>2
      <4>2. n # m + 1 => n \in 0 .. m /\ h[n] = f[n]
        OBVIOUS
      <4>3. n # m + 1 => f[n] = f[n - 1] \o StopOf(S, n)
        BY <2>1, <3>2, <4>2 DEF IsClosing
      <4>4. ASSUME n = m + 1 PROVE h[n] = f[n - 1] \o StopOf(S, n)
        <5>1. h[n] = f[m] \o StopOf(S, m + 1)
          BY <4>4
        <5>2. n - 1 = m
          BY <4>4
        <5> HIDE DEF h
        <5> QED
          BY <4>4, <5>1, <5>2
      <4> QED
        BY <3>2, <4>1, <4>2, <4>3, <4>4
    <3> QED
      BY <3>1, <3>2
  <2>3. IsClosing(h, S, m + 1)
    <3>1. h = [n \in 0 .. m + 1 |-> h[n]]
      OBVIOUS
    <3> HIDE DEF h
    <3> QED
      BY <2>2, <3>1 DEF IsClosing
  <2> HIDE DEF h
  <2> QED
    BY <2>3
<1>3. Nat \subseteq A
  <2> HIDE DEF A
  <2> QED
    BY <1>1, <1>2, SetOfAllNaturals
<1> QED
  BY <1>3

LEMMA ClosingTells ==
  ASSUME NEW S \in SUBSET Blocks
  PROVE  /\ Closing(S) \in Seq(PlainLines)
         /\ \A c : Sane(c) /\ c.tail = <<>> =>
              LET d == ReceiveAll(c, Closing(S))
              IN  /\ Sane(d) /\ d.tail = <<>>
                  /\ d.open = c.open \ S /\ d.ends = c.ends
                  /\ d.failed = c.failed /\ d.reason = c.reason
<1> DEFINE N == Cardinality(Blocks)
           upto[n \in 0 .. N] ==
             IF n = 0 THEN <<>>
             ELSE upto[n - 1] \o (IF n - 1 \in S THEN BlockStop(n - 1) ELSE <<>>)
<1>0. N \in Nat /\ Blocks = 0 .. N - 1
  BY StreamAssumption, FS_CardinalityType
<1>1. Closing(S) = upto[N]
  BY DEF Closing
<1>2. upto = CHOOSE f : f = [n \in 0 .. N |->
                IF n = 0 THEN <<>>
                ELSE f[n - 1] \o (IF n - 1 \in S THEN BlockStop(n - 1) ELSE <<>>)]
  BY DEF upto
<1> HIDE DEF upto, N
<1>3. IsClosing(upto, S, N)
  <2>1. PICK f : IsClosing(f, S, N)
    BY <1>0, ClosingExists
  <2> QED
    BY <1>2, <2>1 DEF IsClosing, StopOf
<1>4. /\ upto[0] = <<>>
      /\ \A n \in 1 .. N : upto[n] = upto[n - 1] \o StopOf(S, n)
  <2>1. \A n \in 0 .. N : upto[n] = IF n = 0 THEN <<>> ELSE upto[n - 1] \o StopOf(S, n)
    BY <1>3 DEF IsClosing
  <2>2. 0 \in 0 .. N /\ \A n \in 1 .. N : n \in 0 .. N /\ n # 0
    BY <1>0
  <2> QED
    BY <2>1, <2>2
<1> DEFINE Tells(n) ==
             /\ upto[n] \in Seq(PlainLines)
             /\ \A c : Sane(c) /\ c.tail = <<>> =>
                  LET d == ReceiveAll(c, upto[n])
                  IN  /\ Sane(d) /\ d.tail = <<>>
                      /\ d.open = c.open \ {b \in S : b < n} /\ d.ends = c.ends
                      /\ d.failed = c.failed /\ d.reason = c.reason
           A == {n \in Nat : n <= N => Tells(n)}
<1>5. 0 \in A
  <2>1. \A b \in S : ~(b < 0)
    <3> HIDE DEF Tells, A
    <3> QED
      BY <1>0
  <2>2. {b \in S : b < 0} = {}
    BY <2>1
  <2>3. <<>> \in Seq(PlainLines)
    OBVIOUS
  <2>4. Tells(0)
    BY <1>4, <2>2, <2>3, ReceiveNone
  <2> HIDE DEF Tells
  <2> QED
    BY <2>4
<1>6. ASSUME NEW n \in Nat, n \in A PROVE n + 1 \in A
  <2> SUFFICES ASSUME n + 1 <= N PROVE Tells(n + 1)
    OBVIOUS
  <2>1. Tells(n) /\ n \in Blocks /\ n + 1 \in 1 .. N /\ (n + 1) - 1 = n
    BY <1>0, <1>6
  <2>2. upto[n + 1] = upto[n] \o StopOf(S, n + 1)
    BY <1>4, <2>1
  <2>3. \A b \in S : b \in Nat
    BY <1>0
  <2>4. CASE n \in S
    <3>1. upto[n + 1] = upto[n] \o BlockStop(n)
      BY <2>1, <2>2, <2>4 DEF StopOf
    <3>2. BlockStop(n) \in Seq(PlainLines) /\ upto[n] \in Seq(PlainLines)
      BY <2>1, BlockStopTells
    <3>3. upto[n + 1] \in Seq(PlainLines)
      BY <3>1, <3>2
    <3>4. {b \in S : b < n + 1} = {b \in S : b < n} \cup {n}
      <4> HIDE DEF Tells, A
      <4>1. \A b \in S : b < n + 1 <=> b < n \/ b = n
        BY <2>3
      <4> QED
        BY <2>4, <4>1
    <3>5. ASSUME NEW c, Sane(c), c.tail = <<>>, NEW d, d = ReceiveAll(c, upto[n + 1])
          PROVE  /\ Sane(d) /\ d.tail = <<>>
                 /\ d.open = c.open \ {b \in S : b < n + 1} /\ d.ends = c.ends
                 /\ d.failed = c.failed /\ d.reason = c.reason
      <4> DEFINE e == ReceiveAll(c, upto[n])
      <4>1. /\ Sane(e) /\ e.tail = <<>>
            /\ e.open = c.open \ {b \in S : b < n} /\ e.ends = c.ends
            /\ e.failed = c.failed /\ e.reason = c.reason
        BY <2>1, <3>5
      <4>2. d = ReceiveAll(e, BlockStop(n))
        BY <3>1, <3>2, <3>5, ReceiveMore
      <4> HIDE DEF e
      <4>3. /\ Sane(d) /\ d.tail = <<>>
            /\ d.open = e.open \ {n} /\ d.ends = e.ends
            /\ d.failed = e.failed /\ d.reason = e.reason
        BY <2>1, <4>1, <4>2, BlockStopTells
      <4> QED
        BY <3>4, <4>1, <4>3
    <3> QED
      BY <3>3, <3>5
  <2>5. CASE n \notin S
    <3>1. upto[n + 1] = upto[n]
      BY <2>1, <2>2, <2>5 DEF StopOf
    <3>2. {b \in S : b < n + 1} = {b \in S : b < n}
      <4> HIDE DEF Tells, A
      <4>1. \A b \in S : b # n /\ (b < n + 1 <=> b < n)
        BY <2>3, <2>5
      <4> QED
        BY <4>1
    <3> QED
      BY <2>1, <3>1, <3>2
  <2> QED
    BY <2>4, <2>5
<1>7. Nat \subseteq A
  <2> HIDE DEF A
  <2> QED
    BY <1>5, <1>6, SetOfAllNaturals
<1>8. Tells(N)
  <2>1. N \in A /\ N <= N
    <3> HIDE DEF A
    <3> QED
      BY <1>0, <1>7
  <2> HIDE DEF Tells
  <2> QED
    BY <2>1
<1>9. {b \in S : b < N} = S
  <2> HIDE DEF Tells, A
  <2>1. \A b \in S : b < N
    BY <1>0
  <2> QED
    BY <2>1
<1> QED
  BY <1>1, <1>8, <1>9

-----------------------------------------------------------------------------
(* Stop words, and what is held back because of them.                      *)

LEMMA MinOf ==
  ASSUME NEW S \in SUBSET Nat, S # {}
  PROVE  Min(S) \in S /\ \A n \in S : Min(S) <= n
<1>1. PICK m \in S : \A n \in S : m <= n
  BY LeastNatural
<1> QED
  BY <1>1 DEF Min

LEMMA StopsAre ==
  /\ Len(Stops) \in Nat /\ DOMAIN Stops = 1 .. Len(Stops)
  /\ \A k \in 1 .. Len(Stops) : Stops[k] \in Seq(Chars) /\ Len(Stops[k]) \in Nat \ {0}
<1>1. Stops \in Seq(Seq(Chars)) /\ \A k \in DOMAIN Stops : Stops[k] # <<>>
  BY StopsAssumption
<1> QED
  BY <1>1

(* The longest word is as long as any, and no word is shorter than one.    *)
LEMMA MaxStopIs ==
  /\ MaxStop \in Nat \ {0}
  /\ \A k \in DOMAIN Stops : Len(Stops[k]) <= MaxStop
<1> DEFINE N == Len(Stops)
           L == [k \in 1 .. N |-> Len(Stops[k])]
           S == {Len(Stops[k]) : k \in DOMAIN Stops} \cup {1}
           U == {m \in Nat : \A n \in S : n <= m}
           A == {n \in Nat : n <= N => \E m \in Nat : \A k \in 1 .. n : L[k] <= m}
<1>1. N \in Nat /\ DOMAIN Stops = 1 .. N /\ \A k \in 1 .. N : L[k] \in Nat
  BY StopsAre
<1>2. S = {L[k] : k \in 1 .. N} \cup {1}
  BY <1>1
<1> HIDE DEF S, L, N
<1>3. S \subseteq Nat /\ 1 \in S
  BY <1>1, <1>2
<1>4. \E m \in Nat : \A k \in 1 .. N : L[k] <= m
  <2>1. 0 \in A
    <3>1. \A k \in 1 .. 0 : L[k] <= 0
      OBVIOUS
    <3> QED
      BY <3>1
  <2>2. ASSUME NEW n \in Nat, n \in A PROVE n + 1 \in A
    <3> SUFFICES ASSUME n + 1 <= N PROVE \E m \in Nat : \A k \in 1 .. n + 1 : L[k] <= m
      OBVIOUS
    <3>1. PICK m \in Nat : \A k \in 1 .. n : L[k] <= m
      BY <1>1, <2>2
    <3>2. L[n + 1] \in Nat
      BY <1>1
    <3> DEFINE h == m + L[n + 1]
    <3>3. h \in Nat /\ m <= h /\ L[n + 1] <= h
      BY <3>2
    <3>4. \A k \in 1 .. n + 1 : L[k] <= h
      <4> HIDE DEF h
      <4>1. ASSUME NEW k \in 1 .. n + 1 PROVE L[k] <= h
        <5>1. CASE k = n + 1
          BY <3>3, <5>1
        <5>2. CASE k # n + 1
          <6>1. k \in 1 .. n /\ L[k] \in Nat
            BY <1>1, <5>2
          <6> QED
            BY <3>1, <3>3, <6>1
        <5> QED
          BY <5>1, <5>2
      <4> QED
        BY <4>1
    <3> HIDE DEF h
    <3> QED
      BY <3>3, <3>4
  <2>3. Nat \subseteq A
    <3> HIDE DEF A
    <3> QED
      BY <2>1, <2>2, SetOfAllNaturals
  <2>4. N \in A
    <3> HIDE DEF A
    <3> QED
      BY <1>1, <2>3
  <2> QED
    BY <1>1, <2>4
<1>5. U # {} /\ U \subseteq Nat
  <2>1. PICK m \in Nat : \A k \in 1 .. N : L[k] <= m
    BY <1>4
  <2>2. \A k \in 1 .. N : L[k] <= m + 1
    BY <1>1, <2>1
  <2>3. m + 1 \in U
    BY <1>2, <2>2
  <2> QED
    BY <2>3
<1>6. PICK m \in U : \A n \in U : m <= n
  BY <1>5, LeastNatural
<1>7. m \in S
  <2> SUFFICES ASSUME m \notin S PROVE FALSE
    OBVIOUS
  <2>1. m \in Nat /\ \A n \in S : n \in Nat /\ n <= m /\ n # m
    BY <1>3
  <2>2. m - 1 \in Nat /\ \A n \in S : n <= m - 1
    BY <1>3, <2>1
  <2> QED
    BY <1>6, <2>1, <2>2
<1>8. MaxStop \in S /\ \A n \in S : MaxStop >= n
  <2>1. \A n \in S : m >= n
    BY <1>3
  <2>2. MaxStop = CHOOSE x \in S : \A y \in S : x >= y
    BY DEF MaxStop, Max, S
  <2> QED
    BY <1>7, <2>1, <2>2
<1>9. \A k \in DOMAIN Stops : Len(Stops[k]) \in S
  BY DEF S
<1> QED
  BY <1>3, <1>8, <1>9

LEMMA HoldbackIs == Holdback \in Nat
BY MaxStopIs DEF Holdback

(* What becomes of a text.                                                 *)
LEMMA TextsStayTexts ==
  ASSUME NEW s \in Seq(Chars)
  PROVE  /\ Clean(s) \in Seq(Chars)
         /\ Released(s) \in Seq(Chars) /\ HeldBack(s) \in Seq(Chars)
         /\ Len(HeldBack(s)) <= Holdback
<1>1. Len(s) \in Nat /\ Holdback \in Nat
  BY HoldbackIs
<1>2. Clean(s) \in Seq(Chars)
  <2>1. CASE HasStop(s)
    <3>1. Hits(s) \subseteq 0 .. Len(s) - 1 /\ Hits(s) # {}
      BY <2>1 DEF HasStop, Hits
    <3>2. Min(Hits(s)) \in 0 .. Len(s) - 1
      <4>1. Hits(s) \subseteq Nat
        BY <1>1, <3>1
      <4> QED
        BY <3>1, <4>1, MinOf
    <3> DEFINE m == Min(Hits(s))
    <3>3. Clean(s) = SubSeq(s, 1, m)
      BY <2>1 DEF Clean
    <3> HIDE DEF m
    <3>4. m \in 0 .. Len(s) - 1
      BY <3>2 DEF m
    <3> QED
      BY <1>1, <3>3, <3>4
  <2>2. CASE ~HasStop(s)
    BY <2>2 DEF Clean
  <2> QED
    BY <2>1, <2>2
<1> DEFINE H == Holdback
<1>3. H \in Nat
  BY <1>1
<1>4. Released(s) = IF Len(s) > H THEN SubSeq(s, 1, Len(s) - H) ELSE <<>>
  BY DEF Released
<1>5. HeldBack(s) = IF Len(s) > H THEN SubSeq(s, Len(s) - H + 1, Len(s)) ELSE s
  BY DEF HeldBack
<1> HIDE DEF H
<1>6. Released(s) \in Seq(Chars)
  <2>1. CASE Len(s) > H
    BY <1>1, <1>3, <1>4, <2>1
  <2>2. CASE ~(Len(s) > H)
    BY <1>4, <2>2
  <2> QED
    BY <2>1, <2>2
<1>7. HeldBack(s) \in Seq(Chars) /\ Len(HeldBack(s)) <= H
  <2>1. CASE Len(s) > H
    BY <1>1, <1>3, <1>5, <2>1
  <2>2. CASE ~(Len(s) > H)
    BY <1>1, <1>3, <1>5, <2>2
  <2> QED
    BY <2>1, <2>2
<1> QED
  BY <1>2, <1>6, <1>7 DEF H

-----------------------------------------------------------------------------
(* The lines of a stream, complete or not.                                 *)

DataTypes ==
  IF proto = "anthropic" THEN {"start", "delta", "stop", "mdelta", "mstop", "error", "noise"}
  ELSE {"chunk", "finish", "done", "noise"}

StreamLine(l) ==
  /\ l \in GoodLines
  /\ l.k = "data" => l.type \in DataTypes \cup {"cut"}
  /\ l.k = "data" /\ l.whole /\ l.type \in {"start", "stop", "delta", "chunk", "finish"} =>
       l.idx \in Blocks
  /\ l.k = "data" /\ l.whole /\ l.type = "done" => l = Done

LEMMA TextPayloads ==
  /\ Seq(Chars) \subseteq Payloads /\ NoText \in Payloads /\ <<"upstream">> \in Payloads
  /\ \A t \in Texts \cup {NoText} : t \in Payloads /\ t \in Seq(Chars) \cup {NoText}
<1>1. "upstream" \in Reasons
  BY DEF Reasons, Closed!Reasons
<1> QED
  BY <1>1, StreamAssumption DEF Payloads

LEMMA DataLinesAre ==
  ASSUME NEW l \in DataLines, proto \in {"anthropic", "openai"}
  PROVE  /\ StreamLine(l) /\ l.k = "data" /\ l.whole = TRUE /\ l.type \in DataTypes
         /\ l.type = "mdelta" => l.text = <<"upstream">>
<1>1. /\ 0 \in Blocks /\ 0 \in Int
      /\ \A i \in Blocks : i \in Int
  BY MadeLines, StreamAssumption
<1>2. \E y \in DataTypes, i \in Blocks, s \in Payloads :
        /\ l = DataLine(y, i, s)
        /\ y = "mdelta" => s = <<"upstream">>
        /\ y \in {"delta", "chunk", "finish"} => s \in Seq(Chars) \cup {NoText}
        /\ y \in {"done"} => i = 0 /\ s = NoText
  <2>1. CASE proto = "anthropic"
    <3>1. CASE l \in {DataLine(type, b, NoText) : type \in {"start", "stop"}, b \in Blocks}
      <4>1. PICK y \in {"start", "stop"}, b \in Blocks : l = DataLine(y, b, NoText)
        BY <3>1
      <4> QED
        BY <2>1, <4>1, TextPayloads DEF DataTypes
    <3>2. CASE l \in {DataLine("delta", b, t) : b \in Blocks, t \in Texts \cup {NoText}}
      <4>1. PICK b \in Blocks, t \in Texts \cup {NoText} : l = DataLine("delta", b, t)
        BY <3>2
      <4> QED
        BY <2>1, <4>1, TextPayloads DEF DataTypes
    <3>3. CASE l = DataLine("mdelta", 0, <<"upstream">>)
      BY <1>1, <2>1, <3>3, TextPayloads DEF DataTypes
    <3>4. CASE l \in {DataLine(type, 0, NoText) : type \in {"mstop", "error", "noise"}}
      <4>1. PICK y \in {"mstop", "error", "noise"} : l = DataLine(y, 0, NoText)
        BY <3>4
      <4> QED
        BY <1>1, <2>1, <4>1, TextPayloads DEF DataTypes
    <3> QED
      BY <2>1, <3>1, <3>2, <3>3, <3>4 DEF DataLines
  <2>2. CASE proto # "anthropic"
    <3>1. CASE l \in {DataLine(type, 0, t) : type \in {"chunk", "finish"}, t \in Texts \cup {NoText}}
      <4>1. PICK y \in {"chunk", "finish"}, t \in Texts \cup {NoText} : l = DataLine(y, 0, t)
        BY <3>1
      <4> QED
        BY <1>1, <2>2, <4>1, TextPayloads DEF DataTypes
    <3>2. CASE l \in {DataLine(type, 0, NoText) : type \in {"done", "noise"}}
      <4>1. PICK y \in {"done", "noise"} : l = DataLine(y, 0, NoText)
        BY <3>2
      <4> QED
        BY <1>1, <2>2, <4>1, TextPayloads DEF DataTypes
    <3> QED
      BY <2>2, <3>1, <3>2 DEF DataLines
  <2> QED
    BY <2>1, <2>2
<1>3. PICK y \in DataTypes, i \in Blocks, s \in Payloads :
        /\ l = DataLine(y, i, s)
        /\ y = "mdelta" => s = <<"upstream">>
        /\ y \in {"delta", "chunk", "finish"} => s \in Seq(Chars) \cup {NoText}
        /\ y \in {"done"} => i = 0 /\ s = NoText
  BY <1>2
<1>4. y \in Types /\ DataTypes \subseteq Types
  BY DEF DataTypes, Types
<1>5. Reads(l, "data", y, i, s)
  BY <1>1, <1>3, <1>4, DataLineReads
<1>6. <<"upstream">> \in {<<r>> : r \in Reasons}
  BY DEF Reasons, Closed!Reasons
<1>7. l \in GoodLines
  BY <1>3, <1>5, <1>6 DEF GoodLines, LineOK, Reads
<1>8. y = "done" => l = Done
  BY <1>3 DEF Done
<1> QED
  BY <1>3, <1>5, <1>7, <1>8 DEF StreamLine, Reads

LEMMA OtherStreamLines ==
  /\ StreamLine(Blank) /\ StreamLine(Junk)
  /\ \A y \in Types : StreamLine(EventLine(y))
<1>1. ASSUME NEW l \in QuietLines, l.k # "data" PROVE StreamLine(l)
  BY <1>1 DEF StreamLine, QuietLines
<1>2. Blank \in QuietLines /\ Blank.k # "data" /\ Junk \in QuietLines /\ Junk.k # "data"
  BY BlankIs
<1>3. \A y \in Types : EventLine(y) \in QuietLines /\ EventLine(y).k # "data"
  BY EventLineIs
<1> QED
  BY <1>1, <1>2, <1>3

(* What may have arrived of a line that is cut.                            *)
LEMMA HalvesAre ==
  ASSUME NEW l, StreamLine(l), l.whole, NEW h \in Halves(l)
  PROVE  /\ StreamLine(h) /\ h.k = l.k /\ (h.type = l.type \/ h.type = "cut")
         /\ l # Blank
<1>0. l \in Lines /\ LineOK(l)
  BY DEF StreamLine, GoodLines
<1>1. \/ h = [l EXCEPT !.type = "cut", !.whole = FALSE]
      \/ h = [l EXCEPT !.idx = NoIndex, !.whole = FALSE] /\ l.k = "data"
      \/ h = [l EXCEPT !.whole = FALSE]
      \/ h = l
  BY <1>0 DEF Halves, Lines, Kinds
<1>2. l.k # "blank"
  BY DEF Halves
<1>3. l # Blank
  BY <1>2, BlankIs
<1>4. CASE h = l
  BY <1>3, <1>4
<1>5. CASE h = [l EXCEPT !.type = "cut", !.whole = FALSE]
  <2>1. h \in Lines /\ h.type = "cut" /\ h.whole = FALSE /\ h.k = l.k
    <3>1. h = Spoilt(l)
      BY <1>5 DEF Spoilt
    <3>2. h.k = l.k
      BY <1>0, <1>5 DEF Lines
    <3> QED
      BY <1>0, <3>1, <3>2, SpoiltIs
  <2> QED
    BY <1>3, <2>1 DEF StreamLine, GoodLines, LineOK
<1>6. CASE h = [l EXCEPT !.idx = NoIndex, !.whole = FALSE]
  <2>1. ASSUME NEW i \in Int, NEW w \in BOOLEAN
        PROVE  LET x == [l EXCEPT !.idx = i, !.whole = w]
               IN  /\ x \in Lines /\ x.type = l.type /\ x.whole = w /\ x.k = l.k
                   /\ x.text = l.text /\ x.idx = i
    BY <1>0 DEF Lines
  <2>2. NoIndex \in Int /\ FALSE \in BOOLEAN
    BY DEF NoIndex
  <2>3. h \in Lines /\ h.type = l.type /\ h.whole = FALSE /\ h.k = l.k /\ h.text = l.text
        /\ h.idx = NoIndex
    BY <1>6, <2>1, <2>2
  <2> QED
    BY <1>0, <1>3, <2>3 DEF StreamLine, GoodLines, LineOK
<1>7. CASE h = [l EXCEPT !.whole = FALSE]
  <2>1. ASSUME NEW w \in BOOLEAN
        PROVE  LET x == [l EXCEPT !.whole = w]
               IN  /\ x \in Lines /\ x.type = l.type /\ x.whole = w /\ x.k = l.k
                   /\ x.text = l.text /\ x.idx = l.idx
    BY <1>0 DEF Lines
  <2>2. h \in Lines /\ h.type = l.type /\ h.whole = FALSE /\ h.k = l.k /\ h.text = l.text
        /\ h.idx = l.idx
    BY <1>7, <2>1
  <2> QED
    BY <1>0, <1>3, <2>2 DEF StreamLine, GoodLines, LineOK
<1> QED
  BY <1>1, <1>4, <1>5, <1>6, <1>7

(* What the upstream sends next.                                           *)
LEMMA TodoIs ==
  ASSUME proto \in {"anthropic", "openai"}, UpOK, up.todo # <<>>
  PROVE  LET l == Head(up.todo)
         IN  /\ StreamLine(l) /\ l.whole = TRUE
             /\ \/ l \in DataLines /\ Ahead(l) /\ Tail(up.todo) = <<Blank>>
                \/ /\ l.k = "event" /\ proto = "anthropic"
                   /\ \E m \in DataLines : Ahead(m) /\ Tail(up.todo) = <<m, Blank>>
                \/ l = Blank /\ NoneAhead /\ Tail(up.todo) = <<>>
                \/ l = Junk /\ NoneAhead /\ Tail(up.todo) = <<Blank>>
<1>1. CASE NoneAhead
  <2>1. CASE up.todo = <<Blank>>
    BY <1>1, <2>1, OtherStreamLines, BlankIs
  <2>2. CASE up.todo = <<Junk, Blank>>
    BY <1>1, <2>2, OtherStreamLines, BlankIs
  <2> QED
    BY <1>1, <2>1, <2>2 DEF NoneAhead
<1>2. ASSUME NEW m \in DataLines, Ahead(m) PROVE
         LET l == Head(up.todo)
         IN  /\ StreamLine(l) /\ l.whole = TRUE
             /\ \/ l \in DataLines /\ Ahead(l) /\ Tail(up.todo) = <<Blank>>
                \/ /\ l.k = "event" /\ proto = "anthropic"
                   /\ \E n \in DataLines : Ahead(n) /\ Tail(up.todo) = <<n, Blank>>
  <2>1. StreamLine(m) /\ m.whole = TRUE /\ m.type \in DataTypes /\ DataTypes \subseteq Types
    BY DataLinesAre DEF DataTypes, Types
  <2>2. CASE up.todo = <<m, Blank>>
    <3>1. Head(up.todo) = m /\ Tail(up.todo) = <<Blank>>
      BY <2>2
    <3> QED
      BY <1>2, <2>1, <3>1
  <2>3. CASE up.todo = <<EventLine(m.type), m, Blank>> /\ proto = "anthropic"
    <3>1. Head(up.todo) = EventLine(m.type) /\ Tail(up.todo) = <<m, Blank>>
      BY <2>3
    <3>2. EventLine(m.type).k = "event" /\ EventLine(m.type).whole = TRUE
          /\ StreamLine(EventLine(m.type))
      BY <2>1, EventLineIs, OtherStreamLines
    <3> QED
      BY <1>2, <2>3, <3>1, <3>2
  <2> QED
    BY <1>2, <2>2, <2>3 DEF Ahead
<1>3. NoneAhead \/ \E m \in DataLines : Ahead(m)
  BY DEF UpOK
<1> QED
  BY <1>1, <1>2, <1>3

LEMMA AheadOnce ==
  ASSUME proto \in {"anthropic", "openai"}, NEW l \in DataLines, Ahead(l)
  PROVE  ~NoneAhead /\ \A m \in DataLines : Ahead(m) => m = l
<1>1. ASSUME NEW m \in DataLines
      PROVE  m.k = "data" /\ EventLine(m.type).k = "event"
  <2>1. m.k = "data" /\ m.type \in Types
    BY DataLinesAre DEF DataTypes, Types
  <2> QED
    BY <2>1, EventLineIs
<1>2. Blank.k = "blank" /\ Junk.k = "junk"
  BY BlankIs
<1>3. up.todo # <<>> /\ Head(up.todo).k \in {"data", "event"}
  <2>1. CASE up.todo = <<l, Blank>>
    <3>1. Head(up.todo) = l /\ up.todo # <<>>
      BY <2>1
    <3> QED
      BY <1>1, <3>1
  <2>2. CASE up.todo = <<EventLine(l.type), l, Blank>>
    <3>1. Head(up.todo) = EventLine(l.type) /\ up.todo # <<>>
      BY <2>2
    <3> QED
      BY <1>1, <3>1
  <2> QED
    BY <2>1, <2>2 DEF Ahead
<1>4. ~NoneAhead
  <2>1. up.todo = <<Blank>> => Head(up.todo) = Blank
    OBVIOUS
  <2>2. up.todo = <<Junk, Blank>> => Head(up.todo) = Junk
    OBVIOUS
  <2> QED
    BY <1>2, <1>3, <2>1, <2>2 DEF NoneAhead
<1>5. ASSUME NEW m \in DataLines, Ahead(m) PROVE m = l
  <2>1. CASE up.todo = <<l, Blank>>
    <3>1. up.todo = <<m, Blank>>
      BY <1>5, <2>1 DEF Ahead
    <3> QED
      BY <2>1, <3>1
  <2>2. CASE up.todo = <<EventLine(l.type), l, Blank>>
    <3>1. up.todo = <<EventLine(m.type), m, Blank>>
      BY <1>5, <2>2 DEF Ahead
    <3> QED
      BY <2>2, <3>1
  <2> QED
    BY <2>1, <2>2 DEF Ahead
<1> QED
  BY <1>4, <1>5

(* Where the client is when a data line is ahead, and when none is.        *)
LEMMA InStepAhead ==
  ASSUME proto \in {"anthropic", "openai"}, InStep, NEW l \in DataLines, Ahead(l)
  PROVE  /\ cl.ends = 0 /\ ~cl.failed
         /\ up.open = CASE l.type = "start" -> cl.open \cup {l.idx}
                        [] l.type = "stop" -> cl.open \ {l.idx}
                        [] OTHER -> cl.open
         /\ l.type \in {"mstop", "error", "done"} => up.over
         /\ l.type = "mstop" => cl.open = {}
         /\ trim /\ l.type = "delta" => cl.open \subseteq {l.idx}
<1>1. ~NoneAhead /\ \A m \in DataLines : Ahead(m) => m = l
  BY AheadOnce
<1> QED
  BY <1>1 DEF InStep

LEMMA InStepNone ==
  ASSUME proto \in {"anthropic", "openai"}, InStep, NoneAhead
  PROVE  cl.open = up.open /\ (cl.ends = 1 \/ cl.failed => up.over)
<1>1. \A m \in DataLines : ~Ahead(m)
  BY AheadOnce
<1> QED
  BY <1>1 DEF InStep

-----------------------------------------------------------------------------
(* What a guard makes of one line.                                         *)

OpenAfter(S, l) ==
  IF Quiet(l) THEN S
  ELSE CASE l.type = "start" -> S \cup {l.idx}
         [] l.type = "stop" -> S \ {l.idx}
         [] OTHER -> S

(* The guard n knows what h knew and what line l says.                     *)
Follows(h, l, n) ==
  /\ l.whole =>
       /\ KnownOpen(n) = OpenAfter(KnownOpen(h), l)
       /\ KnownEnd(n) <=> KnownEnd(h) \/ Ending(l)
       /\ KnownError(n) <=> KnownError(h) \/ (~Quiet(l) /\ l.type = "error")
  /\ ~l.whole /\ ~Misread(l) =>
       /\ KnownOpen(h) \subseteq KnownOpen(n)
       /\ KnownEnd(n) => KnownEnd(h)
  /\ KnownEnd(h) => KnownEnd(n)
  /\ KnownError(h) => KnownError(n)

(* Line m says the same as line l, but for its text.                       *)
Alike(l, m) ==
  \/ m = l
  \/ l.type \in {"chunk", "finish"} /\ m.k = l.k /\ m.type = l.type /\ m.whole = l.whole

(* The lines out pass l on, after quiet ones; a quiet line may be kept.    *)
PassOn(l, out) ==
  \E q \in Seq(QuietLines) :
     \/ Quiet(l) /\ out = q
     \/ \E m \in GoodLines : Alike(l, m) /\ out = q \o <<m>>

LEMMA EmitTextQuiet ==
  ASSUME NEW i \in Int, NEW s \in Seq(Chars)
  PROVE  EmitText(i, s) \in Seq(QuietLines)
<1>1. "delta" \in Types
  BY DEF Types
<1>2. EventLine("delta") \in QuietLines /\ DataLine("delta", i, s) \in QuietLines
      /\ Blank \in QuietLines
  BY <1>1, EventLineIs, MadeLines, BlankIs
<1> QED
  BY <1>2 DEF EmitText

LEMMA ScanFollows ==
  ASSUME proto = "anthropic", NEW h \in AnthropicGuards, NEW l, StreamLine(l)
  PROVE  /\ Scan(h, l) \in AnthropicGuards /\ Follows(h, l, Scan(h, l))
         /\ Scan(h, l).buffer = h.buffer /\ Scan(h, l).pend = h.pend
         /\ Scan(h, l).done = h.done /\ Scan(h, l).held = h.held
         /\ Scan(h, l).pendActive = h.pendActive
<1> USE DEF KnownOpen, KnownEnd, KnownError, Follows, OpenAfter, Quiet, Ending, Misread
<1>0. l \in Lines /\ LineOK(l) /\ 0 \in Blocks
      /\ (l.k = "data" => l.type \in {"start", "delta", "stop", "mdelta", "mstop",
                                      "error", "noise", "cut"})
  BY StreamAssumption DEF StreamLine, GoodLines, DataTypes
<1>1. CASE l.k # "data"
  <2>1. Scan(h, l) = h
    <3> HIDE DEF KnownOpen, KnownEnd, KnownError, Follows, OpenAfter, Quiet, Ending, Misread
    <3>1. l.type # "stop" \/ l.type = "stop"
      OBVIOUS
    <3> QED
      BY <1>1 DEF Scan
  <2> QED
    BY <1>1, <2>1
<1>2. CASE l.k = "data" /\ l.type = "start"
  <2> DEFINE i == IF l.idx = NoIndex THEN 0 ELSE l.idx
             S == h.open \cup {i}
  <2>1. Scan(h, l) = [h EXCEPT !.open = S]
    BY <1>2 DEF Scan
  <2>2. S \in SUBSET Blocks
    BY <1>0, <1>2 DEF LineOK, AnthropicGuards
  <2>3. l.whole => i = l.idx
    BY <1>0, <1>2, MadeLines DEF LineOK
  <2>4. l.whole => S = h.open \cup {l.idx}
    BY <2>3
  <2>5. h.open \subseteq S
    OBVIOUS
  <2> HIDE DEF S, i
  <2> QED
    BY <1>2, <2>1, <2>2, <2>4, <2>5 DEF AnthropicGuards
<1>3. CASE l.k = "data" /\ l.type = "stop"
  <2>0. l.whole => l.idx # NoIndex
    BY <1>3, MadeLines DEF StreamLine
  <2>1. CASE l.idx # NoIndex
    <3> DEFINE S == h.open \ {l.idx}
    <3>1. Scan(h, l) = [h EXCEPT !.open = S]
      BY <1>3, <2>1 DEF Scan
    <3>2. S \in SUBSET Blocks
      BY DEF AnthropicGuards
    <3>3. S = h.open \ {l.idx}
      OBVIOUS
    <3> HIDE DEF S
    <3> QED
      BY <1>3, <3>1, <3>2, <3>3 DEF AnthropicGuards
  <2>2. CASE l.idx = NoIndex
    <3>1. Scan(h, l) = h /\ ~l.whole
      BY <1>3, <2>0, <2>2 DEF Scan
    <3> QED
      BY <3>1
  <2> QED
    BY <2>1, <2>2
<1>4. CASE l.k = "data" /\ l.type = "mstop"
  <2>1. Scan(h, l) = [h EXCEPT !.sawStop = TRUE]
    BY <1>4 DEF Scan
  <2> QED
    BY <1>4, <2>1 DEF AnthropicGuards
<1>5. CASE l.k = "data" /\ l.type = "error"
  <2>1. Scan(h, l) = [h EXCEPT !.sawError = TRUE]
    BY <1>5 DEF Scan
  <2> QED
    BY <1>5, <2>1 DEF AnthropicGuards
<1>6. CASE l.k = "data" /\ l.type \in {"delta", "mdelta", "noise", "cut"}
  <2>1. Scan(h, l) = h
    BY <1>6 DEF Scan
  <2> QED
    BY <1>6, <2>1
<1> QED
  BY <1>0, <1>1, <1>2, <1>3, <1>4, <1>5, <1>6

LEMMA PendingQuiet ==
  ASSUME NEW h \in AnthropicGuards
  PROVE  Pending(h) \in Seq(QuietLines)
<1>1. h.textIdx \in Int /\ h.pend \in Seq(Chars)
  BY DEF AnthropicGuards
<1>2. EmitText(h.textIdx, h.pend) \in Seq(QuietLines) /\ <<>> \in Seq(QuietLines)
  BY <1>1, EmitTextQuiet
<1> QED
  BY <1>2 DEF Pending

(* The guard with some of its fields set.                                  *)
LEMMA GuardsSet ==
  ASSUME NEW h \in AnthropicGuards
  PROVE  /\ \A q \in Seq(QuietLines) : [h EXCEPT !.held = q] \in AnthropicGuards
         /\ \A v \in Seq(Lines) : [h EXCEPT !.buffer = v] \in AnthropicGuards
         /\ \A u \in Seq(Chars) : [h EXCEPT !.pend = u] \in AnthropicGuards
         /\ \A b \in BOOLEAN : [h EXCEPT !.pendActive = b] \in AnthropicGuards
         /\ \A q \in Seq(QuietLines), i \in Int :
              [h EXCEPT !.held = q, !.textIdx = i, !.pendActive = TRUE] \in AnthropicGuards
         /\ \A u \in Seq(Chars), v \in Seq(Lines) :
              [h EXCEPT !.sawStop = TRUE, !.done = TRUE, !.pend = u, !.pendActive = FALSE,
                        !.buffer = v] \in AnthropicGuards
         /\ \A u \in Seq(Chars) :
              [h EXCEPT !.pend = u, !.pendActive = FALSE] \in AnthropicGuards
BY DEF AnthropicGuards

LEMMA NoneOfAny ==
  /\ <<>> \in Seq(QuietLines) /\ <<>> \in Seq(Chars) /\ <<>> \in Seq(Lines)
  /\ TRUE \in BOOLEAN /\ FALSE \in BOOLEAN
OBVIOUS

(* A stop word is met: the guard is done, and what it writes ends the      *)
(* stream.                                                                 *)
Meets(l, r) ==
  /\ l.k = "data" /\ l.type \in {"delta", "chunk", "finish"} /\ l.whole /\ l.idx \in Blocks
  /\ GuardOK(r.g) /\ r.g.done /\ r.g.buffer = <<>>
  /\ EndsOnce(r.out)
  /\ \A c : Sane(c) /\ c.tail = <<>> =>
       LET d == ReceiveAll(c, r.out)
       IN  /\ Sane(d) /\ d.tail = <<>>
           /\ d.open = c.open \ (IF proto = "anthropic" THEN {l.idx} ELSE {})
           /\ d.ends = c.ends + 1 /\ d.failed = c.failed
           /\ d.reason \in {"stop_sequence", "upstream"}

LEMMA TrimDeltaTells ==
  ASSUME proto = "anthropic", trim, NEW h, GuardOK(h), ~h.done,
         NEW l, StreamLine(l), l.k = "data", l.type = "delta",
         NEW r, r = TrimDelta(h, l)
  PROVE  \/ Meets(l, r)
         \/ /\ GuardOK(r.g) /\ ~r.g.done /\ r.g.buffer = h.buffer
            /\ Follows(h, l, r.g) /\ PassOn(l, r.out)
<1>1. h \in AnthropicGuards /\ Len(h.pend) <= Holdback /\ Len(h.buffer) <= 1
  BY DEF GuardOK
<1>2. Quiet(l) /\ l \in GoodLines /\ LineOK(l) /\ l \in Lines
  BY DEF Quiet, StreamLine, GoodLines
<1> DEFINE s == h.pend \o l.text
           h1 == [h EXCEPT !.held = <<>>, !.textIdx = l.idx, !.pendActive = TRUE]
<1>3. CASE ~l.whole \/ l.text = NoText
  <2> DEFINE n == [h EXCEPT !.held = <<>>]
  <2>1. r = Result(n, h.held \o <<l>>)
    BY <1>3 DEF TrimDelta
  <2>2. r.g = n /\ r.out = h.held \o <<l>>
    BY <2>1 DEF Result
  <2>3. n \in AnthropicGuards /\ n.open = h.open /\ n.sawStop = h.sawStop
        /\ n.sawError = h.sawError /\ n.buffer = h.buffer /\ n.pend = h.pend
        /\ n.done = h.done /\ h.held \in Seq(QuietLines)
    <3>1. n \in AnthropicGuards
      BY <1>1, GuardsSet, NoneOfAny
    <3> QED
      BY <1>1, <3>1 DEF AnthropicGuards
  <2> HIDE DEF n
  <2>4. GuardOK(n)
    BY <1>1, <2>3 DEF GuardOK
  <2>5. Follows(h, l, n)
    BY <1>2, <2>3 DEF Follows, KnownOpen, KnownEnd, KnownError, OpenAfter, Ending
  <2>6. PassOn(l, r.out)
    BY <1>2, <2>2, <2>3 DEF PassOn, Alike
  <2> QED
    BY <2>2, <2>3, <2>4, <2>5, <2>6
<1>4. CASE ~(~l.whole \/ l.text = NoText) /\ HasStop(s)
  <2>1. r = Result(StopHit(h1), (EmitText(l.idx, Clean(s)) \o BlockStop(l.idx))
                                  \o MessageStop("stop_sequence"))
    BY <1>4 DEF TrimDelta
  <2>2. l.idx \in Blocks /\ l.idx \in Int /\ l.text \in Seq(Chars)
    BY <1>2, <1>4, MadeLines DEF StreamLine, LineOK
  <2>3. s \in Seq(Chars)
    BY <1>1, <2>2 DEF AnthropicGuards
  <2> HIDE DEF s
  <2> DEFINE e == EmitText(l.idx, Clean(s))
             p == e \o BlockStop(l.idx)
  <2>4. e \in Seq(QuietLines) /\ BlockStop(l.idx) \in Seq(PlainLines)
    BY <2>2, <2>3, TextsStayTexts, EmitTextQuiet, BlockStopTells
  <2>5. e \in Seq(PlainLines)
    BY <2>4, QuietPlain, Subsequences
  <2>6. p \in Seq(PlainLines)
    BY <2>4, <2>5
  <2>7. r.out = p \o MessageStop("stop_sequence") /\ r.g = StopHit(h1)
    BY <2>1 DEF Result
  <2>8. "stop_sequence" \in Reasons
    BY DEF Reasons, Closed!Reasons
  <2>9. EndsOnce(r.out)
    <3> HIDE DEF p
    <3>1. p \in Seq(OtherLines) /\ EndsOnce(MessageStop("stop_sequence"))
      BY <2>6, <2>8, PlainSeq, MessageStopTells
    <3> QED
      BY <2>7, <3>1, EndsOnceWithin
  <2>10. r.g \in AnthropicGuards /\ r.g.done = TRUE /\ r.g.buffer = <<>> /\ r.g.pend = <<>>
    <3>1. h1 \in AnthropicGuards
      BY <1>1, <2>2, GuardsSet, NoneOfAny
    <3> HIDE DEF h1
    <3>2. StopHit(h1) \in AnthropicGuards /\ StopHit(h1).done = TRUE
          /\ StopHit(h1).buffer = <<>> /\ StopHit(h1).pend = <<>>
      <4>1. StopHit(h1) \in AnthropicGuards
        BY <3>1, GuardsSet, NoneOfAny DEF StopHit
      <4> QED
        BY <3>1, <4>1 DEF StopHit, AnthropicGuards
    <3> QED
      BY <2>7, <3>2
  <2>11. GuardOK(r.g)
    BY <2>10, HoldbackIs DEF GuardOK
  <2>12. ASSUME NEW c, Sane(c), c.tail = <<>>, NEW d, d = ReceiveAll(c, r.out)
         PROVE  /\ Sane(d) /\ d.tail = <<>>
                /\ d.open = c.open \ {l.idx}
                /\ d.ends = c.ends + 1 /\ d.failed = c.failed
                /\ d.reason = "stop_sequence"
    <3> DEFINE a == ReceiveAll(c, e)
               b == ReceiveAll(a, BlockStop(l.idx))
    <3>1. Sane(a) /\ a.tail = <<>> /\ Same(c, a)
      <4>1. e \in Seq(GoodLines)
        BY <2>5, PlainSeq
      <4> HIDE DEF e
      <4> QED
        BY <2>4, <2>12, <4>1, LinesTell
    <3>2. b = ReceiveAll(c, p)
      <4> HIDE DEF e
      <4> QED
        BY <2>4, <2>5, ReceiveMore DEF p
    <3>3. d = ReceiveAll(b, MessageStop("stop_sequence"))
      <4>1. p \in Seq(GoodLines) /\ MessageStop("stop_sequence") \in Seq(GoodLines)
        <5>1. <<>> \in Seq(OtherLines)
          OBVIOUS
        <5> HIDE DEF p
        <5> QED
          BY <2>6, <2>8, <5>1, PlainSeq, MessageStopTells, EndsOnceWithin
      <4> HIDE DEF p, b
      <4> QED
        BY <2>7, <2>12, <3>2, <4>1, ReceiveMore
    <3> HIDE DEF a, p
    <3>4. /\ Sane(b) /\ b.tail = <<>>
          /\ b.open = a.open \ {l.idx} /\ b.ends = a.ends
          /\ b.failed = a.failed /\ b.reason = a.reason
      BY <2>2, <3>1, BlockStopTells
    <3> HIDE DEF b
    <3>5. /\ Sane(d) /\ d.tail = <<>>
          /\ d.open = b.open /\ d.ends = b.ends + 1
          /\ d.failed = b.failed /\ d.reason = "stop_sequence"
      BY <2>8, <3>3, <3>4, MessageStopTells
    <3> QED
      BY <3>1, <3>4, <3>5 DEF Same
  <2> HIDE DEF e, p, h1
  <2> QED
    BY <1>4, <2>2, <2>9, <2>10, <2>11, <2>12 DEF Meets
<1>5. CASE ~(~l.whole \/ l.text = NoText) /\ ~HasStop(s)
  <2> DEFINE n == [h1 EXCEPT !.pend = HeldBack(s)]
  <2>1. r = Result(n, EmitText(l.idx, Released(s)))
    BY <1>5 DEF TrimDelta
  <2>2. l.idx \in Blocks /\ l.idx \in Int /\ l.text \in Seq(Chars)
    BY <1>2, <1>5, MadeLines DEF StreamLine, LineOK
  <2>3. s \in Seq(Chars)
    BY <1>1, <2>2 DEF AnthropicGuards
  <2> HIDE DEF s
  <2>4. HeldBack(s) \in Seq(Chars) /\ Len(HeldBack(s)) <= Holdback /\ Released(s) \in Seq(Chars)
    BY <2>3, TextsStayTexts
  <2>5. r.g = n /\ r.out = EmitText(l.idx, Released(s))
    BY <2>1 DEF Result
  <2>6. n \in AnthropicGuards /\ n.open = h.open /\ n.sawStop = h.sawStop
        /\ n.sawError = h.sawError /\ n.buffer = h.buffer /\ n.pend = HeldBack(s)
        /\ n.done = h.done
    <3>1. h1 \in AnthropicGuards
      BY <1>1, <2>2, GuardsSet, NoneOfAny
    <3>2. h1.open = h.open /\ h1.sawStop = h.sawStop /\ h1.sawError = h.sawError
          /\ h1.buffer = h.buffer /\ h1.done = h.done
      BY <1>1 DEF AnthropicGuards
    <3> HIDE DEF h1
    <3>3. n \in AnthropicGuards
      BY <2>4, <3>1, GuardsSet
    <3> QED
      BY <3>1, <3>2, <3>3 DEF AnthropicGuards
  <2> HIDE DEF n
  <2>7. GuardOK(n)
    BY <1>1, <2>4, <2>6 DEF GuardOK
  <2>8. Follows(h, l, n)
    BY <1>2, <2>6 DEF Follows, KnownOpen, KnownEnd, KnownError, OpenAfter, Ending
  <2>9. PassOn(l, r.out)
    BY <1>2, <2>2, <2>4, <2>5, EmitTextQuiet DEF PassOn
  <2> QED
    BY <2>5, <2>6, <2>7, <2>8, <2>9
<1> QED
  BY <1>3, <1>4, <1>5

LEMMA TrimLineTells ==
  ASSUME proto = "anthropic", trim, NEW h, GuardOK(h), ~h.done, NEW l, StreamLine(l),
         NEW r, r = TrimLine(h, l)
  PROVE  \/ Meets(l, r)
         \/ /\ GuardOK(r.g) /\ ~r.g.done /\ r.g.buffer = h.buffer
            /\ Follows(h, l, r.g) /\ PassOn(l, r.out)
<1>1. /\ h \in AnthropicGuards /\ Len(h.pend) <= Holdback /\ Len(h.buffer) <= 1
      /\ h.held \in Seq(QuietLines)
  BY DEF GuardOK, AnthropicGuards
<1>2. l \in GoodLines /\ LineOK(l) /\ l \in Lines
      /\ (l.k = "data" => l.type \in {"start", "delta", "stop", "mdelta", "mstop",
                                      "error", "noise", "cut"})
  BY DEF StreamLine, GoodLines, DataTypes
<1> DEFINE n == [h EXCEPT !.held = <<>>]
<1>3. n \in AnthropicGuards /\ n.open = h.open /\ n.sawStop = h.sawStop
      /\ n.sawError = h.sawError /\ n.buffer = h.buffer /\ n.pend = h.pend
      /\ n.done = h.done
  <2>1. n \in AnthropicGuards
    BY <1>1, GuardsSet, NoneOfAny
  <2> QED
    BY <1>1, <2>1 DEF AnthropicGuards
<1>4. CASE l.type = "delta" /\ l.k = "event"
  <2> DEFINE m == [h EXCEPT !.held = <<l>>]
  <2>1. r.g = m /\ r.out = <<>>
    BY <1>4 DEF TrimLine, Result
  <2>2. Quiet(l) /\ <<l>> \in Seq(QuietLines)
    BY <1>2, <1>4 DEF Quiet, QuietLines
  <2>3. m \in AnthropicGuards /\ m.open = h.open /\ m.sawStop = h.sawStop
        /\ m.sawError = h.sawError /\ m.buffer = h.buffer /\ m.pend = h.pend
        /\ m.done = h.done
    <3>1. m \in AnthropicGuards
      BY <1>1, <2>2, GuardsSet
    <3> QED
      BY <1>1, <3>1 DEF AnthropicGuards
  <2> HIDE DEF m, n
  <2>4. GuardOK(m)
    BY <1>1, <2>3 DEF GuardOK
  <2>5. Follows(h, l, m)
    BY <2>2, <2>3 DEF Follows, KnownOpen, KnownEnd, KnownError, OpenAfter, Ending
  <2>6. PassOn(l, r.out)
    BY <2>1, <2>2, NoneOfAny DEF PassOn
  <2> QED
    BY <2>1, <2>3, <2>4, <2>5, <2>6
<1>5. CASE l.type = "delta" /\ l.k = "data"
  <2>1. r = TrimDelta(h, l)
    BY <1>5 DEF TrimLine
  <2> QED
    BY <1>5, <2>1, TrimDeltaTells
<1>6. CASE l.k = "data" /\ l.type \in Border
  <2> DEFINE f == Flushed(n)
  <2>1. r.g = Scan(f, l) /\ r.out = (h.held \o Pending(n)) \o <<l>>
    BY <1>6 DEF TrimLine, Result, Border
  <2>2. f \in AnthropicGuards /\ f.open = n.open /\ f.sawStop = n.sawStop
        /\ f.sawError = n.sawError /\ f.buffer = n.buffer /\ f.pend = <<>>
        /\ f.done = n.done
    <3> HIDE DEF n
    <3>1. f \in AnthropicGuards
      BY <1>3, GuardsSet, NoneOfAny DEF Flushed
    <3> QED
      BY <1>3, <3>1 DEF AnthropicGuards, Flushed
  <2>3. Pending(n) \in Seq(QuietLines)
    BY <1>3, PendingQuiet
  <2> HIDE DEF n, f
  <2>4. /\ Scan(f, l) \in AnthropicGuards /\ Follows(f, l, Scan(f, l))
        /\ Scan(f, l).buffer = f.buffer /\ Scan(f, l).pend = f.pend
        /\ Scan(f, l).done = f.done
    BY <2>2, ScanFollows
  <2>5. GuardOK(r.g)
    <3>1. r.g \in AnthropicGuards /\ r.g.pend = <<>> /\ r.g.buffer = h.buffer /\ Len(<<>>) = 0
      BY <1>3, <2>1, <2>2, <2>4
    <3> QED
      BY <1>1, <3>1, HoldbackIs DEF GuardOK
  <2>6. Follows(h, l, r.g)
    BY <1>3, <2>1, <2>2, <2>4 DEF Follows, KnownOpen, KnownEnd, KnownError
  <2>7. PassOn(l, r.out)
    <3>1. h.held \o Pending(n) \in Seq(QuietLines)
      BY <1>1, <2>3
    <3> QED
      BY <1>2, <2>1, <3>1 DEF PassOn, Alike
  <2> QED
    BY <1>3, <2>1, <2>2, <2>4, <2>5, <2>6, <2>7
<1>7. CASE ~(l.type = "delta" /\ l.k \in {"event", "data"}) /\ ~(l.k = "data" /\ l.type \in Border)
  <2>1. r.g = n /\ r.out = h.held \o <<l>>
    BY <1>7 DEF TrimLine, Result
  <2>2. Quiet(l)
    BY <1>2, <1>7 DEF Quiet, Border
  <2> HIDE DEF n
  <2>3. GuardOK(n)
    BY <1>1, <1>3 DEF GuardOK
  <2>4. Follows(h, l, n)
    BY <1>3, <2>2 DEF Follows, KnownOpen, KnownEnd, KnownError, OpenAfter, Ending
  <2>5. PassOn(l, r.out)
    BY <1>1, <1>2, <2>1 DEF PassOn, Alike
  <2> QED
    BY <1>3, <2>1, <2>3, <2>4, <2>5
<1> QED
  BY <1>4, <1>5, <1>6, <1>7

LEMMA OpenAIGuardsSet ==
  ASSUME NEW h \in OpenAIGuards
  PROVE  /\ \A v \in Seq(Lines) : [h EXCEPT !.buffer = v] \in OpenAIGuards
         /\ \A b \in BOOLEAN : [h EXCEPT !.sawDone = b] \in OpenAIGuards
         /\ \A u \in Seq(Chars) : [h EXCEPT !.pend = u] \in OpenAIGuards
         /\ \A u \in Seq(Chars) : [h EXCEPT !.pend = u, !.sawDone = TRUE] \in OpenAIGuards
         /\ \A u \in Seq(Chars), v \in Seq(Lines) :
              [h EXCEPT !.sawDone = TRUE, !.done = TRUE, !.pend = u, !.buffer = v]
                \in OpenAIGuards
BY DEF OpenAIGuards

(* The text of a line is replaced, and its type with it.                   *)
Retold(l, t) == [l EXCEPT !.text = t]
Recast(l, y, t) == [l EXCEPT !.type = y, !.text = t]

LEMMA RetoldIs ==
  ASSUME NEW l \in Lines, NEW t \in Payloads
  PROVE  /\ Retold(l, t) \in Lines /\ Retold(l, t).k = l.k /\ Retold(l, t).type = l.type
         /\ Retold(l, t).whole = l.whole /\ Retold(l, t).text = t
BY DEF Lines, Retold

LEMMA RecastIs ==
  ASSUME NEW l \in Lines, NEW y \in Types, NEW t \in Payloads
  PROVE  /\ Recast(l, y, t) \in Lines /\ Recast(l, y, t).k = l.k /\ Recast(l, y, t).type = y
         /\ Recast(l, y, t).whole = l.whole /\ Recast(l, y, t).text = t
BY DEF Lines, Recast

LEMMA DoneLineIs ==
  ASSUME proto = "openai", NEW l, StreamLine(l)
  PROVE  /\ IsDoneLine(l) <=> Ending(l)
         /\ l.k = "data" => l.type \in {"chunk", "finish", "done", "noise", "cut"}
<1>1. Reads(Done, "data", "done", 0, NoText)
  BY DataLineReads, NoTextIs DEF Done, Types
<1> QED
  BY <1>1 DEF IsDoneLine, Ending, Quiet, StreamLine, DataTypes, Reads

LEMMA TrimLineOTells ==
  ASSUME proto = "openai", trim, NEW h, GuardOK(h), ~h.done, NEW l, StreamLine(l),
         NEW r, r = TrimLineO(h, l)
  PROVE  \/ Meets(l, r)
         \/ /\ GuardOK(r.g) /\ ~r.g.done /\ r.g.buffer = h.buffer
            /\ Follows(h, l, r.g) /\ PassOn(l, r.out)
<1>1. /\ h \in OpenAIGuards /\ Len(h.pend) <= Holdback /\ Len(h.buffer) <= 1
      /\ h.pend \in Seq(Chars)
  BY DEF GuardOK, OpenAIGuards
<1>2. /\ l \in GoodLines /\ LineOK(l) /\ l \in Lines
      /\ IsDoneLine(l) <=> Ending(l)
      /\ l.k = "data" => l.type \in {"chunk", "finish", "done", "noise", "cut"}
  BY DoneLineIs DEF StreamLine, GoodLines
<1>3. \A S : OpenAfter({}, l) = {}
  BY <1>2 DEF OpenAfter, Quiet
<1>4. ASSUME NEW n \in OpenAIGuards, n.sawDone <=> h.sawDone \/ Ending(l)
      PROVE  Follows(h, l, n)
  BY <1>2, <1>3, <1>4 DEF Follows, KnownOpen, KnownEnd, KnownError, Ending, Quiet
<1>5. ASSUME NEW n \in OpenAIGuards, n.done = FALSE, Len(n.pend) <= Holdback, n.buffer = h.buffer
      PROVE  GuardOK(n)
  BY <1>1, <1>5 DEF GuardOK
<1>6. ASSUME NEW q \in Seq(QuietLines), NEW m \in GoodLines, Alike(l, m), r.out = q \o <<m>>
      PROVE  PassOn(l, r.out)
  BY <1>6 DEF PassOn
<1>7. <<>> \in Seq(QuietLines) /\ <<l>> = <<>> \o <<l>> /\ Alike(l, l)
  BY DEF Alike
<1>8. CASE IsDoneLine(l)
  <2> DEFINE n == [h EXCEPT !.pend = <<>>, !.sawDone = TRUE]
  <2>1. r.g = n /\ r.out = FlushChunk(h.pend) \o <<l>>
    BY <1>8 DEF TrimLineO, Result
  <2>2. n \in OpenAIGuards /\ n.sawDone = TRUE /\ n.pend = <<>> /\ n.buffer = h.buffer
        /\ n.done = h.done
    <3>1. n \in OpenAIGuards
      BY <1>1, OpenAIGuardsSet, NoneOfAny
    <3> QED
      BY <1>1, <3>1 DEF OpenAIGuards
  <2>3. FlushChunk(h.pend) \in Seq(QuietLines)
    <3>1. DataLine("chunk", 0, h.pend) \in QuietLines /\ Blank \in QuietLines
      BY <1>1, MadeLines, BlankIs
    <3> QED
      BY <3>1 DEF FlushChunk
  <2> HIDE DEF n
  <2>4. GuardOK(n)
    <3>1. n.done = FALSE /\ Len(n.pend) <= Holdback
      BY <2>2, HoldbackIs DEF OpenAIGuards
    <3> QED
      BY <1>5, <2>2, <3>1
  <2> QED
    BY <1>2, <1>4, <1>6, <1>7, <1>8, <2>1, <2>2, <2>3, <2>4
<1>9. CASE ~IsDoneLine(l) /\ ~(l.k = "data" /\ l.whole /\ l.type \in {"chunk", "finish"})
  <2>1. r.g = h /\ r.out = <<l>>
    BY <1>9 DEF TrimLineO, Result
  <2> QED
    BY <1>1, <1>2, <1>4, <1>6, <1>7, <1>9, <2>1
<1>10. CASE ~IsDoneLine(l) /\ l.k = "data" /\ l.whole /\ l.type \in {"chunk", "finish"}
  <2> DEFINE s == IF l.text = NoText THEN h.pend ELSE h.pend \o l.text
  <2>0. r = TrimChunk(h, l) /\ ~Ending(l)
    BY <1>2, <1>10 DEF TrimLineO
  <2>1. s \in Seq(Chars) /\ l.idx \in Blocks
    <3>1. l.text \in Seq(Chars) \cup {NoText}
      BY <1>2, <1>10 DEF LineOK
    <3>2. l.text # NoText => h.pend \o l.text \in Seq(Chars)
      BY <1>1, <3>1
    <3> QED
      BY <1>1, <1>10, <3>2 DEF StreamLine
  <2>2. \A t \in Seq(Chars) : t \in Payloads
    BY TextPayloads
  <2>3. CASE l.text = NoText /\ (l.type = "chunk" \/ h.pend = <<>>)
    <3>1. r.g = h /\ r.out = <<l>>
      BY <2>0, <2>3 DEF TrimChunk, Result
    <3> QED
      BY <1>1, <1>2, <1>4, <1>6, <1>7, <2>0, <3>1
  <2>4. CASE ~(l.text = NoText /\ (l.type = "chunk" \/ h.pend = <<>>)) /\ HasStop(s)
    <3> DEFINE m == [l EXCEPT !.type = "finish", !.text = Clean(s)]
               n == [h EXCEPT !.sawDone = TRUE, !.done = TRUE, !.pend = <<>>, !.buffer = <<>>]
    <3>1. r.g = n /\ r.out = <<m, Done, Blank>>
      BY <2>0, <2>4 DEF TrimChunk, EmitHit, Result
    <3>2. n \in OpenAIGuards /\ n.done = TRUE /\ n.pend = <<>> /\ n.buffer = <<>>
      <4>1. n \in OpenAIGuards
        BY <1>1, OpenAIGuardsSet, NoneOfAny
      <4> QED
        BY <1>1, <4>1 DEF OpenAIGuards
    <3>3. Clean(s) \in Seq(Chars)
      <4> HIDE DEF s
      <4> QED
        BY <2>1, TextsStayTexts
    <3>4. /\ m \in Lines /\ m.k = "data" /\ m.type = "finish" /\ m.whole = l.whole
          /\ m.text \in Seq(Chars)
      <4>1. "finish" \in Types
        BY DEF Types
      <4> DEFINE t == Clean(s)
      <4>2. m = Recast(l, "finish", t) /\ t \in Seq(Chars) /\ t \in Payloads
        BY <2>2, <3>3 DEF Recast
      <4>3. l \in Lines /\ l.k = "data"
        BY <1>2, <1>10
      <4> HIDE DEF t, m, s
      <4>4. /\ m \in Lines /\ m.k = l.k /\ m.type = "finish"
            /\ m.whole = l.whole /\ m.text = t
        BY <4>1, <4>2, <4>3, RecastIs
      <4> QED
        BY <4>2, <4>3, <4>4
    <3> HIDE DEF m, n, s
    <3>5. m \in GoodLines /\ ~Quiet(m) /\ ~Ending(m) /\ m \in OtherLines
      BY <1>10, <3>4 DEF GoodLines, OtherLines, LineOK, Quiet, Ending
    <3>6. EndsOnce(r.out)
      <4>1. r.out = <<m>> \o <<Done, Blank>>
        BY <3>1
      <4>2. <<m>> \in Seq(OtherLines)
        BY <3>5
      <4> QED
        BY <4>1, <4>2, DoneTells, EndsOnceWithin
    <3>7. GuardOK(n)
      BY <3>2, HoldbackIs DEF GuardOK
    <3>8. ASSUME NEW c, Sane(c), c.tail = <<>>, NEW d, d = ReceiveAll(c, r.out)
          PROVE  /\ Sane(d) /\ d.tail = <<>>
                 /\ d.open = c.open /\ d.ends = c.ends + 1 /\ d.failed = c.failed
                 /\ d.reason = "upstream"
      <4> DEFINE b == ReceiveAll(c, <<m>>)
      <4>1. Told(c, m, b) /\ Sane(b) /\ b.tail = <<>>
        <5>1. (<<>> \o <<m>>) \o <<>> = <<m>>
          OBVIOUS
        <5>2. b = ReceiveAll(c, (<<>> \o <<m>>) \o <<>>)
          BY <5>1
        <5> DEFINE v == <<>>
        <5>3. v \in Seq(QuietLines) /\ b = ReceiveAll(c, (v \o <<m>>) \o v)
          BY <5>2, NoneOfAny
        <5> HIDE DEF b, v
        <5> QED
          BY <3>5, <3>8, <5>3, OneTells
      <4>2. d = ReceiveAll(b, <<Done, Blank>>)
        <5>1. r.out = <<m>> \o <<Done, Blank>>
          BY <3>1
        <5>2. <<m>> \in Seq(GoodLines) /\ <<Done, Blank>> \in Seq(GoodLines)
          <6>1. Done \in GoodLines /\ Blank \in GoodLines
            BY MadeLines, BlankIs DEF QuietLines
          <6> QED
            BY <3>5, <6>1
        <5> HIDE DEF b
        <5> DEFINE w == <<m>>
                   z == <<Done, Blank>>
        <5>3. /\ b = ReceiveAll(c, w) /\ d = ReceiveAll(c, w \o z)
              /\ w \in Seq(GoodLines) /\ z \in Seq(GoodLines)
          BY <3>8, <5>1, <5>2 DEF b
        <5>4. z = <<Done, Blank>>
          OBVIOUS
        <5> HIDE DEF w, z
        <5>5. d = ReceiveAll(b, z)
          BY <5>3, ReceiveMore
        <5> QED
          BY <5>4, <5>5
      <4> HIDE DEF b
      <4>3. /\ Sane(d) /\ d.tail = <<>>
            /\ d.open = b.open /\ d.ends = b.ends + 1
            /\ d.failed = b.failed /\ d.reason = b.reason
        BY <4>1, <4>2, DoneTells
      <4> QED
        BY <3>4, <3>5, <3>8, <4>1, <4>3 DEF Told, ToldOpen, ToldEnds, ToldFailed,
                                            ToldReason, Ending, Sane, ClientOK
    <3>9. \A S : S \ {} = S
      OBVIOUS
    <3> QED
      BY <1>10, <2>1, <3>1, <3>2, <3>6, <3>7, <3>8, <3>9 DEF Meets
  <2>5. CASE /\ ~(l.text = NoText /\ (l.type = "chunk" \/ h.pend = <<>>)) /\ ~HasStop(s)
             /\ l.type = "finish"
    <3> DEFINE m == [l EXCEPT !.text = s]
               n == [h EXCEPT !.pend = <<>>]
    <3>1. r.g = n /\ r.out = <<m>>
      <4>1. r = Result(n, <<m>>)
        BY <2>0, <2>5 DEF TrimChunk
      <4> HIDE DEF m, n
      <4> QED
        BY <4>1 DEF Result
    <3>2. n \in OpenAIGuards /\ n.done = h.done /\ n.pend = <<>> /\ n.buffer = h.buffer
          /\ n.sawDone = h.sawDone
      <4>1. n \in OpenAIGuards
        BY <1>1, OpenAIGuardsSet, NoneOfAny
      <4> QED
        BY <1>1, <4>1 DEF OpenAIGuards
    <3> HIDE DEF n, s
    <3>3. m \in GoodLines /\ Alike(l, m)
      <4>1. m \in Lines /\ m.k = l.k /\ m.type = l.type /\ m.whole = l.whole /\ m.text = s
        <5>1. m = Retold(l, s)
          BY DEF Retold
        <5> HIDE DEF m
        <5> QED
          BY <1>2, <2>1, <2>2, <5>1, RetoldIs
      <4> HIDE DEF m
      <4> QED
        BY <1>10, <2>1, <4>1 DEF GoodLines, LineOK, Alike
    <3> HIDE DEF m
    <3>4. r.out = <<>> \o <<m>> /\ Len(n.pend) <= Holdback /\ n.done = FALSE
      BY <1>1, <3>1, <3>2, HoldbackIs DEF OpenAIGuards
    <3> QED
      BY <1>4, <1>5, <1>6, <1>7, <2>0, <3>1, <3>2, <3>3, <3>4
  <2>6. CASE /\ ~(l.text = NoText /\ (l.type = "chunk" \/ h.pend = <<>>)) /\ ~HasStop(s)
             /\ l.type # "finish"
    <3> DEFINE t == Released(s)
               u == HeldBack(s)
               m == [l EXCEPT !.text = t]
               n == [h EXCEPT !.pend = u]
    <3>1. r.g = n /\ r.out = <<m>>
      BY <2>0, <2>6 DEF TrimChunk, Result
    <3> HIDE DEF s
    <3>2. t \in Seq(Chars) /\ u \in Seq(Chars) /\ Len(u) <= Holdback
      BY <2>1, TextsStayTexts
    <3> HIDE DEF t, u
    <3>3. n \in OpenAIGuards /\ n.done = h.done /\ n.pend = u /\ n.buffer = h.buffer
          /\ n.sawDone = h.sawDone
      <4>1. n \in OpenAIGuards
        BY <1>1, <3>2, OpenAIGuardsSet
      <4> QED
        BY <1>1, <4>1 DEF OpenAIGuards
    <3> HIDE DEF n
    <3>4. m \in GoodLines /\ Alike(l, m)
      <4>1. m \in Lines /\ m.k = l.k /\ m.type = l.type /\ m.whole = l.whole /\ m.text = t
        <5>1. m = Retold(l, t)
          BY DEF Retold
        <5> HIDE DEF m
        <5> QED
          BY <1>2, <2>2, <3>2, <5>1, RetoldIs
      <4> HIDE DEF m
      <4> QED
        BY <1>10, <3>2, <4>1 DEF GoodLines, LineOK, Alike
    <3> HIDE DEF m
    <3>5. r.out = <<>> \o <<m>> /\ Len(n.pend) <= Holdback /\ n.done = FALSE
      BY <1>1, <3>1, <3>2, <3>3 DEF OpenAIGuards
    <3> QED
      BY <1>4, <1>5, <1>6, <1>7, <2>0, <3>1, <3>3, <3>4, <3>5
  <2> QED
    BY <2>3, <2>4, <2>5, <2>6
<1> QED
  BY <1>8, <1>9, <1>10

(* Both guards at once.                                                    *)
Noted(h, l) ==
  IF proto = "anthropic" THEN Scan(h, l) ELSE [h EXCEPT !.sawDone = @ \/ IsDoneLine(l)]

Trimmed(h, l) == IF proto = "anthropic" THEN TrimLine(h, l) ELSE TrimLineO(h, l)

LEMMA TrimmedTells ==
  ASSUME proto \in {"anthropic", "openai"}, trim, NEW h, GuardOK(h), ~h.done,
         NEW l, StreamLine(l), NEW r, r = Trimmed(h, l)
  PROVE  \/ Meets(l, r)
         \/ /\ GuardOK(r.g) /\ ~r.g.done /\ r.g.buffer = h.buffer
            /\ Follows(h, l, r.g) /\ PassOn(l, r.out)
<1>1. CASE proto = "anthropic"
  BY <1>1, TrimLineTells DEF Trimmed
<1>2. CASE proto = "openai"
  BY <1>2, TrimLineOTells DEF Trimmed
<1> QED
  BY <1>1, <1>2

LEMMA NotedTells ==
  ASSUME proto \in {"anthropic", "openai"}, NEW h, GuardOK(h), NEW l, StreamLine(l),
         NEW n, n = Noted(h, l)
  PROVE  GuardOK(n) /\ n.done = h.done /\ n.buffer = h.buffer /\ Follows(h, l, n)
<1>1. CASE proto = "anthropic"
  <2>1. h \in AnthropicGuards
    BY <1>1 DEF GuardOK
  <2>2. n = Scan(h, l)
    BY <1>1 DEF Noted
  <2>3. /\ n \in AnthropicGuards /\ Follows(h, l, n)
        /\ n.buffer = h.buffer /\ n.pend = h.pend
        /\ n.done = h.done /\ n.held = h.held
        /\ n.pendActive = h.pendActive
    BY <1>1, <2>1, <2>2, ScanFollows
  <2> QED
    BY <1>1, <2>3 DEF GuardOK
<1>2. CASE proto = "openai"
  <2> DEFINE b == h.sawDone \/ IsDoneLine(l)
  <2>1. h \in OpenAIGuards /\ h.sawDone \in BOOLEAN
    BY <1>2 DEF GuardOK, OpenAIGuards
  <2>2. n = [h EXCEPT !.sawDone = b]
    BY <1>2 DEF Noted
  <2>3. (b <=> h.sawDone \/ Ending(l)) /\ b \in BOOLEAN
        /\ (l.k = "data" => l.type \in {"chunk", "finish", "done", "noise", "cut"})
    BY <1>2, DoneLineIs
  <2> HIDE DEF b
  <2>4. n \in OpenAIGuards
    BY <2>1, <2>2, <2>3, OpenAIGuardsSet
  <2>5. n.buffer = h.buffer /\ n.pend = h.pend /\ n.done = h.done /\ n.sawDone = b
    BY <2>1, <2>2, <2>4 DEF OpenAIGuards
  <2>6. GuardOK(n)
    BY <1>2, <2>4, <2>5 DEF GuardOK
  <2>7. Follows(h, l, n)
    BY <1>2, <2>3, <2>5 DEF Follows, KnownOpen, KnownEnd, KnownError, OpenAfter, Quiet, Ending
  <2> QED
    BY <2>5, <2>6, <2>7
<1> QED
  BY <1>1, <1>2

-----------------------------------------------------------------------------
(* What a guard writes when it finishes: the text and the blocks that are  *)
(* left, and the end.                                                      *)

Leftover(n) ==
  IF proto = "anthropic" THEN Pending(n) \o Closing(n.open) ELSE FlushChunk(n.pend)

StreamEnd(n) ==
  IF KnownEnd(n) THEN <<>>
  ELSE IF proto # "anthropic" THEN <<Done, Blank>>
  ELSE IF KnownError(n) THEN MessageStopOnly
  ELSE MessageStop("end_turn")

LEMMA LeftoverTells ==
  ASSUME proto \in {"anthropic", "openai"}, NEW n, GuardOK(n)
  PROVE  /\ Leftover(n) \in Seq(PlainLines)
         /\ \A c : Sane(c) /\ c.tail = <<>> =>
              LET d == ReceiveAll(c, Leftover(n))
              IN  /\ Sane(d) /\ d.tail = <<>>
                  /\ d.open = c.open \ KnownOpen(n) /\ d.ends = c.ends
                  /\ d.failed = c.failed /\ d.reason = c.reason
<1>1. CASE proto = "anthropic"
  <2> DEFINE q == Pending(n)
             u == Closing(n.open)
  <2>1. n \in AnthropicGuards /\ n.open \in SUBSET Blocks
    BY <1>1 DEF GuardOK, AnthropicGuards
  <2>2. q \in Seq(QuietLines) /\ u \in Seq(PlainLines)
    BY <2>1, PendingQuiet, ClosingTells
  <2>3. Leftover(n) = q \o u /\ KnownOpen(n) = n.open
    BY <1>1 DEF Leftover, KnownOpen
  <2> HIDE DEF q
  <2>4. q \in Seq(PlainLines) /\ q \in Seq(GoodLines)
    BY <2>2, QuietPlain, Subsequences, PlainSeq
  <2>5. ASSUME NEW c, Sane(c), c.tail = <<>>, NEW d, d = ReceiveAll(c, Leftover(n))
        PROVE  /\ Sane(d) /\ d.tail = <<>>
               /\ d.open = c.open \ KnownOpen(n) /\ d.ends = c.ends
               /\ d.failed = c.failed /\ d.reason = c.reason
    <3> DEFINE a == ReceiveAll(c, q)
    <3>1. Sane(a) /\ a.tail = <<>> /\ Same(c, a)
      BY <2>2, <2>4, <2>5, LinesTell
    <3>2. d = ReceiveAll(a, u)
      <4> HIDE DEF u
      <4> QED
        BY <2>2, <2>3, <2>4, <2>5, ReceiveMore
    <3> HIDE DEF a
    <3>3. /\ Sane(d) /\ d.tail = <<>>
          /\ d.open = a.open \ n.open /\ d.ends = a.ends
          /\ d.failed = a.failed /\ d.reason = a.reason
      BY <2>1, <3>1, <3>2, ClosingTells
    <3> QED
      BY <2>3, <3>1, <3>3 DEF Same
  <2> HIDE DEF u
  <2>6. Leftover(n) \in Seq(PlainLines)
    BY <2>2, <2>3, <2>4
  <2> QED
    BY <2>5, <2>6
<1>2. CASE proto = "openai"
  <2>1. n \in OpenAIGuards /\ n.pend \in Seq(Chars)
    BY <1>2 DEF GuardOK, OpenAIGuards
  <2>2. Leftover(n) \in Seq(QuietLines)
    <3>1. DataLine("chunk", 0, n.pend) \in QuietLines /\ Blank \in QuietLines
      BY <2>1, MadeLines, BlankIs
    <3> QED
      BY <1>2, <3>1 DEF FlushChunk, Leftover
  <2>3. Leftover(n) \in Seq(PlainLines) /\ Leftover(n) \in Seq(GoodLines)
    BY <2>2, QuietPlain, Subsequences, PlainSeq
  <2>4. KnownOpen(n) = {} /\ \A S : S \ {} = S
    BY <1>2 DEF KnownOpen
  <2> QED
    BY <2>2, <2>3, <2>4, LinesTell DEF Same
<1> QED
  BY <1>1, <1>2

LEMMA StreamEndTells ==
  ASSUME proto \in {"anthropic", "openai"}, NEW n
  PROVE  /\ StreamEnd(n) \in Seq(GoodLines)
         /\ KnownEnd(n) => StreamEnd(n) = <<>>
         /\ ~KnownEnd(n) => EndsOnce(StreamEnd(n))
         /\ KnownError(n) => StreamEnd(n) \in Seq(MuteLines)
         /\ \A c : Sane(c) /\ c.tail = <<>> =>
              LET d == ReceiveAll(c, StreamEnd(n))
              IN  /\ Sane(d) /\ d.tail = <<>>
                  /\ d.open = c.open
                  /\ d.ends = IF KnownEnd(n) THEN c.ends ELSE c.ends + 1
                  /\ d.failed = c.failed
                  /\ \/ d.reason = c.reason
                     \/ ~KnownEnd(n) /\ ~KnownError(n) /\ d.reason = "end_turn"
<1>1. <<>> \in Seq(OtherLines) /\ <<>> \in Seq(MuteLines) /\ <<>> \in Seq(GoodLines)
  OBVIOUS
<1>2. "end_turn" \in Reasons
  BY DEF Reasons, Closed!Reasons
<1>3. CASE KnownEnd(n)
  <2>1. StreamEnd(n) = <<>>
    BY <1>3 DEF StreamEnd
  <2> QED
    BY <1>1, <1>3, <2>1, ReceiveNone
<1>4. CASE ~KnownEnd(n) /\ proto # "anthropic"
  <2>1. StreamEnd(n) = <<Done, Blank>>
    BY <1>4 DEF StreamEnd
  <2>2. <<Done, Blank>> \in Seq(GoodLines)
    BY <1>1, DoneTells, EndsOnceWithin
  <2> QED
    BY <1>4, <2>1, <2>2, DoneTells
<1>5. CASE ~KnownEnd(n) /\ proto = "anthropic" /\ KnownError(n)
  <2>1. StreamEnd(n) = MessageStopOnly
    BY <1>5 DEF StreamEnd
  <2>2. MessageStopOnly \in Seq(GoodLines)
    BY <1>1, MessageStopOnlyTells, EndsOnceWithin
  <2> QED
    BY <1>5, <2>1, <2>2, MessageStopOnlyTells
<1>6. CASE ~KnownEnd(n) /\ proto = "anthropic" /\ ~KnownError(n)
  <2>1. StreamEnd(n) = MessageStop("end_turn")
    BY <1>6 DEF StreamEnd
  <2>2. MessageStop("end_turn") \in Seq(GoodLines)
    BY <1>1, <1>2, MessageStopTells, EndsOnceWithin
  <2> QED
    BY <1>2, <1>6, <2>1, <2>2, MessageStopTells
<1> QED
  BY <1>3, <1>4, <1>5, <1>6

-----------------------------------------------------------------------------
(* Finish.                                                                 *)

Unfinished(h) == [h EXCEPT !.buffer = <<>>]

LastLine(h) ==
  IF h.buffer = <<>> THEN Result(Unfinished(h), <<>>)
  ELSE IF trim THEN Trimmed(Unfinished(h), h.buffer[1])
  ELSE Result(Noted(Unfinished(h), h.buffer[1]), <<>>)

Finish(h) == IF proto = "anthropic" THEN AnthropicFinish(h, trim) ELSE OpenAIFinish(h, trim)

LEMMA UnfinishedIs ==
  ASSUME NEW h, GuardOK(h), NEW e, e = Unfinished(h)
  PROVE  /\ GuardOK(e) /\ e.buffer = <<>> /\ e.done = h.done /\ e.pend = h.pend
         /\ KnownOpen(e) = KnownOpen(h)
         /\ (KnownEnd(e) <=> KnownEnd(h)) /\ (KnownError(e) <=> KnownError(h))
         /\ h.buffer = <<>> => e = h
<1>1. CASE proto = "anthropic"
  <2>1. h \in AnthropicGuards
    BY <1>1 DEF GuardOK
  <2>2. e \in AnthropicGuards
    BY <2>1, GuardsSet, NoneOfAny DEF Unfinished
  <2>3. /\ e.buffer = <<>> /\ e.done = h.done /\ e.pend = h.pend /\ e.open = h.open
        /\ e.sawStop = h.sawStop /\ e.sawError = h.sawError
        /\ e.pendActive = h.pendActive /\ e.held = h.held
        /\ h.buffer = <<>> => e = h
    BY <2>1 DEF AnthropicGuards, Unfinished
  <2> QED
    BY <1>1, <2>2, <2>3 DEF GuardOK, KnownOpen, KnownEnd, KnownError
<1>2. CASE proto # "anthropic"
  <2>1. h \in OpenAIGuards
    BY <1>2 DEF GuardOK
  <2>2. e \in OpenAIGuards
    BY <2>1, OpenAIGuardsSet, NoneOfAny DEF Unfinished
  <2>3. /\ e.buffer = <<>> /\ e.done = h.done /\ e.pend = h.pend
        /\ e.sawDone = h.sawDone
        /\ h.buffer = <<>> => e = h
    BY <2>1 DEF OpenAIGuards, Unfinished
  <2> QED
    BY <1>2, <2>2, <2>3 DEF GuardOK, KnownOpen, KnownEnd, KnownError
<1> QED
  BY <1>1, <1>2

LEMMA Joined ==
  ASSUME NEW S
  PROVE  \A x, y \in Seq(S) :
           /\ x \o y \in Seq(S) /\ Len(x \o y) = Len(x) + Len(y)
           /\ Len(x) \in Nat /\ Len(y) \in Nat
           /\ \A n \in 1 .. Len(x) + Len(y) :
                (x \o y)[n] = IF n <= Len(x) THEN x[n] ELSE y[n - Len(x)]
OBVIOUS

LEMMA JoinedTwice ==
  ASSUME NEW S, NEW s \in Seq(S), NEW t \in Seq(S), NEW u \in Seq(S)
  PROVE  (s \o t) \o u = s \o (t \o u)
<1>1. \A x, y \in Seq(S) :
        /\ x \o y \in Seq(S) /\ Len(x \o y) = Len(x) + Len(y)
        /\ Len(x) \in Nat /\ Len(y) \in Nat
        /\ \A n \in 1 .. Len(x) + Len(y) :
             (x \o y)[n] = IF n <= Len(x) THEN x[n] ELSE y[n - Len(x)]
  BY Joined
<1> DEFINE a == (s \o t) \o u
           b == s \o (t \o u)
           k == Len(s) + (Len(t) + Len(u))
<1>2. a \in Seq(S) /\ b \in Seq(S) /\ Len(a) = k /\ Len(b) = k
  BY <1>1
<1>3. ASSUME NEW n \in 1 .. k PROVE a[n] = b[n]
  <2>1. a[n] = IF n <= Len(s) THEN s[n]
               ELSE IF n <= Len(s) + Len(t) THEN t[n - Len(s)]
               ELSE u[n - (Len(s) + Len(t))]
    BY <1>1
  <2>2. b[n] = IF n <= Len(s) THEN s[n]
               ELSE IF n <= Len(s) + Len(t) THEN t[n - Len(s)]
               ELSE u[n - (Len(s) + Len(t))]
    BY <1>1
  <2> QED
    BY <2>1, <2>2
<1> HIDE DEF a, b, k
<1> QED
  BY <1>2, <1>3 DEF a, b

LEMMA ResultIs ==
  ASSUME NEW x, NEW y, NEW v, v = Result(x, y)
  PROVE  v.g = x /\ v.out = y
BY DEF Result

LEMMA FinishIs ==
  ASSUME proto \in {"anthropic", "openai"}, NEW h, GuardOK(h),
         NEW r, r = LastLine(h), r.out \in Seq(GoodLines), GuardOK(r.g)
  PROVE  /\ h.done => Finish(h) = Result(Unfinished(h), <<>>)
         /\ ~h.done /\ r.g.done => Finish(h) = r
         /\ ~h.done /\ ~r.g.done =>
              /\ Finish(h).out = r.out \o (Leftover(r.g) \o StreamEnd(r.g))
              /\ Finish(h).g.pend = <<>> /\ Finish(h).g.buffer = r.g.buffer
<1> DEFINE e == Unfinished(h)
           p == Leftover(r.g)
           z == StreamEnd(r.g)
<1>1. p \in Seq(GoodLines) /\ z \in Seq(GoodLines)
  BY LeftoverTells, StreamEndTells, PlainSeq
<1>2. CASE proto = "anthropic"
  <2> DEFINE a == Pending(r.g)
             b == Closing(r.g.open)
             n == Flushed(r.g)
  <2>1. r.g \in AnthropicGuards /\ r.g.open \in SUBSET Blocks
    BY <1>2 DEF GuardOK, AnthropicGuards
  <2>2. a \in Seq(GoodLines) /\ b \in Seq(GoodLines)
    BY <2>1, PendingQuiet, ClosingTells, PlainSeq, QuietPlain, Subsequences
  <2>3. n.pend = <<>> /\ n.buffer = r.g.buffer
    BY <2>1 DEF Flushed, AnthropicGuards
  <2>4. r = IF h.buffer = <<>> THEN Result(e, <<>>)
            ELSE IF trim THEN TrimLine(e, h.buffer[1])
            ELSE Result(Scan(e, h.buffer[1]), <<>>)
    BY <1>2 DEF LastLine, Trimmed, Noted
  <2>5. z = IF r.g.sawStop THEN <<>>
            ELSE IF r.g.sawError THEN MessageStopOnly
            ELSE MessageStop("end_turn")
    BY <1>2 DEF StreamEnd, KnownEnd, KnownError
  <2>6. p = a \o b
    BY <1>2 DEF Leftover
  <2> HIDE DEF a, b, n, p, z
  <2>7. Finish(h) = IF h.done THEN Result(e, <<>>)
                    ELSE IF r.g.done THEN r
                    ELSE Result(n, ((r.out \o a) \o b) \o z)
    BY <1>2, <2>4, <2>5 DEF Finish, AnthropicFinish, Unfinished, n, a, b
  <2>8. ((r.out \o a) \o b) \o z = r.out \o (p \o z)
    <3> DEFINE x == r.out
    <3>1. x \in Seq(GoodLines) /\ x \o a \in Seq(GoodLines)
          /\ p \in Seq(GoodLines) /\ z \in Seq(GoodLines)
      BY <1>1, <2>2 DEF p, z
    <3> HIDE DEF x
    <3>2. (x \o a) \o b = x \o p
      <4>0. x \in Seq(GoodLines) /\ a \in Seq(GoodLines) /\ b \in Seq(GoodLines)
        BY <2>2, <3>1
      <4>1. (x \o a) \o b = x \o (a \o b)
        BY <4>0, JoinedTwice
      <4> QED
        BY <2>6, <4>1
    <3>3. (x \o p) \o z = x \o (p \o z)
      <4>1. x \in Seq(GoodLines) /\ p \in Seq(GoodLines) /\ z \in Seq(GoodLines)
        BY <3>1
      <4> QED
        BY <4>1, JoinedTwice
    <3> QED
      BY <3>2, <3>3 DEF x
  <2>9. h.done => Finish(h) = Result(e, <<>>)
    BY <2>7
  <2>10. ~h.done /\ r.g.done => Finish(h) = r
    BY <2>7
  <2>11. ~h.done /\ ~r.g.done => Finish(h) = Result(n, r.out \o (p \o z))
    BY <2>7, <2>8
  <2>12. ASSUME ~h.done, ~r.g.done
         PROVE  /\ Finish(h).out = r.out \o (p \o z)
                /\ Finish(h).g.pend = <<>> /\ Finish(h).g.buffer = r.g.buffer
    <3> DEFINE v == Finish(h)
               x == r.out \o (p \o z)
    <3>0. v = Result(n, x)
      BY <2>11, <2>12
    <3>1. v.g = n /\ v.out = x
      <4> HIDE DEF v, x
      <4> QED
        BY <3>0, ResultIs
    <3> QED
      BY <2>3, <3>1
  <2> QED
    BY <2>9, <2>10, <2>12 DEF p, z
<1>3. CASE proto = "openai"
  <2> DEFINE n == [r.g EXCEPT !.pend = <<>>]
  <2>1. r.g \in OpenAIGuards
    BY <1>3 DEF GuardOK
  <2>2. n.pend = <<>> /\ n.buffer = r.g.buffer
    BY <2>1 DEF OpenAIGuards
  <2>3. r = IF h.buffer = <<>> THEN Result(e, <<>>)
            ELSE IF trim THEN TrimLineO(e, h.buffer[1])
            ELSE Result([e EXCEPT !.sawDone = @ \/ IsDoneLine(h.buffer[1])], <<>>)
    BY <1>3 DEF LastLine, Trimmed, Noted
  <2>4. z = IF r.g.sawDone THEN <<>> ELSE <<Done, Blank>>
    BY <1>3 DEF StreamEnd, KnownEnd
  <2>5. p = FlushChunk(r.g.pend)
    BY <1>3 DEF Leftover
  <2> HIDE DEF n, p, z
  <2>6. Finish(h) = IF h.done THEN Result(e, <<>>)
                    ELSE IF r.g.done THEN r
                    ELSE Result(n, (r.out \o p) \o z)
    BY <1>3, <2>3, <2>4, <2>5 DEF Finish, OpenAIFinish, Unfinished, n
  <2>7. (r.out \o p) \o z = r.out \o (p \o z)
    <3> DEFINE x == r.out
    <3>1. x \in Seq(GoodLines) /\ p \in Seq(GoodLines) /\ z \in Seq(GoodLines)
      BY <1>1 DEF p, z
    <3> HIDE DEF x
    <3>2. (x \o p) \o z = x \o (p \o z)
      BY <3>1, JoinedTwice
    <3> QED
      BY <3>2 DEF x
  <2>8. h.done => Finish(h) = Result(e, <<>>)
    BY <2>6
  <2>9. ~h.done /\ r.g.done => Finish(h) = r
    BY <2>6
  <2>10. ~h.done /\ ~r.g.done => Finish(h) = Result(n, r.out \o (p \o z))
    BY <2>6, <2>7
  <2>12. ASSUME ~h.done, ~r.g.done
         PROVE  /\ Finish(h).out = r.out \o (p \o z)
                /\ Finish(h).g.pend = <<>> /\ Finish(h).g.buffer = r.g.buffer
    <3> DEFINE v == Finish(h)
               x == r.out \o (p \o z)
    <3>0. v = Result(n, x)
      BY <2>10, <2>12
    <3>1. v.g = n /\ v.out = x
      <4> HIDE DEF v, x
      <4> QED
        BY <3>0, ResultIs
    <3> QED
      BY <2>2, <3>1
  <2> QED
    BY <2>8, <2>9, <2>12 DEF p, z
<1> QED
  BY <1>2, <1>3

(* A line under way.                                                       *)
LEMMA UnderWay ==
  ASSUME proto \in {"anthropic", "openai"}, Running, g.buffer # <<>>,
         NEW l, l = g.buffer[1]
  PROVE  /\ StreamLine(l) /\ ~g.done /\ up.todo # <<>>
         /\ l.k = "data" => cl.ends = 0 /\ ~cl.failed
         /\ cl.failed => Quiet(l)
         /\ trim /\ l.k = "data" /\ l.whole /\ l.type = "delta" => cl.open \subseteq {l.idx}
<1>1. up.todo # <<>> /\ l \in Halves(Head(up.todo)) /\ ~g.done
  BY DEF Running, HalfOK
<1> DEFINE t == Head(up.todo)
<1>2. /\ StreamLine(t) /\ t.whole = TRUE
      /\ \/ t \in DataLines /\ Ahead(t)
         \/ t.k = "event" /\ \E m \in DataLines : Ahead(m)
         \/ t = Blank
         \/ t = Junk
  BY <1>1, TodoIs DEF Running
<1>3. StreamLine(l) /\ l.k = t.k /\ t # Blank
  BY <1>1, <1>2, HalvesAre
<1>10. l.whole => l = t
  <2>1. t \in Lines
    BY <1>2 DEF StreamLine, GoodLines
  <2>2. ASSUME NEW h, h = [t EXCEPT !.whole = FALSE] \/ h = [t EXCEPT !.type = "cut", !.whole = FALSE]
                     \/ h = [t EXCEPT !.idx = NoIndex, !.whole = FALSE]
        PROVE  h.whole = FALSE
    BY <2>1, <2>2 DEF Lines
  <2> HIDE DEF t
  <2>3. \/ l = [t EXCEPT !.type = "cut", !.whole = FALSE]
        \/ l = [t EXCEPT !.idx = NoIndex, !.whole = FALSE]
        \/ l = [t EXCEPT !.whole = FALSE]
        \/ l = t
    BY <1>1, <2>1 DEF Halves, Lines, Kinds, t
  <2> QED
    BY <2>2, <2>3
<1>4. InStep
  BY <1>1 DEF Running, Agreed
<1>5. (\E m \in DataLines : Ahead(m)) => cl.ends = 0 /\ ~cl.failed
  BY <1>4, InStepAhead
<1>6. \A m \in DataLines : m.k = "data"
  BY DataLinesAre
<1> HIDE DEF t
<1>7. Junk.k = "junk"
  BY BlankIs
<1>8. l.k = "data" => t \in DataLines /\ Ahead(t)
  BY <1>2, <1>3, <1>7
<1>9. cl.failed => l.k # "data"
  BY <1>5, <1>8
<1>11. trim /\ l.k = "data" /\ l.whole /\ l.type = "delta" => cl.open \subseteq {l.idx}
  BY <1>4, <1>8, <1>10, InStepAhead
<1> QED
  BY <1>1, <1>3, <1>5, <1>8, <1>9, <1>11 DEF Quiet

(* The client, with its unfinished line, when the stream is running.       *)
LEMMA RunningSane ==
  ASSUME proto \in {"anthropic", "openai"}, trim \in BOOLEAN, Running
  PROVE  Sane(cl)
<1>1. ASSUME cl.tail # <<>> PROVE LineOK(cl.tail[1])
  <2>1. CASE g.buffer = <<>>
    BY <1>1, <2>1 DEF Running, HalfOK
  <2>2. CASE g.buffer # <<>>
    <3>1. cl.tail = g.buffer
      BY <1>1, <2>2 DEF Running, HalfOK
    <3>2. StreamLine(g.buffer[1])
      BY <2>2, UnderWay
    <3> QED
      BY <3>1, <3>2 DEF StreamLine, GoodLines
  <2> QED
    BY <2>1, <2>2
<1> QED
  BY <1>1 DEF Sane, Running

LEMMA PassedOnGood ==
  ASSUME NEW l, NEW out, PassOn(l, out)
  PROVE  out \in Seq(GoodLines)
<1>1. PICK q \in Seq(QuietLines) :
        \/ Quiet(l) /\ out = q
        \/ \E m \in GoodLines : Alike(l, m) /\ out = q \o <<m>>
  BY DEF PassOn
<1>2. QuietLines \subseteq GoodLines
  BY DEF QuietLines
<1>3. q \in Seq(GoodLines)
  BY <1>2, Subsequences
<1>4. \A m \in GoodLines : <<m>> \in Seq(GoodLines)
  OBVIOUS
<1>5. \A s, t \in Seq(GoodLines) : s \o t \in Seq(GoodLines)
  OBVIOUS
<1> QED
  BY <1>1, <1>3, <1>4, <1>5

(* What the last, unfinished line does to a guard that is not done.        *)
LEMMA LastLineTells ==
  ASSUME proto \in {"anthropic", "openai"}, trim \in BOOLEAN, Running, ~g.done,
         NEW r, r = LastLine(g)
  PROVE  /\ GuardOK(r.g) /\ r.g.buffer = <<>> /\ r.out \in Seq(GoodLines)
         /\ g.buffer = <<>> => r.g = g /\ r.out = <<>>
         /\ ~trim /\ g.buffer # <<>> =>
              ~r.g.done /\ r.out = <<>> /\ Follows(g, g.buffer[1], r.g)
         /\ trim /\ g.buffer # <<>> =>
              \/ Meets(g.buffer[1], r)
              \/ ~r.g.done /\ Follows(g, g.buffer[1], r.g) /\ PassOn(g.buffer[1], r.out)
<1> DEFINE e == Unfinished(g)
           l == g.buffer[1]
<1>1. GuardOK(g)
  BY DEF Running
<1>2. /\ GuardOK(e) /\ e.buffer = <<>> /\ e.done = g.done
      /\ KnownOpen(e) = KnownOpen(g)
      /\ (KnownEnd(e) <=> KnownEnd(g)) /\ (KnownError(e) <=> KnownError(g))
      /\ g.buffer = <<>> => e = g
  BY <1>1, UnfinishedIs
<1>3. \A n : Follows(e, l, n) => Follows(g, l, n)
  BY <1>2 DEF Follows
<1>4. g.buffer # <<>> => StreamLine(l)
  BY UnderWay
<1>5. <<>> \in Seq(GoodLines)
  OBVIOUS
<1> HIDE DEF e
<1>6. CASE g.buffer = <<>>
  <2>1. r = Result(e, <<>>)
    BY <1>6 DEF LastLine, e
  <2>2. r.g = e /\ r.out = <<>>
    BY <2>1, ResultIs
  <2> QED
    BY <1>2, <1>5, <1>6, <2>2
<1>7. CASE g.buffer # <<>> /\ ~trim
  <2> DEFINE n == Noted(e, l)
  <2>1. r = Result(n, <<>>)
    BY <1>7 DEF LastLine, e
  <2>2. GuardOK(n) /\ n.done = e.done /\ n.buffer = e.buffer /\ Follows(e, l, n)
    BY <1>2, <1>4, <1>7, NotedTells
  <2> HIDE DEF n
  <2>3. r.g = n /\ r.out = <<>>
    BY <2>1, ResultIs
  <2> QED
    BY <1>2, <1>3, <1>5, <1>7, <2>2, <2>3
<1>8. CASE g.buffer # <<>> /\ trim
  <2>1. r = Trimmed(e, l)
    BY <1>8 DEF LastLine, e
  <2>2. \/ Meets(l, r)
        \/ /\ GuardOK(r.g) /\ ~r.g.done /\ r.g.buffer = e.buffer
           /\ Follows(e, l, r.g) /\ PassOn(l, r.out)
    BY <1>2, <1>4, <1>8, <2>1, TrimmedTells
  <2>3. Meets(l, r) => GuardOK(r.g) /\ r.g.buffer = <<>> /\ r.out \in Seq(GoodLines)
    <3>1. <<>> \in Seq(OtherLines)
      OBVIOUS
    <3> HIDE DEF l
    <3> QED
      BY <3>1, EndsOnceWithin DEF Meets
  <2>4. PassOn(l, r.out) => r.out \in Seq(GoodLines)
    BY PassedOnGood
  <2> QED
    BY <1>2, <1>3, <1>8, <2>2, <2>3, <2>4
<1> QED
  BY <1>6, <1>7, <1>8

(* What a client is told at the end.                                       *)
LEMMA EndingTells ==
  ASSUME proto \in {"anthropic", "openai"}, NEW n, GuardOK(n), NEW c, Sane(c),
         NEW d, d = ReceiveAll(c, Leftover(n) \o StreamEnd(n))
  PROVE  /\ Sane(d) /\ Later(c, d)
         /\ KnownEnd(n) => Heaviest(d) <= Heaviest(c)
         /\ ~KnownEnd(n) => Heaviest(d) <= Heaviest(c) + 1
         /\ KnownError(n) /\ (c.tail # <<>> => Mute(c.tail[1])) =>
              d.reason = c.reason /\ d.tail \in {<<>>, c.tail}
         /\ c.tail = <<>> =>
              /\ d.tail = <<>> /\ d.open = c.open \ KnownOpen(n)
              /\ d.ends = IF KnownEnd(n) THEN c.ends ELSE c.ends + 1
              /\ d.failed = c.failed
              /\ \/ d.reason = c.reason
                 \/ ~KnownEnd(n) /\ ~KnownError(n) /\ d.reason = "end_turn"
<1> DEFINE p == Leftover(n)
           z == StreamEnd(n)
           w == p \o z
<1>1. p \in Seq(OtherLines) /\ p \in Seq(MuteLines) /\ p \in Seq(GoodLines)
  BY LeftoverTells, PlainSeq
<1>2. z \in Seq(GoodLines)
  BY StreamEndTells
<1>3. w \in Seq(GoodLines) /\ d = ReceiveAll(c, w)
  <2> HIDE DEF p, z
  <2>1. w \in Seq(GoodLines)
    BY <1>1, <1>2
  <2> QED
    BY <2>1 DEF p, z
<1>4. Sane(d) /\ Later(c, d)
  <2> HIDE DEF w
  <2> QED
    BY <1>3, LinesTell
<1>5. ASSUME KnownEnd(n)
      PROVE  Heaviest(d) <= Heaviest(c)
  <2>1. z = <<>>
    BY <1>5, StreamEndTells
  <2>2. w = p
    <3> HIDE DEF p, z
    <3> QED
      BY <1>1, <2>1
  <2> HIDE DEF w, p
  <2> QED
    BY <1>1, <1>3, <2>2, LinesTell
<1>6. ASSUME ~KnownEnd(n)
      PROVE  Heaviest(d) <= Heaviest(c) + 1
  <2>1. EndsOnce(z)
    BY <1>6, StreamEndTells
  <2>2. <<>> \in Seq(OtherLines)
    OBVIOUS
  <2>3. EndsOnce(w)
    <3> HIDE DEF p, z
    <3> QED
      BY <1>1, <2>1, <2>2, EndsOnceWithin
  <2> HIDE DEF w
  <2>4. PICK u \in Seq(OtherLines), v \in Seq(OtherLines) :
          \E e \in GoodLines : w = (u \o <<e>>) \o v
    BY <2>3 DEF EndsOnce
  <2>5. PICK e \in GoodLines : w = (u \o <<e>>) \o v
    BY <2>4
  <2> QED
    BY <1>3, <2>5, OneEnding
<1>7. ASSUME KnownError(n), c.tail # <<>> => Mute(c.tail[1])
      PROVE  d.reason = c.reason /\ d.tail \in {<<>>, c.tail}
  <2>1. z \in Seq(MuteLines)
    BY <1>7, StreamEndTells
  <2>2. w \in Seq(MuteLines)
    <3> HIDE DEF p, z
    <3> QED
      BY <1>1, <2>1
  <2> HIDE DEF w
  <2> QED
    BY <1>3, <1>7, <2>2, LinesTell
<1>8. ASSUME c.tail = <<>>
      PROVE  /\ d.tail = <<>> /\ d.open = c.open \ KnownOpen(n)
             /\ d.ends = IF KnownEnd(n) THEN c.ends ELSE c.ends + 1
             /\ d.failed = c.failed
             /\ \/ d.reason = c.reason
                \/ ~KnownEnd(n) /\ ~KnownError(n) /\ d.reason = "end_turn"
  <2> DEFINE a == ReceiveAll(c, p)
  <2>1. /\ Sane(a) /\ a.tail = <<>>
        /\ a.open = c.open \ KnownOpen(n) /\ a.ends = c.ends
        /\ a.failed = c.failed /\ a.reason = c.reason
    BY <1>8, LeftoverTells
  <2>2. d = ReceiveAll(a, z)
    <3> HIDE DEF p, z
    <3> QED
      BY <1>1, <1>2, <1>3, ReceiveMore
  <2> HIDE DEF a
  <2>3. /\ d.tail = <<>> /\ d.open = a.open
        /\ d.ends = IF KnownEnd(n) THEN a.ends ELSE a.ends + 1
        /\ d.failed = a.failed
        /\ \/ d.reason = a.reason
           \/ ~KnownEnd(n) /\ ~KnownError(n) /\ d.reason = "end_turn"
    BY <2>1, <2>2, StreamEndTells
  <2> QED
    BY <2>1, <2>3
<1> QED
  BY <1>4, <1>5, <1>6, <1>7, <1>8

(* An end, whatever state the stream was in.                               *)
Ended(n, d) ==
  /\ n.pend = <<>> /\ n.buffer = <<>>
  /\ Sane(d)
  /\ ClientOK(HangUp(d)) /\ HangUp(d).tail = <<>>
  /\ Later(cl, HangUp(d)) /\ HangUp(d).ends <= 1
  /\ cl.failed => HangUp(d).reason = cl.reason

(* An end at which everything is as it should be.                          *)
WellEnded(c) ==
  /\ c.open = {} /\ c.ends = 1
  /\ cl.failed => c.failed
  /\ cl.ends = 1 => c.failed = cl.failed /\ c.reason = cl.reason
  /\ c.failed => c.reason = cl.reason

LEMMA EndedIf ==
  ASSUME Sane(cl), NEW n, n.pend = <<>>, n.buffer = <<>>,
         NEW d, Sane(d), Later(cl, d), Heaviest(d) <= 1,
         cl.failed => d.reason = cl.reason /\ (d.tail # <<>> => Mute(d.tail[1]))
  PROVE  Ended(n, d)
<1>1. /\ ClientOK(HangUp(d)) /\ HangUp(d).tail = <<>>
      /\ Later(d, HangUp(d)) /\ HangUp(d).ends <= Heaviest(d)
      /\ (d.tail # <<>> => Mute(d.tail[1])) => HangUp(d).reason = d.reason
  BY HangUpTells
<1>2. /\ cl.ends \in Nat /\ d.ends \in Nat /\ HangUp(d).ends \in Nat
      /\ Heaviest(d) \in Nat
  BY <1>1, HeaviestNatural DEF Sane, ClientOK
<1> QED
  BY <1>1, <1>2 DEF Ended, Later

(* The guard is done: it has nothing left to say.                          *)
LEMMA FinishDone ==
  ASSUME proto \in {"anthropic", "openai"}, trim \in BOOLEAN, Running, g.done,
         NEW f, f = Finish(g), NEW d, d = ReceiveAll(cl, f.out)
  PROVE  Ended(f.g, d) /\ WellEnded(HangUp(d))
<1>1. GuardOK(g) /\ g.pend = <<>> /\ trim
  BY DEF Running, GuardOK
<1>2. cl.tail = <<>> /\ g.buffer = <<>>
  BY <1>1 DEF Running, HalfOK
<1>3. Sane(cl)
  BY RunningSane
<1> DEFINE e == Unfinished(g)
<1>4. GuardOK(e) /\ e.buffer = <<>> /\ e.pend = <<>> /\ e = g
  BY <1>1, <1>2, UnfinishedIs
<1> DEFINE r == Result(e, <<>>)
<1>5. r = LastLine(g)
  BY <1>2 DEF LastLine
<1> HIDE DEF e
<1>6. r.g = e /\ r.out = <<>>
  BY ResultIs
<1>7. <<>> \in Seq(GoodLines)
  OBVIOUS
<1>8. f = r
  <2> HIDE DEF r
  <2>1. Finish(g) = Result(Unfinished(g), <<>>)
    BY <1>1, <1>4, <1>5, <1>6, <1>7, FinishIs
  <2> QED
    BY <2>1 DEF r, e
<1> HIDE DEF r
<1>9. d = cl
  BY <1>6, <1>8, ReceiveNone
<1>10. cl.open = {} /\ cl.ends = 1
  BY DEF Running, Agreed
<1>11. Later(cl, d) /\ Heaviest(d) <= 1
  BY <1>2, <1>9, <1>10 DEF Later, Heaviest
<1>12. Ended(f.g, d)
  BY <1>2, <1>3, <1>4, <1>6, <1>8, <1>9, <1>11, EndedIf
<1>13. HangUp(d) = cl
  BY <1>2, <1>3, <1>9, HangUpTells
<1> QED
  BY <1>10, <1>12, <1>13 DEF WellEnded

(* Nothing is in the line buffer.                                          *)
LEMMA FinishPlain ==
  ASSUME proto \in {"anthropic", "openai"}, trim \in BOOLEAN, Running, ~g.done,
         g.buffer = <<>>,
         NEW f, f = Finish(g), NEW d, d = ReceiveAll(cl, f.out)
  PROVE  Ended(f.g, d) /\ (cl.tail = <<>> => WellEnded(HangUp(d)))
<1> DEFINE r == LastLine(g)
<1>1. GuardOK(r.g) /\ r.g = g /\ r.out = <<>> /\ r.out \in Seq(GoodLines)
  <2> HIDE DEF r
  <2> QED
    BY LastLineTells DEF r
<1>2. Sane(cl) /\ GuardOK(g)
  BY RunningSane DEF Running
<1> HIDE DEF r
<1> DEFINE w == Leftover(g) \o StreamEnd(g)
<1>3. f.g.pend = <<>> /\ f.g.buffer = <<>> /\ f.out = w
  <2>1. f.out = r.out \o w /\ f.g.pend = <<>> /\ f.g.buffer = r.g.buffer
    <3>1. r = LastLine(g)
      BY DEF r
    <3>2. f.out = r.out \o (Leftover(r.g) \o StreamEnd(r.g))
          /\ f.g.pend = <<>> /\ f.g.buffer = r.g.buffer
      BY <1>1, <1>2, <3>1, FinishIs
    <3> QED
      BY <1>1, <3>2
  <2>2. w \in Seq(GoodLines)
    <3> DEFINE p == Leftover(g)
               z == StreamEnd(g)
    <3>1. p \in Seq(GoodLines) /\ z \in Seq(GoodLines)
      BY <1>2, LeftoverTells, StreamEndTells, PlainSeq
    <3> HIDE DEF p, z
    <3> QED
      BY <3>1 DEF p, z
  <2> HIDE DEF w
  <2>3. <<>> \o w = w
    BY <2>2
  <2> QED
    BY <1>1, <2>1, <2>3
<1>4. /\ Sane(d) /\ Later(cl, d)
      /\ KnownEnd(g) => Heaviest(d) <= Heaviest(cl)
      /\ ~KnownEnd(g) => Heaviest(d) <= Heaviest(cl) + 1
      /\ KnownError(g) /\ (cl.tail # <<>> => Mute(cl.tail[1])) =>
           d.reason = cl.reason /\ d.tail \in {<<>>, cl.tail}
      /\ cl.tail = <<>> =>
           /\ d.tail = <<>> /\ d.open = cl.open \ KnownOpen(g)
           /\ d.ends = IF KnownEnd(g) THEN cl.ends ELSE cl.ends + 1
           /\ d.failed = cl.failed
           /\ \/ d.reason = cl.reason
              \/ ~KnownEnd(g) /\ ~KnownError(g) /\ d.reason = "end_turn"
  <2>1. d = ReceiveAll(cl, w)
    BY <1>3
  <2> QED
    BY <1>2, <2>1, EndingTells
<1>5. /\ cl.open = KnownOpen(g)
      /\ cl.ends = IF KnownEnd(g) THEN 1 ELSE 0
      /\ cl.failed => KnownError(g)
  BY DEF Running, Agreed
<1>6. cl.tail # <<>> => ~Ending(cl.tail[1]) /\ (cl.failed => Mute(cl.tail[1]))
  BY DEF Running, HalfOK
<1>7. Heaviest(cl) = cl.ends
  BY <1>5, <1>6 DEF Heaviest
<1>8. Heaviest(d) \in Nat /\ Heaviest(d) <= 1
  BY <1>4, <1>5, <1>7, HeaviestNatural
<1>9. Ended(f.g, d)
  BY <1>2, <1>3, <1>4, <1>5, <1>6, <1>8, EndedIf
<1>10. ASSUME cl.tail = <<>> PROVE WellEnded(HangUp(d))
  <2>1. HangUp(d) = d
    BY <1>4, <1>10, HangUpTells
  <2> QED
    BY <1>4, <1>5, <1>10, <2>1 DEF WellEnded
<1> QED
  BY <1>9, <1>10

(* Whoever reads what passes a line on is told what the line says.         *)
LEMMA PassOnTells ==
  ASSUME NEW c, Sane(c), c.tail = <<>>, NEW l, NEW out, PassOn(l, out),
         NEW b, b = ReceiveAll(c, out)
  PROVE  Told(c, l, b) /\ Sane(b) /\ b.tail = <<>>
<1>1. PICK q \in Seq(QuietLines) :
        \/ Quiet(l) /\ out = q
        \/ \E m \in GoodLines : Alike(l, m) /\ out = q \o <<m>>
  BY DEF PassOn
<1>2. CASE Quiet(l) /\ out = q
  <2>1. q \in Seq(GoodLines)
    BY PassedOnGood, <1>2
  <2>2. Same(c, b) /\ Sane(b) /\ b.tail = <<>>
    BY <1>2, <2>1, LinesTell
  <2> QED
    BY <1>2, <2>2, QuietTells DEF Sane
<1>3. CASE \E m \in GoodLines : Alike(l, m) /\ out = q \o <<m>>
  <2>1. PICK m \in GoodLines : Alike(l, m) /\ out = q \o <<m>>
    BY <1>3
  <2>2. b = ReceiveAll(c, (q \o <<m>>) \o <<>>)
    <3>1. q \o <<m>> \in Seq(GoodLines)
      BY <2>1, PassedOnGood
    <3> DEFINE w == q \o <<m>>
    <3> HIDE DEF w
    <3>2. w \in Seq(GoodLines) => w \o <<>> = w
      OBVIOUS
    <3> QED
      BY <2>1, <3>1, <3>2 DEF w
  <2>3. Told(c, m, b) /\ Sane(b) /\ b.tail = <<>>
    <3> DEFINE v == <<>>
    <3>1. v \in Seq(QuietLines) /\ b = ReceiveAll(c, (q \o <<m>>) \o v)
      BY <2>2, NoneOfAny
    <3> HIDE DEF v
    <3> QED
      BY <3>1, OneTells
  <2>4. Told(c, l, b)
    <3>1. CASE m = l
      BY <2>3, <3>1
    <3>2. CASE l.type \in {"chunk", "finish"} /\ m.k = l.k /\ m.type = l.type
               /\ m.whole = l.whole
      <4>1. Quiet(m) <=> Quiet(l)
        BY <3>2 DEF Quiet
      <4> QED
        BY <2>3, <3>2, <4>1 DEF Told, ToldOpen, ToldEnds, ToldFailed, ToldReason
    <3> QED
      BY <2>1, <3>1, <3>2 DEF Alike
  <2> QED
    BY <2>3, <2>4
<1> QED
  BY <1>1, <1>2, <1>3

(* With stop words, the unfinished line is trimmed like any other.         *)
LEMMA FinishTrimmed ==
  ASSUME proto \in {"anthropic", "openai"}, trim, Running, g.buffer # <<>>,
         NEW f, f = Finish(g), NEW d, d = ReceiveAll(cl, f.out)
  PROVE  Ended(f.g, d) /\ (~Misread(g.buffer[1]) => WellEnded(HangUp(d)))
<1> DEFINE l == g.buffer[1]
<1>1. /\ StreamLine(l) /\ ~g.done
      /\ l.k = "data" => cl.ends = 0 /\ ~cl.failed
      /\ cl.failed => Quiet(l)
      /\ l.k = "data" /\ l.whole /\ l.type = "delta" => cl.open \subseteq {l.idx}
  BY UnderWay
<1>2. GuardOK(g) /\ cl.tail = <<>>
  BY DEF Running, HalfOK
<1>3. Sane(cl)
  BY RunningSane
<1>4. PICK r : r = LastLine(g)
  OBVIOUS
<1>5. /\ GuardOK(r.g) /\ r.g.buffer = <<>> /\ r.out \in Seq(GoodLines)
      /\ \/ Meets(l, r)
         \/ ~r.g.done /\ Follows(g, l, r.g) /\ PassOn(l, r.out)
  BY <1>1, <1>4, LastLineTells
<1>6. /\ cl.ends = IF KnownEnd(g) THEN 1 ELSE 0
      /\ cl.failed => KnownError(g)
      /\ cl.open = KnownOpen(g)
      /\ cl.ends = 0 \/ cl.ends = 1
  BY <1>1 DEF Running, Agreed
<1> HIDE DEF l
<1>7. CASE Meets(l, r)
  <2>1. r.g.done /\ r.g.pend = <<>>
    BY <1>5, <1>7 DEF Meets, GuardOK
  <2>2. f = r
    BY <1>1, <1>2, <1>4, <1>5, <2>1, FinishIs
  <2>3. /\ Sane(d) /\ d.tail = <<>> /\ d.ends = cl.ends + 1 /\ d.failed = cl.failed
        /\ l.k = "data" /\ l.whole
        /\ d.open = cl.open \ (IF proto = "anthropic" THEN {l.idx} ELSE {})
    BY <1>2, <1>3, <1>7, <2>2 DEF Meets
  <2>4. cl.ends = 0 /\ ~cl.failed
    BY <1>1, <2>3
  <2>5. Later(cl, d) /\ Heaviest(d) <= 1
    BY <2>3, <2>4 DEF Later, Heaviest
  <2>6. Ended(f.g, d)
    BY <1>3, <1>5, <2>1, <2>2, <2>3, <2>4, <2>5, EndedIf
  <2>7. d.open = {}
    <3>1. CASE proto = "anthropic"
      <4>1. l.type = "delta"
        BY <1>1, <1>7, <3>1 DEF Meets, StreamLine, DataTypes
      <4> QED
        BY <1>1, <2>3, <3>1, <4>1
    <3>2. CASE proto # "anthropic"
      BY <1>6, <2>3, <3>2 DEF KnownOpen
    <3> QED
      BY <3>1, <3>2
  <2>8. HangUp(d) = d
    BY <2>3, HangUpTells
  <2>9. cl.failed \in BOOLEAN
    BY <1>3 DEF Sane, ClientOK
  <2> QED
    BY <2>3, <2>4, <2>6, <2>7, <2>8, <2>9 DEF WellEnded
<1>8. CASE ~r.g.done /\ Follows(g, l, r.g) /\ PassOn(l, r.out)
  <2> DEFINE n == r.g
             w == Leftover(n) \o StreamEnd(n)
             b == ReceiveAll(cl, r.out)
  <2>1. f.out = r.out \o w /\ f.g.pend = <<>> /\ f.g.buffer = <<>>
    BY <1>1, <1>2, <1>4, <1>5, <1>8, FinishIs
  <2>2. w \in Seq(GoodLines)
    <3> DEFINE p == Leftover(n)
               z == StreamEnd(n)
    <3>1. p \in Seq(GoodLines) /\ z \in Seq(GoodLines)
      BY <1>5, LeftoverTells, StreamEndTells, PlainSeq
    <3> HIDE DEF p, z
    <3> QED
      BY <3>1 DEF p, z
  <2>3. Told(cl, l, b) /\ Sane(b) /\ b.tail = <<>>
    BY <1>2, <1>3, <1>8, PassOnTells
  <2>4. d = ReceiveAll(b, w)
    <3> HIDE DEF w
    <3> QED
      BY <1>5, <2>1, <2>2, ReceiveMore
  <2> HIDE DEF b
  <2>5. /\ Sane(d) /\ d.tail = <<>>
        /\ d.ends = IF KnownEnd(n) THEN b.ends ELSE b.ends + 1
        /\ d.failed = b.failed /\ d.open = b.open \ KnownOpen(n)
        /\ KnownError(n) \/ KnownEnd(n) => d.reason = b.reason
    BY <1>5, <2>3, <2>4, EndingTells
  <2>6. /\ KnownEnd(g) => KnownEnd(n)
        /\ KnownError(g) => KnownError(n)
        /\ Ending(l) => KnownEnd(n)
        /\ ~Quiet(l) /\ l.type = "error" => KnownError(n)
    BY <1>8 DEF Follows, Ending, Quiet
  <2>12. ~Misread(l) =>
           /\ ToldOpen(cl, l) \subseteq KnownOpen(n)
           /\ KnownEnd(n) <=> KnownEnd(g) \/ Ending(l)
    <3>1. CASE l.whole
      BY <1>6, <1>8, <3>1 DEF Follows, ToldOpen, OpenAfter
    <3>2. CASE ~l.whole
      BY <1>6, <1>8, <3>2 DEF Follows, ToldOpen, Quiet, Ending
    <3> QED
      BY <3>1, <3>2
  <2> HIDE DEF n
  <2>7. b.ends = IF Ending(l) THEN cl.ends + 1 ELSE cl.ends
    BY <2>3 DEF Told, ToldEnds, Ending
  <2>8. Ending(l) => cl.ends = 0
    BY <1>1 DEF Ending, Quiet
  <2>9. d.ends <= 1 /\ cl.ends <= d.ends
    BY <1>6, <2>5, <2>6, <2>7, <2>8
  <2>10. cl.failed => d.failed /\ d.reason = cl.reason
    BY <1>1, <1>6, <2>3, <2>5, <2>6 DEF Told, ToldFailed, ToldReason
  <2>11. Later(cl, d) /\ Heaviest(d) <= 1
    BY <2>5, <2>9, <2>10 DEF Later, Heaviest, Sane, ClientOK
  <2>13. Ended(f.g, d)
    BY <1>3, <2>1, <2>5, <2>10, <2>11, EndedIf
  <2>14. ASSUME ~Misread(l) PROVE WellEnded(d)
    <3>1. d.open = {}
      BY <2>3, <2>5, <2>12, <2>14 DEF Told
    <3>2. d.ends = 1
      BY <1>6, <2>5, <2>7, <2>8, <2>12, <2>14
    <3>3. cl.ends = 1 => d.failed = cl.failed /\ d.reason = cl.reason
      <4> SUFFICES ASSUME cl.ends = 1 PROVE d.failed = cl.failed /\ d.reason = cl.reason
        OBVIOUS
      <4>1. Quiet(l) /\ KnownEnd(n)
        BY <1>1, <1>6, <2>6 DEF Quiet
      <4>2. cl.failed \in BOOLEAN
        BY <1>3 DEF Sane, ClientOK
      <4> QED
        BY <2>3, <2>5, <4>1, <4>2 DEF Told, ToldFailed, ToldReason
    <3>4. d.failed => d.reason = cl.reason
      <4>1. CASE cl.failed
        BY <2>10, <4>1
      <4>2. CASE ~Quiet(l) /\ l.type = "error"
        BY <2>3, <2>5, <2>6, <4>2 DEF Told, ToldReason
      <4>3. d.failed => cl.failed \/ (~Quiet(l) /\ l.type = "error")
        BY <2>3, <2>5 DEF Told, ToldFailed
      <4> QED
        BY <4>1, <4>2, <4>3
    <3> QED
      BY <2>10, <3>1, <3>2, <3>3, <3>4 DEF WellEnded
  <2>15. HangUp(d) = d
    BY <2>5, HangUpTells
  <2> QED
    BY <2>13, <2>14, <2>15 DEF l
<1> QED
  BY <1>5, <1>7, <1>8

(* Without stop words the client has the unfinished line already.          *)
LEMMA FinishUntrimmed ==
  ASSUME proto \in {"anthropic", "openai"}, ~trim, trim \in BOOLEAN, Running,
         g.buffer # <<>>,
         NEW f, f = Finish(g), NEW d, d = ReceiveAll(cl, f.out)
  PROVE  Ended(f.g, d)
<1> DEFINE l == g.buffer[1]
<1>1. /\ StreamLine(l) /\ ~g.done
      /\ l.k = "data" => cl.ends = 0 /\ ~cl.failed
      /\ cl.failed => Quiet(l)
  BY UnderWay
<1>2. GuardOK(g) /\ cl.tail = g.buffer /\ cl.tail[1] = l
  BY DEF Running, HalfOK
<1>3. Sane(cl)
  BY RunningSane
<1>4. PICK r : r = LastLine(g)
  OBVIOUS
<1>5. /\ GuardOK(r.g) /\ r.g.buffer = <<>> /\ r.out \in Seq(GoodLines)
      /\ ~r.g.done /\ r.out = <<>> /\ Follows(g, l, r.g)
  BY <1>1, <1>4, LastLineTells
<1>6. /\ cl.ends = IF KnownEnd(g) THEN 1 ELSE 0
      /\ cl.failed => KnownError(g)
  BY <1>1 DEF Running, Agreed
<1> HIDE DEF l
<1> DEFINE n == r.g
           w == Leftover(n) \o StreamEnd(n)
<1>7. f.out = w /\ f.g.pend = <<>> /\ f.g.buffer = <<>>
  <2>1. f.out = r.out \o w /\ f.g.pend = <<>> /\ f.g.buffer = <<>>
    BY <1>1, <1>2, <1>4, <1>5, FinishIs
  <2>2. w \in Seq(GoodLines)
    <3> DEFINE p == Leftover(n)
               z == StreamEnd(n)
    <3>1. p \in Seq(GoodLines) /\ z \in Seq(GoodLines)
      BY <1>5, LeftoverTells, StreamEndTells, PlainSeq
    <3> HIDE DEF p, z
    <3> QED
      BY <3>1 DEF p, z
  <2> HIDE DEF w
  <2>3. <<>> \o w = w
    BY <2>2
  <2> QED
    BY <1>5, <2>1, <2>3
<1>8. /\ Sane(d) /\ Later(cl, d)
      /\ KnownEnd(n) => Heaviest(d) <= Heaviest(cl)
      /\ ~KnownEnd(n) => Heaviest(d) <= Heaviest(cl) + 1
      /\ KnownError(n) /\ Mute(l) => d.reason = cl.reason /\ d.tail \in {<<>>, cl.tail}
  <2>1. d = ReceiveAll(cl, w)
    BY <1>7
  <2> QED
    BY <1>2, <1>3, <1>5, <2>1, EndingTells
<1>9. /\ KnownEnd(g) => KnownEnd(n)
      /\ KnownError(g) => KnownError(n)
      /\ Ending(l) => KnownEnd(n)
  BY <1>5 DEF Follows, Ending, Quiet
<1> HIDE DEF n
<1>10. Heaviest(cl) = IF Ending(l) THEN cl.ends + 1 ELSE cl.ends
  BY <1>2, <1>3 DEF Heaviest, Sane, ClientOK
<1>11. Ending(l) => cl.ends = 0
  BY <1>1 DEF Ending, Quiet
<1>12. Heaviest(d) <= 1
  <2>1. Heaviest(d) \in Nat
    BY <1>8, HeaviestNatural
  <2> QED
    BY <1>6, <1>8, <1>9, <1>10, <1>11, <2>1
<1>13. cl.failed => d.reason = cl.reason /\ (d.tail # <<>> => Mute(d.tail[1]))
  BY <1>1, <1>2, <1>6, <1>8, <1>9 DEF Mute
<1> QED
  BY <1>3, <1>7, <1>8, <1>12, <1>13, EndedIf

-----------------------------------------------------------------------------
(* The steps, one by one.                                                  *)

ClosedStep == [Closed!Next]_(Closed!vars)

LEMMA StepEnd ==
  ASSUME StreamInv, ended = "no", End
  PROVE  StreamInv' /\ ClosedStep
<1>1. /\ proto \in {"anthropic", "openai"} /\ trim \in BOOLEAN /\ Running
  BY DEF StreamInv
<1>2. PICK f : f = Finish(g)
  OBVIOUS
<1>3. PICK d : d = ReceiveAll(cl, f.out)
  OBVIOUS
<1>4. /\ g' = f.g /\ cl' = HangUp(d) /\ ended' \in {"eof", "error"}
      /\ proto' = proto /\ trim' = trim
  BY <1>2, <1>3 DEF End, Finish
<1>5. cut' \in {"border", "event", "line"}
      /\ (cut' # "line" /\ trim /\ g.buffer # <<>> => ~Misread(g.buffer[1]))
      /\ (cut' # "line" /\ ~trim => g.buffer = <<>> /\ cl.tail = <<>>)
      /\ (trim => cl.tail = <<>>)
  BY <1>1 DEF End, NothingOwed, Running, HalfOK
<1>6. Ended(f.g, d) /\ (cut' # "line" => WellEnded(HangUp(d)))
  <2>1. CASE g.done
    BY <1>1, <1>2, <1>3, <2>1, FinishDone
  <2>2. CASE ~g.done /\ g.buffer = <<>>
    BY <1>1, <1>2, <1>3, <1>5, <2>2, FinishPlain
  <2>3. CASE g.buffer # <<>> /\ trim
    BY <1>1, <1>2, <1>3, <1>5, <2>3, FinishTrimmed
  <2>4. CASE g.buffer # <<>> /\ ~trim
    BY <1>1, <1>2, <1>3, <1>5, <2>4, FinishUntrimmed
  <2> QED
    BY <2>1, <2>2, <2>3, <2>4
<1>7. /\ g'.pend = <<>> /\ g'.buffer = <<>>
      /\ ClientOK(cl') /\ cl'.tail = <<>>
      /\ Later(cl, cl') /\ cl'.ends <= 1
      /\ cl.failed => cl'.reason = cl.reason
      /\ cut' # "line" => WellEnded(cl')
  <2>1. Ended(f.g, d) => /\ f.g.pend = <<>> /\ f.g.buffer = <<>>
                         /\ ClientOK(HangUp(d)) /\ HangUp(d).tail = <<>>
                         /\ Later(cl, HangUp(d)) /\ HangUp(d).ends <= 1
                         /\ cl.failed => HangUp(d).reason = cl.reason
    BY DEF Ended
  <2> QED
    BY <1>4, <1>5, <1>6, <2>1
<1>8. /\ cl'.open \in SUBSET Blocks /\ cl'.ends \in 0 .. 1 /\ cl'.failed \in BOOLEAN
      /\ cl'.reason \in Reasons
  BY <1>7 DEF ClientOK
<1>9. StreamInv'
  <2>1. Over'
    <3>1. Len(g'.buffer) = 0 /\ Len(cl'.tail) = 0 /\ Len(g'.pend) = 0
      BY <1>7
    <3>2. Holdback \in Nat
      BY HoldbackIs
    <3> QED
      BY <1>7, <1>8, <3>1, <3>2 DEF Over
  <2> QED
    BY <1>1, <1>4, <1>5, <2>1 DEF StreamInv
<1>10. cl.ends \in 0 .. 1 /\ cl.failed \in BOOLEAN
  BY <1>1 DEF Running, Agreed, ClientOK
<1>11. CASE cut' # "line"
  <2>1. Closed!Close
    <3>1. WellEnded(cl')
      BY <1>7, <1>11
    <3> QED
      BY <1>4, <1>8, <1>10, <1>11, <3>1
      DEF Closed!Close, Closed!Reasons, Reasons, Finished, WellEnded
  <2> QED
    BY <1>9, <2>1 DEF ClosedStep, Closed!Next
<1>12. CASE cut' = "line"
  <2>1. Closed!Abandon
    <3>1. cl'.ends \in {cl.ends, 1} /\ cl'.failed \in {cl.failed, TRUE}
      <4>1. cl.ends <= cl'.ends /\ (cl.failed => cl'.failed)
        BY <1>7 DEF Later
      <4>2. cl'.failed \in {cl.failed, TRUE}
        BY <1>8, <1>10, <4>1
      <4>3. (cl.ends = 0 \/ cl.ends = 1) /\ (cl'.ends = 0 \/ cl'.ends = 1)
        BY <1>8, <1>10
      <4>4. cl'.ends = cl.ends \/ cl'.ends = 1
        BY <4>1, <4>3
      <4> QED
        BY <4>2, <4>4
    <3>2. ~(Finished /\ cut # "line")' /\ ended' # "no"
      BY <1>4, <1>12
    <3> QED
      BY <1>7, <1>8, <3>1, <3>2 DEF Closed!Abandon, Reasons
  <2> QED
    BY <1>9, <2>1 DEF ClosedStep, Closed!Next
<1> QED
  BY <1>9, <1>11, <1>12

LEMMA StepDisconnect ==
  ASSUME StreamInv, ended = "no", Disconnect
  PROVE  StreamInv' /\ ClosedStep
<1>1. Running
  BY DEF StreamInv
<1>2. cl.open \in SUBSET Blocks /\ cl.ends \in 0 .. 1 /\ cl.failed \in BOOLEAN
      /\ cl.reason \in Reasons
  BY <1>1 DEF Running, Agreed, ClientOK
<1>3. Over
  BY <1>1, <1>2 DEF Over, Running, GuardOK, ClientOK
<1>4. StreamInv'
  <2>1. Over' /\ ended' = "left"
    BY <1>3 DEF Over, Disconnect
  <2> QED
    BY <2>1 DEF StreamInv, Disconnect
<1>5. Closed!Abandon
  BY <1>2 DEF Closed!Abandon, Disconnect, Finished, Reasons
<1> QED
  BY <1>4, <1>5 DEF ClosedStep, Closed!Next

(* An event the upstream may send now.                                     *)
EventFits(e) ==
  /\ DataLine(e.type, e.idx, e.text) \in DataLines
  /\ e.type \in Types /\ e.idx \in Int /\ e.text \in Payloads
  /\ proto = "openai" => e.type \in {"chunk", "finish", "done", "noise"}
  /\ e.type = "start" => e.idx \in Blocks /\ ~up.reason /\ (up.open = {} \/ ~trim)
  /\ e.type = "delta" => e.idx \in up.open
  /\ proto = "anthropic" /\ e.type \in {"mdelta", "finish"} => up.open = {}
  /\ e.type = "mstop" => proto = "anthropic" /\ up.reason

LEMMA EventReads ==
  ASSUME NEW y, NEW i, NEW t, NEW e, e = Event(y, i, t)
  PROVE  e.type = y /\ e.idx = i /\ e.text = t
BY DEF Event

LEMMA EventsAre ==
  ASSUME proto \in {"anthropic", "openai"}, UpOK,
         NEW e \in IF proto = "anthropic" THEN AnthropicEvents(up) ELSE OpenAIEvents(up)
  PROVE  EventFits(e)
<1>1. up.open \subseteq Blocks /\ \A b \in Blocks : b \in Int
  BY MadeLines DEF UpOK, UpTypeOK
<1>2. NoText \in Payloads /\ <<"upstream">> \in Payloads /\ 0 \in Int
      /\ \A t \in Texts \cup {NoText} : t \in Payloads
  BY TextPayloads
<1>3. /\ {"start", "delta", "stop", "mdelta", "mstop", "error", "noise"} \subseteq Types
      /\ {"chunk", "finish", "done", "noise"} \subseteq Types
  BY DEF Types
<1>4. CASE proto = "anthropic"
  <2>1. e \in AnthropicEvents(up)
    BY <1>4
  <2>2. \/ \E b \in Blocks : e = Event("start", b, NoText) /\ ~up.reason
                             /\ (up.open = {} \/ ~trim)
        \/ \E b \in up.open \cap {up.next - 1}, t \in Texts \cup {NoText} :
             e = Event("delta", b, t)
        \/ \E b \in up.open : e = Event("stop", b, NoText)
        \/ up.open = {} /\ e = Event("mdelta", 0, <<"upstream">>)
        \/ up.reason /\ e = Event("mstop", 0, NoText)
        \/ e = Event("error", 0, NoText)
        \/ e = Event("noise", 0, NoText)
    BY <2>1 DEF AnthropicEvents
  <2>3. /\ \A b \in Blocks : DataLine("start", b, NoText) \in DataLines
        /\ \A b \in Blocks : DataLine("stop", b, NoText) \in DataLines
        /\ \A b \in Blocks, t \in Texts \cup {NoText} : DataLine("delta", b, t) \in DataLines
        /\ DataLine("mdelta", 0, <<"upstream">>) \in DataLines
        /\ DataLine("mstop", 0, NoText) \in DataLines
        /\ DataLine("error", 0, NoText) \in DataLines
        /\ DataLine("noise", 0, NoText) \in DataLines
    BY <1>4 DEF DataLines
  <2>4. CASE \E b \in Blocks : e = Event("start", b, NoText) /\ ~up.reason
                               /\ (up.open = {} \/ ~trim)
    <3>1. PICK b \in Blocks : e = Event("start", b, NoText) /\ ~up.reason
                               /\ (up.open = {} \/ ~trim)
      BY <2>4
    <3>2. e.type = "start" /\ e.idx = b /\ e.text = NoText
      BY <3>1, EventReads
    <3> QED
      BY <1>1, <1>2, <1>3, <1>4, <2>3, <3>1, <3>2 DEF EventFits
  <2>5. CASE \E b \in up.open \cap {up.next - 1}, t \in Texts \cup {NoText} :
               e = Event("delta", b, t)
    <3>1. PICK b \in up.open, t \in Texts \cup {NoText} : e = Event("delta", b, t)
      BY <2>5
    <3>2. e.type = "delta" /\ e.idx = b /\ e.text = t
      BY <3>1, EventReads
    <3> QED
      BY <1>1, <1>2, <1>3, <1>4, <2>3, <3>2 DEF EventFits
  <2>6. CASE \E b \in up.open : e = Event("stop", b, NoText)
    <3>1. PICK b \in up.open : e = Event("stop", b, NoText)
      BY <2>6
    <3>2. e.type = "stop" /\ e.idx = b /\ e.text = NoText
      BY <3>1, EventReads
    <3> QED
      BY <1>1, <1>2, <1>3, <1>4, <2>3, <3>2 DEF EventFits
  <2>7. CASE up.open = {} /\ e = Event("mdelta", 0, <<"upstream">>)
    <3>1. e.type = "mdelta" /\ e.idx = 0 /\ e.text = <<"upstream">>
      BY <2>7, EventReads
    <3> QED
      BY <1>2, <1>3, <1>4, <2>3, <2>7, <3>1 DEF EventFits
  <2>8. CASE up.reason /\ e = Event("mstop", 0, NoText)
    <3>1. e.type = "mstop" /\ e.idx = 0 /\ e.text = NoText
      BY <2>8, EventReads
    <3> QED
      BY <1>2, <1>3, <1>4, <2>3, <2>8, <3>1 DEF EventFits
  <2>9. CASE e = Event("error", 0, NoText) \/ e = Event("noise", 0, NoText)
    <3>1. e.type \in {"error", "noise"} /\ e.idx = 0 /\ e.text = NoText
      BY <2>9, EventReads
    <3> QED
      BY <1>2, <1>3, <1>4, <2>3, <3>1 DEF EventFits
  <2> QED
    BY <2>2, <2>4, <2>5, <2>6, <2>7, <2>8, <2>9
<1>5. CASE proto = "openai"
  <2>1. e \in OpenAIEvents(up)
    BY <1>5
  <2>2. \/ \E y \in {"chunk", "finish"}, t \in Texts \cup {NoText} : e = Event(y, 0, t)
        \/ e = Event("done", 0, NoText)
        \/ e = Event("noise", 0, NoText)
    BY <2>1 DEF OpenAIEvents
  <2>3. /\ \A y \in {"chunk", "finish"}, t \in Texts \cup {NoText} :
             DataLine(y, 0, t) \in DataLines
        /\ DataLine("done", 0, NoText) \in DataLines
        /\ DataLine("noise", 0, NoText) \in DataLines
    BY <1>5 DEF DataLines
  <2>4. CASE \E y \in {"chunk", "finish"}, t \in Texts \cup {NoText} : e = Event(y, 0, t)
    <3>1. PICK y \in {"chunk", "finish"}, t \in Texts \cup {NoText} : e = Event(y, 0, t)
      BY <2>4
    <3>2. e.type = y /\ e.idx = 0 /\ e.text = t
      BY <3>1, EventReads
    <3> QED
      BY <1>2, <1>3, <1>5, <2>3, <3>2 DEF EventFits
  <2>5. CASE e = Event("done", 0, NoText) \/ e = Event("noise", 0, NoText)
    <3>1. e.type \in {"done", "noise"} /\ e.idx = 0 /\ e.text = NoText
      BY <2>5, EventReads
    <3> QED
      BY <1>2, <1>3, <1>5, <2>3, <3>1 DEF EventFits
  <2> QED
    BY <2>2, <2>4, <2>5
<1> QED
  BY <1>4, <1>5

(* What a step keeps that does not touch it.                               *)
LEMMA GuardKept ==
  ASSUME UNCHANGED <<proto, trim>>
  PROVE  /\ \A h : (proto \in {"anthropic", "openai"} /\ GuardOK(h)) => GuardOK(h)'
         /\ DataLines' = DataLines
BY DEF GuardOK, AnthropicGuards, OpenAIGuards, DataLines

(* The upstream goes on to state v: it sends event e, as line l.            *)
GoesOn(e, l, v) ==
  /\ l \in DataLines /\ l.type = e.type /\ l.idx = e.idx
  /\ v \in [todo : Seq(Lines), units : Nat, open : SUBSET Blocks, next : Nat,
            reason : BOOLEAN, over : BOOLEAN]
  /\ v.todo = IF proto = "anthropic" THEN <<EventLine(l.type), l, Blank>>
              ELSE <<l, Blank>>
  /\ v.open = CASE l.type = "start" -> up.open \cup {l.idx}
                [] l.type = "stop" -> up.open \ {l.idx}
                [] OTHER -> up.open
  /\ v.reason <=> up.reason \/ l.type \in {"mdelta", "finish"}
  /\ v.over <=> l.type \in {"mstop", "error", "done"}

LEMMA OneAndOne ==
  ASSUME NEW S
  PROVE  \A a, b \in S : <<a>> \o <<b>> = <<a, b>>
<1> SUFFICES ASSUME NEW a \in S, NEW b \in S
             PROVE  <<a>> \o <<b>> = <<a, b>>
  OBVIOUS
<1> DEFINE x == <<a>>
           y == <<b>>
           z == <<a, b>>
           u == x \o y
<1>1. x \in Seq(S) /\ y \in Seq(S) /\ z \in Seq(S)
  OBVIOUS
<1>2. Len(x) = 1 /\ Len(y) = 1 /\ Len(z) = 2
  OBVIOUS
<1>3. z[1] = x[1] /\ z[2] = y[1]
  OBVIOUS
<1> HIDE DEF x, y, z
<1>4. /\ u \in Seq(S) /\ Len(u) = Len(x) + Len(y)
      /\ \A n \in 1 .. Len(x) : u[n] = x[n]
      /\ \A n \in 1 .. Len(y) : u[Len(x) + n] = y[n]
  BY <1>1
<1> HIDE DEF u
<1>5. Len(u) = 2
  BY <1>2, <1>4
<1>6. u[1] = x[1] /\ u[1 + 1] = y[1]
  BY <1>2, <1>4
<1>7. u = z
  BY <1>1, <1>2, <1>3, <1>4, <1>5, <1>6
<1> QED
  BY <1>7 DEF u, x, y, z

LEMMA OneAndTwo ==
  ASSUME NEW S
  PROVE  \A a, b, c \in S : <<a>> \o <<b, c>> = <<a, b, c>>
<1> SUFFICES ASSUME NEW a \in S, NEW b \in S, NEW c \in S
             PROVE  <<a>> \o <<b, c>> = <<a, b, c>>
  OBVIOUS
<1> DEFINE x == <<a>>
           y == <<b, c>>
           z == <<a, b, c>>
           u == x \o y
<1>1. x \in Seq(S) /\ y \in Seq(S) /\ z \in Seq(S)
  OBVIOUS
<1>2. Len(x) = 1 /\ Len(y) = 2 /\ Len(z) = 3
  OBVIOUS
<1>3. z[1] = x[1] /\ z[2] = y[1] /\ z[3] = y[2]
  OBVIOUS
<1> HIDE DEF x, y, z
<1>4. /\ u \in Seq(S) /\ Len(u) = Len(x) + Len(y)
      /\ \A n \in 1 .. Len(x) : u[n] = x[n]
      /\ \A n \in 1 .. Len(y) : u[Len(x) + n] = y[n]
  BY <1>1
<1> HIDE DEF u
<1>5. Len(u) = 3
  BY <1>2, <1>4
<1>6. u[1] = x[1] /\ u[1 + 1] = y[1] /\ u[1 + 2] = y[2]
  BY <1>2, <1>4
<1>7. u = z
  BY <1>1, <1>2, <1>3, <1>4, <1>5, <1>6
<1> QED
  BY <1>7 DEF u, x, y, z

LEMMA AfterIs ==
  ASSUME proto \in {"anthropic", "openai"}, UpTypeOK, NEW e, EventFits(e),
         NEW l, l = DataLine(e.type, e.idx, e.text), NEW v, v = After(up, e)
  PROVE  GoesOn(e, l, v)
<1>1. l.type = e.type /\ l.idx = e.idx /\ l \in Lines /\ l \in DataLines
  <2>1. /\ e.type \in Types /\ e.idx \in Int /\ e.text \in Payloads
        /\ DataLine(e.type, e.idx, e.text) \in DataLines
    BY DEF EventFits
  <2>2. Reads(l, "data", e.type, e.idx, e.text)
    BY <2>1, DataLineReads
  <2> QED
    BY <2>1, <2>2 DEF Reads
<1>2. Blank \in Lines /\ EventLine(l.type) \in Lines
  BY <1>1, BlankIs, EventLineIs DEF QuietLines, GoodLines, EventFits
<1> DEFINE x == IF proto = "anthropic" THEN <<EventLine(e.type)>> ELSE <<>>
           t == x \o <<DataLine(e.type, e.idx, e.text), Blank>>
           o == CASE e.type = "start" -> up.open \cup {e.idx}
                  [] e.type = "stop" -> up.open \ {e.idx}
                  [] OTHER -> up.open
           n == IF e.type = "start" THEN up.next + 1 ELSE up.next
           s == up.reason \/ e.type \in {"mdelta", "finish"}
           m == e.type \in {"mstop", "error", "done"}
<1>3. v = [todo |-> t, units |-> up.units + 1, open |-> o, next |-> n,
           reason |-> s, over |-> m]
  BY DEF After
<1>4. t = IF proto = "anthropic" THEN <<EventLine(l.type), l, Blank>> ELSE <<l, Blank>>
  <2>1. \A a, b, c \in Lines : <<a>> \o <<b, c>> = <<a, b, c>>
    BY OneAndTwo
  <2>4. \A y \in Seq(Lines) : <<>> \o y = y
    OBVIOUS
  <2>5. <<l, Blank>> \in Seq(Lines)
    BY <1>1, <1>2
  <2>2. t = x \o <<l, Blank>>
    OBVIOUS
  <2>3. x = IF proto = "anthropic" THEN <<EventLine(l.type)>> ELSE <<>>
    BY <1>1
  <2> HIDE DEF x, t
  <2>6. CASE proto = "anthropic"
    BY <1>1, <1>2, <2>1, <2>2, <2>3, <2>6
  <2>7. CASE proto # "anthropic"
    BY <2>2, <2>3, <2>4, <2>5, <2>7
  <2> QED
    BY <2>6, <2>7
<1>5. t \in Seq(Lines)
  BY <1>1, <1>2, <1>4
<1>6. up.open \in SUBSET Blocks /\ up.units + 1 \in Nat /\ n \in Nat /\ s \in BOOLEAN
      /\ m \in BOOLEAN
  BY DEF UpTypeOK
<1>7. o \in SUBSET Blocks
  BY <1>6 DEF EventFits
<1>8. o = CASE l.type = "start" -> up.open \cup {l.idx}
            [] l.type = "stop" -> up.open \ {l.idx}
            [] OTHER -> up.open
  BY <1>1
<1> HIDE DEF t, o, n, x
<1>9. v \in [todo : Seq(Lines), units : Nat, open : SUBSET Blocks, next : Nat,
             reason : BOOLEAN, over : BOOLEAN]
  BY <1>3, <1>5, <1>6, <1>7
<1>10. v.todo = t /\ v.open = o /\ v.reason = s /\ v.over = m
  BY <1>3
<1> QED
  BY <1>1, <1>4, <1>8, <1>9, <1>10 DEF GoesOn

LEMMA StepSend ==
  ASSUME StreamInv, ended = "no", Send
  PROVE  StreamInv' /\ ClosedStep
<1>1. /\ proto \in {"anthropic", "openai"} /\ trim \in BOOLEAN /\ Running
  BY DEF StreamInv
<1>2. /\ up.todo = <<>> /\ ~up.over
      /\ proto' = proto /\ trim' = trim /\ g' = g /\ cl' = cl /\ ended' = ended
      /\ cut' = cut
  BY DEF Send
<1>3. PICK e \in IF proto = "anthropic" THEN AnthropicEvents(up) ELSE OpenAIEvents(up) :
        up' = After(up, e)
  BY DEF Send
<1>4. EventFits(e)
  BY <1>1, <1>3, EventsAre DEF Running
<1>5. PICK l : l = DataLine(e.type, e.idx, e.text)
  OBVIOUS
<1>6. PICK v : v = up'
  OBVIOUS
<1>7. /\ l \in DataLines /\ l.type = e.type /\ l.idx = e.idx
      /\ v \in [todo : Seq(Lines), units : Nat, open : SUBSET Blocks, next : Nat,
                reason : BOOLEAN, over : BOOLEAN]
      /\ v.todo = IF proto = "anthropic" THEN <<EventLine(l.type), l, Blank>>
                  ELSE <<l, Blank>>
      /\ v.open = CASE l.type = "start" -> up.open \cup {l.idx}
                    [] l.type = "stop" -> up.open \ {l.idx}
                    [] OTHER -> up.open
      /\ v.reason <=> up.reason \/ l.type \in {"mdelta", "finish"}
      /\ v.over <=> l.type \in {"mstop", "error", "done"}
  <2>1. UpTypeOK /\ v = After(up, e)
    BY <1>1, <1>3, <1>6 DEF Running, UpOK
  <2>2. GoesOn(e, l, v)
    BY <1>1, <1>4, <1>5, <2>1, AfterIs
  <2> QED
    BY <2>2 DEF GoesOn
<1>8. Ahead(l)'
  BY <1>2, <1>6, <1>7 DEF Ahead
<1>9. l \in DataLines'
  BY <1>2, <1>7, GuardKept
<1>10. UpOK'
  <2>1. UpTypeOK'
    BY <1>6, <1>7 DEF UpTypeOK
  <2>2. /\ proto = "anthropic" /\ up.reason => up.open = {}
        /\ proto = "openai" => up.open = {}
        /\ trim => \A a, b \in up.open : a = b
    BY <1>1 DEF Running, UpOK
  <2>3. proto = "anthropic" /\ v.reason => v.open = {}
    BY <1>4, <1>7, <2>2 DEF EventFits
  <2>4. proto = "openai" => v.open = {}
    BY <1>4, <1>7, <2>2 DEF EventFits
  <2>5. trim => \A a, b \in v.open : a = b
    BY <1>4, <1>7, <2>2 DEF EventFits
  <2> QED
    BY <1>2, <1>6, <1>8, <1>9, <2>1, <2>3, <2>4, <2>5 DEF UpOK
<1>11. Agreed'
  <2>1. CASE g.done
    BY <1>1, <1>2, <2>1 DEF Agreed, Running
  <2>2. CASE ~g.done
    <3>1. /\ cl.open = KnownOpen(g) /\ cl.ends = IF KnownEnd(g) THEN 1 ELSE 0
          /\ cl.failed => KnownError(g)
          /\ InStep
      BY <1>1, <2>2 DEF Running, Agreed
    <3>2. cl.open = up.open /\ cl.ends = 0 /\ ~cl.failed
      <4>1. NoneAhead
        BY <1>2 DEF NoneAhead
      <4> QED
        BY <1>1, <1>2, <3>1, <4>1, InStepNone
    <3>3. l.type = "mstop" => cl.open = {}
      BY <1>1, <1>4, <1>7, <3>2 DEF EventFits, Running, UpOK
    <3>4. trim /\ l.type = "delta" => cl.open \subseteq {l.idx}
      BY <1>1, <1>4, <1>7, <3>2 DEF EventFits, Running, UpOK
    <3>5. InStep'
      BY <1>2, <1>6, <1>7, <1>8, <1>9, <3>2, <3>3, <3>4 DEF InStep
    <3>6. KnownOpen(g)' = KnownOpen(g) /\ KnownEnd(g)' = KnownEnd(g)
          /\ KnownError(g)' = KnownError(g)
      BY <1>2 DEF KnownOpen, KnownEnd, KnownError
    <3> QED
      BY <1>2, <2>2, <3>1, <3>5, <3>6 DEF Agreed
  <2> QED
    BY <2>1, <2>2
<1>12. HalfOK'
  BY <1>1, <1>2 DEF Running, HalfOK
<1>13. Running'
  <2>1. GuardOK(g)'
    BY <1>1, <1>2, GuardKept DEF Running, GuardOK, AnthropicGuards, OpenAIGuards
  <2>2. ClientOK(cl)'
    BY <1>1, <1>2 DEF Running, ClientOK
  <2> QED
    BY <1>1, <1>2, <1>10, <1>11, <1>12, <2>1, <2>2 DEF Running
<1>14. StreamInv'
  BY <1>1, <1>2, <1>13 DEF StreamInv
<1>15. UNCHANGED Closed!vars
  BY <1>2 DEF Closed!vars, Finished
<1> QED
  BY <1>14, <1>15 DEF ClosedStep

(* Setting one field.                                                      *)
LEMMA BufferSet ==
  ASSUME NEW h, GuardOK(h), NEW v \in Seq(Lines), Len(v) <= 1,
         NEW n, n = [h EXCEPT !.buffer = v]
  PROVE  /\ GuardOK(n) /\ n.buffer = v /\ n.done = h.done
         /\ KnownOpen(n) = KnownOpen(h)
         /\ (KnownEnd(n) <=> KnownEnd(h)) /\ (KnownError(n) <=> KnownError(h))
<1>1. CASE proto = "anthropic"
  <2>1. h \in AnthropicGuards
    BY <1>1 DEF GuardOK
  <2>2. n \in AnthropicGuards
    BY <2>1, GuardsSet
  <2>3. /\ n.buffer = v /\ n.done = h.done /\ n.pend = h.pend /\ n.open = h.open
        /\ n.sawStop = h.sawStop /\ n.sawError = h.sawError
        /\ n.pendActive = h.pendActive /\ n.held = h.held
    BY <2>1 DEF AnthropicGuards
  <2> QED
    BY <1>1, <2>2, <2>3 DEF GuardOK, KnownOpen, KnownEnd, KnownError
<1>2. CASE proto # "anthropic"
  <2>1. h \in OpenAIGuards
    BY <1>2 DEF GuardOK
  <2>2. n \in OpenAIGuards
    BY <2>1, OpenAIGuardsSet
  <2>3. /\ n.buffer = v /\ n.done = h.done /\ n.pend = h.pend
        /\ n.sawDone = h.sawDone
    BY <2>1 DEF OpenAIGuards
  <2> QED
    BY <1>2, <2>2, <2>3 DEF GuardOK, KnownOpen, KnownEnd, KnownError
<1> QED
  BY <1>1, <1>2

LEMMA TodoSet ==
  ASSUME UpTypeOK, NEW v \in Seq(Lines), NEW u, u = [up EXCEPT !.todo = v]
  PROVE  /\ u \in [todo : Seq(Lines), units : Nat, open : SUBSET Blocks, next : Nat,
                   reason : BOOLEAN, over : BOOLEAN]
         /\ u.todo = v /\ u.open = up.open /\ u.reason = up.reason /\ u.over = up.over
BY DEF UpTypeOK

(* What is known of a guard with the same protocol.                        *)
LEMMA KnownKept ==
  ASSUME UNCHANGED proto
  PROVE  /\ KnownOpen(g)' = KnownOpen(g') /\ (KnownEnd(g)' <=> KnownEnd(g'))
         /\ (KnownError(g)' <=> KnownError(g'))
BY DEF KnownOpen, KnownEnd, KnownError

LEMMA StepReadHalf ==
  ASSUME StreamInv, ended = "no", ReadHalf
  PROVE  StreamInv' /\ ClosedStep
<1>1. /\ proto \in {"anthropic", "openai"} /\ trim \in BOOLEAN /\ Running
  BY DEF StreamInv
<1>2. /\ up.todo # <<>> /\ g.buffer = <<>> /\ ~(trim /\ g.done)
      /\ proto' = proto /\ trim' = trim /\ up' = up /\ ended' = ended /\ cut' = cut
  BY DEF ReadHalf
<1>3. PICK h \in Halves(Head(up.todo)) :
        /\ g' = [g EXCEPT !.buffer = <<h>>]
        /\ cl' = IF trim THEN cl ELSE [cl EXCEPT !.tail = <<h>>]
  BY DEF ReadHalf
<1>4. StreamLine(h)
  <2>1. StreamLine(Head(up.todo)) /\ Head(up.todo).whole
    BY <1>1, <1>2, TodoIs DEF Running
  <2> QED
    BY <2>1, HalvesAre
<1>5. PICK v : v = <<h>>
  OBVIOUS
<1>6. v \in Seq(Lines) /\ Len(v) <= 1
  BY <1>4, <1>5 DEF StreamLine, GoodLines
<1>15. v[1] = h /\ v # <<>>
  BY <1>5
<1>7. GuardOK(g) /\ ~g.done /\ g.done \in BOOLEAN
  BY <1>1, <1>2 DEF Running, GuardOK, AnthropicGuards, OpenAIGuards
<1>8. /\ GuardOK(g') /\ g'.buffer = v /\ g'.done = g.done
      /\ KnownOpen(g') = KnownOpen(g)
      /\ (KnownEnd(g') <=> KnownEnd(g)) /\ (KnownError(g') <=> KnownError(g))
  <2>1. PICK n : n = g'
    OBVIOUS
  <2>2. n = [g EXCEPT !.buffer = v]
    BY <1>3, <1>5, <2>1
  <2>3. /\ GuardOK(n) /\ n.buffer = v /\ n.done = g.done
        /\ KnownOpen(n) = KnownOpen(g)
        /\ (KnownEnd(n) <=> KnownEnd(g)) /\ (KnownError(n) <=> KnownError(g))
    BY <1>6, <1>7, <2>2, BufferSet
  <2> QED
    BY <2>1, <2>3
<1>9. ClientOK(cl') /\ Same(cl, cl') /\ cl'.tail = IF trim THEN cl.tail ELSE v
  <2>1. ClientOK(cl)
    BY <1>1 DEF Running
  <2>2. PICK d : d = cl'
    OBVIOUS
  <2>3. d = IF trim THEN cl ELSE [cl EXCEPT !.tail = v]
    BY <1>3, <1>5, <2>2
  <2>4. ClientOK(d) /\ Same(cl, d) /\ d.tail = IF trim THEN cl.tail ELSE v
    <3>1. CASE trim
      BY <2>1, <2>3, <3>1 DEF Same
    <3>2. CASE ~trim
      BY <1>6, <2>1, <2>3, <3>2, TailSet
    <3> QED
      BY <3>1, <3>2
  <2> QED
    BY <2>2, <2>4
<1>10. UpOK' /\ ClientOK(cl)' /\ GuardOK(g)'
  <2>1. UpOK'
    <3>1. UpOK
      BY <1>1 DEF Running
    <3>2. DataLines' = DataLines
      BY <1>2, GuardKept
    <3>3. UpTypeOK' /\ (NoneAhead' <=> NoneAhead) /\ \A l : Ahead(l)' <=> Ahead(l)
      BY <1>2, <3>1 DEF UpOK, UpTypeOK, Ahead, NoneAhead
    <3> QED
      BY <1>2, <3>1, <3>2, <3>3 DEF UpOK
  <2>2. ClientOK(cl)'
    BY <1>9 DEF ClientOK
  <2>3. GuardOK(g)'
    BY <1>2, <1>8 DEF GuardOK, AnthropicGuards, OpenAIGuards
  <2> QED
    BY <2>1, <2>2, <2>3
<1>11. Agreed'
  <2>1. /\ cl.open = KnownOpen(g) /\ cl.ends = IF KnownEnd(g) THEN 1 ELSE 0
        /\ cl.failed => KnownError(g)
        /\ InStep
    BY <1>1, <1>7 DEF Running, Agreed
  <2>2. InStep'
    <3>1. /\ cl'.open = cl.open /\ cl'.ends = cl.ends /\ cl'.failed = cl.failed
          /\ DataLines' = DataLines /\ up' = up /\ trim' = trim
      BY <1>2, <1>9, GuardKept DEF Same
    <3>2. (NoneAhead' <=> NoneAhead) /\ \A l : Ahead(l)' <=> Ahead(l)
      BY <1>2 DEF Ahead, NoneAhead
    <3> QED
      BY <2>1, <3>1, <3>2 DEF InStep
  <2>3. KnownOpen(g)' = KnownOpen(g') /\ KnownEnd(g)' = KnownEnd(g')
        /\ KnownError(g)' = KnownError(g')
    BY <1>2 DEF KnownOpen, KnownEnd, KnownError
  <2> QED
    BY <1>7, <1>8, <1>9, <2>1, <2>2, <2>3 DEF Agreed, Same
<1>12. HalfOK'
  <2>1. trim => cl.tail = <<>>
    BY <1>1 DEF Running, HalfOK
  <2> QED
    BY <1>2, <1>3, <1>7, <1>8, <1>9, <1>15, <2>1 DEF HalfOK
<1>13. StreamInv'
  BY <1>1, <1>2, <1>10, <1>11, <1>12 DEF StreamInv, Running
<1>14. UNCHANGED Closed!vars
  BY <1>2, <1>9 DEF Closed!vars, Finished, Same
<1> QED
  BY <1>13, <1>14 DEF ClosedStep

LEMMA StepFlood ==
  ASSUME StreamInv, ended = "no", Flood
  PROVE  StreamInv' /\ ClosedStep
<1>1. /\ proto \in {"anthropic", "openai"} /\ trim \in BOOLEAN /\ Running
  BY DEF StreamInv
<1>2. /\ g.buffer # <<>> /\ g.buffer[1].k = "data" /\ Head(up.todo).type \in Endless
      /\ proto' = proto /\ trim' = trim /\ cl' = cl /\ ended' = ended /\ cut' = cut
      /\ g' = IF proto = "anthropic" THEN AnthropicOverflow(g) ELSE OpenAIOverflow(g)
      /\ up' = IF trim THEN [up EXCEPT !.todo = <<Junk>> \o Tail(@)] ELSE up
  BY DEF Flood
<1>3. PICK t : t = Head(up.todo)
  OBVIOUS
<1>4. up.todo # <<>> /\ g.buffer[1] \in Halves(t) /\ ~g.done
  BY <1>1, <1>2, <1>3 DEF Running, HalfOK
<1>5. StreamLine(t) /\ t.whole = TRUE /\ t \in DataLines /\ Ahead(t)
      /\ Tail(up.todo) = <<Blank>>
  <2>1. /\ StreamLine(t) /\ t.whole = TRUE
        /\ \/ t \in DataLines /\ Ahead(t) /\ Tail(up.todo) = <<Blank>>
           \/ t.k = "event"
           \/ t = Blank
           \/ t = Junk
    BY <1>1, <1>3, <1>4, TodoIs DEF Running
  <2>2. t.k = "data" /\ t # Blank
    BY <1>2, <1>4, <2>1, HalvesAre
  <2> QED
    BY <2>1, <2>2, BlankIs
<1>6. trim => up'.todo = <<Junk, Blank>>
  <2>1. UpTypeOK
    BY <1>1 DEF Running, UpOK
  <2>2. <<Junk>> \o <<Blank>> = <<Junk, Blank>>
    <3>1. Junk \in Lines /\ Blank \in Lines
      BY BlankIs DEF QuietLines, GoodLines
    <3> QED
      BY <3>1, OneAndOne
  <2> QED
    BY <1>2, <1>5, <2>1, <2>2 DEF UpTypeOK
<1>7. UpTypeOK' /\ up'.open = up.open /\ up'.reason = up.reason /\ up'.over = up.over
  <2> DEFINE v == <<Junk, Blank>>
  <2>1. v \in Seq(Lines)
    BY BlankIs DEF QuietLines, GoodLines
  <2>2. UpTypeOK
    BY <1>1 DEF Running, UpOK
  <2>3. trim => up' = [up EXCEPT !.todo = v]
    BY <1>2, <1>6, <2>2 DEF UpTypeOK
  <2> HIDE DEF v
  <2> QED
    BY <1>2, <2>1, <2>2, <2>3, TodoSet DEF UpTypeOK
<1>8. /\ trim => NoneAhead'
      /\ ~trim => (NoneAhead' <=> NoneAhead) /\ \A l : Ahead(l)' <=> Ahead(l)
  BY <1>2, <1>6 DEF NoneAhead, Ahead
<1>16. DataLines' = DataLines
  BY <1>2, GuardKept
<1>9. UpOK'
  BY <1>1, <1>2, <1>7, <1>8, <1>16 DEF Running, UpOK
<1>10. /\ GuardOK(g') /\ g'.buffer = <<>> /\ g'.done = g.done
       /\ KnownOpen(g') = KnownOpen(g)
       /\ (KnownEnd(g') <=> KnownEnd(g)) /\ (KnownError(g) => KnownError(g'))
  <2>1. GuardOK(g)
    BY <1>1 DEF Running
  <2>2. CASE proto = "anthropic"
    <3>1. g \in AnthropicGuards
      BY <2>1, <2>2 DEF GuardOK
    <3>2. g' = [g EXCEPT !.buffer = <<>>, !.sawError = TRUE]
      BY <1>2, <2>2 DEF AnthropicOverflow
    <3>3. /\ g'.buffer = <<>> /\ g'.done = g.done /\ g'.pend = g.pend /\ g'.open = g.open
          /\ g'.sawStop = g.sawStop /\ g'.sawError = TRUE
          /\ g'.pendActive = g.pendActive /\ g'.held = g.held
      BY <3>1, <3>2 DEF AnthropicGuards
    <3>4. g' \in AnthropicGuards
      <4>1. \A v \in Seq(Lines) :
              [g EXCEPT !.buffer = v, !.sawError = TRUE] \in AnthropicGuards
        BY <3>1 DEF AnthropicGuards
      <4> QED
        BY <3>2, <4>1, NoneOfAny
    <3> QED
      BY <2>1, <2>2, <3>3, <3>4 DEF GuardOK, KnownOpen, KnownEnd, KnownError
  <2>3. CASE proto = "openai"
    <3>1. PICK v : v = <<>>
      OBVIOUS
    <3>2. v \in Seq(Lines) /\ Len(v) <= 1
      BY <3>1
    <3>3. g' = [g EXCEPT !.buffer = v]
      BY <1>2, <2>3, <3>1 DEF OpenAIOverflow
    <3>4. PICK n : n = g'
      OBVIOUS
    <3>5. /\ GuardOK(n) /\ n.buffer = v /\ n.done = g.done
          /\ KnownOpen(n) = KnownOpen(g)
          /\ (KnownEnd(n) <=> KnownEnd(g)) /\ (KnownError(n) <=> KnownError(g))
      BY <2>1, <3>2, <3>3, <3>4, BufferSet
    <3> QED
      BY <3>1, <3>4, <3>5
  <2> QED
    BY <1>1, <2>2, <2>3
<1>11. GuardOK(g)' /\ ClientOK(cl)'
  BY <1>1, <1>2, <1>10 DEF Running, ClientOK, GuardOK, AnthropicGuards, OpenAIGuards
<1>12. Agreed'
  <2>1. /\ cl.open = KnownOpen(g) /\ cl.ends = IF KnownEnd(g) THEN 1 ELSE 0
        /\ cl.failed => KnownError(g)
        /\ InStep
    BY <1>1, <1>4 DEF Running, Agreed
  <2>2. cl.ends = 0 /\ ~cl.failed /\ up.open = cl.open
    <3>1. t.type \notin {"start", "stop"}
      BY <1>2, <1>3 DEF Endless
    <3> QED
      BY <1>1, <1>5, <2>1, <3>1, InStepAhead
  <2>3. InStep'
    <3>1. CASE trim
      BY <1>2, <1>7, <1>8, <2>2, <3>1 DEF InStep
    <3>2. CASE ~trim
      BY <1>2, <1>7, <1>8, <1>16, <2>1, <3>2 DEF InStep
    <3> QED
      BY <3>1, <3>2
  <2> QED
    BY <1>2, <1>4, <1>10, <2>1, <2>3, KnownKept DEF Agreed
<1>13. HalfOK'
  <2>1. trim => cl.tail = <<>>
    BY <1>1 DEF Running, HalfOK
  <2>2. ASSUME cl.tail # <<>>
        PROVE  LineOK(cl.tail[1]) /\ ~Ending(cl.tail[1]) /\ ~cl.failed
    <3>1. cl.tail = g.buffer
      BY <1>1, <1>2, <2>2 DEF Running, HalfOK
    <3>2. StreamLine(g.buffer[1]) /\ g.buffer[1].type \in {t.type, "cut"}
      BY <1>4, <1>5, HalvesAre
    <3>3. cl.failed => FALSE
      BY <1>1, <1>2, UnderWay
    <3> QED
      BY <1>2, <1>3, <3>1, <3>2, <3>3 DEF StreamLine, GoodLines, Endless, Ending
  <2>3. LineOK(cl.tail[1])' <=> LineOK(cl.tail[1])
    BY <1>2 DEF LineOK
  <2> QED
    BY <1>2, <1>10, <2>1, <2>2, <2>3 DEF HalfOK, Ending, Quiet, Mute
<1>14. StreamInv'
  BY <1>1, <1>2, <1>9, <1>11, <1>12, <1>13 DEF StreamInv, Running
<1>15. UNCHANGED Closed!vars
  BY <1>2 DEF Closed!vars, Finished
<1> QED
  BY <1>14, <1>15 DEF ClosedStep

(* What a guard makes of a complete line.                                  *)
LEMMA GuardedTells ==
  ASSUME proto \in {"anthropic", "openai"}, trim \in BOOLEAN, GuardOK(g),
         NEW l, StreamLine(l), NEW r, r = Guarded(l)
  PROVE  \/ g.done /\ trim /\ r.g = g /\ r.out = <<>>
         \/ ~g.done /\ Meets(l, r)
         \/ /\ ~g.done /\ GuardOK(r.g) /\ ~r.g.done
            /\ Follows(g, l, r.g) /\ PassOn(l, r.out)
<1>1. CASE ~trim
  <2>1. PICK n : n = Noted(g, l)
    OBVIOUS
  <2>2. r = Result(n, <<l>>)
    BY <1>1, <2>1 DEF Guarded, AnthropicWrite, OpenAIWrite, Noted
  <2>3. r.g = n /\ r.out = <<l>>
    BY <2>2, ResultIs
  <2>4. GuardOK(n) /\ n.done = g.done /\ Follows(g, l, n)
    BY <2>1, NotedTells
  <2>5. ~g.done
    BY <1>1 DEF GuardOK
  <2>6. PassOn(l, r.out)
    <3>1. l \in GoodLines
      BY DEF StreamLine
    <3>2. <<>> \o <<l>> = <<l>> /\ <<>> \in Seq(QuietLines)
      OBVIOUS
    <3> QED
      BY <2>3, <3>1, <3>2 DEF PassOn, Alike
  <2> QED
    BY <2>3, <2>4, <2>5, <2>6
<1>2. CASE trim /\ g.done
  <2>1. r = Result(g, <<>>)
    BY <1>2 DEF Guarded, AnthropicWrite, OpenAIWrite
  <2> QED
    BY <1>2, <2>1, ResultIs
<1>3. CASE trim /\ ~g.done
  <2>1. r = Trimmed(g, l)
    BY <1>3 DEF Guarded, AnthropicWrite, OpenAIWrite, Trimmed
  <2> QED
    BY <1>3, <2>1, TrimmedTells
<1> QED
  BY <1>1, <1>2, <1>3

(* The upstream when a line of its is read.                                *)
LEMMA TodoRead ==
  ASSUME proto \in {"anthropic", "openai"}, UpOK, up.todo # <<>>,
         up' = [up EXCEPT !.todo = Tail(@)], UNCHANGED <<proto, trim>>,
         NEW l, l = Head(up.todo)
  PROVE  /\ UpOK' /\ up'.open = up.open /\ up'.over = up.over
         /\ StreamLine(l) /\ l.whole = TRUE
         /\ \/ l \in DataLines /\ Ahead(l) /\ NoneAhead'
            \/ l.k # "data" /\ \E m \in DataLines : Ahead(m) /\ Ahead(m)'
            \/ l.k # "data" /\ NoneAhead /\ NoneAhead'
<1> DEFINE t == Tail(up.todo)
<1>1. /\ StreamLine(l) /\ l.whole = TRUE
      /\ \/ l \in DataLines /\ Ahead(l) /\ t = <<Blank>>
         \/ /\ l.k = "event" /\ proto = "anthropic"
            /\ \E m \in DataLines : Ahead(m) /\ t = <<m, Blank>>
         \/ l = Blank /\ NoneAhead /\ t = <<>>
         \/ l = Junk /\ NoneAhead /\ t = <<Blank>>
  BY TodoIs
<1>2. t \in Seq(Lines)
  BY DEF UpOK, UpTypeOK
<1>3. UpTypeOK' /\ up'.todo = t /\ up'.open = up.open /\ up'.reason = up.reason
      /\ up'.over = up.over
  <2>1. UpTypeOK /\ up' = [up EXCEPT !.todo = t]
    BY DEF UpOK
  <2> HIDE DEF t
  <2> QED
    BY <1>2, <2>1, TodoSet DEF UpTypeOK
<1> HIDE DEF t
<1>4. DataLines' = DataLines
  BY GuardKept
<1>5. \A m : t = <<m, Blank>> => Ahead(m)'
  BY <1>3 DEF Ahead
<1>6. t \in {<<>>, <<Blank>>} => NoneAhead'
  BY <1>3 DEF NoneAhead
<1>7. NoneAhead' \/ \E m \in DataLines' : Ahead(m)'
  BY <1>1, <1>4, <1>5, <1>6
<1>8. UpOK'
  BY <1>3, <1>7 DEF UpOK
<1> QED
  BY <1>1, <1>3, <1>5, <1>6, <1>8, BlankIs

(* A line that is read, as far as all its cases agree.                     *)
LineRead(l, r, c) ==
  /\ proto \in {"anthropic", "openai"} /\ trim \in BOOLEAN /\ Running /\ ended = "no"
  /\ proto' = proto /\ trim' = trim /\ ended' = "no" /\ cut' = cut
  /\ StreamLine(l) /\ l.whole = TRUE
  /\ UpOK' /\ up'.open = up.open /\ up'.over = up.over
  /\ \/ l \in DataLines /\ Ahead(l) /\ NoneAhead'
     \/ l.k # "data" /\ \E m \in DataLines : Ahead(m) /\ Ahead(m)'
     \/ l.k # "data" /\ NoneAhead /\ NoneAhead'
  /\ Sane(c) /\ c.tail = <<>> /\ Same(cl, c)
  /\ g' = Unfinished(r.g) /\ cl' = ReceiveAll(c, r.out)

LEMMA ReadLineIs ==
  ASSUME StreamInv, ended = "no", ReadLine
  PROVE  \E l, r, c : /\ LineRead(l, r, c)
                      /\ \/ g.done /\ trim /\ r.g = g /\ r.out = <<>>
                         \/ ~g.done /\ Meets(l, r)
                         \/ /\ ~g.done /\ GuardOK(r.g) /\ ~r.g.done
                            /\ Follows(g, l, r.g) /\ PassOn(l, r.out)
<1>1. /\ proto \in {"anthropic", "openai"} /\ trim \in BOOLEAN /\ Running
      /\ GuardOK(g) /\ ClientOK(cl) /\ UpOK
  BY DEF StreamInv, Running
<1>2. /\ up.todo # <<>> /\ up' = [up EXCEPT !.todo = Tail(@)]
      /\ proto' = proto /\ trim' = trim /\ ended' = "no" /\ cut' = cut
  BY DEF ReadLine
<1>3. PICK l : l = Head(up.todo)
  OBVIOUS
<1>4. PICK r : r = Guarded(l)
  OBVIOUS
<1>5. PICK c : c = [cl EXCEPT !.tail = <<>>]
  OBVIOUS
<1>6. g' = Unfinished(r.g) /\ cl' = ReceiveAll(c, r.out)
  BY <1>3, <1>4, <1>5 DEF ReadLine, Unbuffered, Unfinished
<1>7. /\ UpOK' /\ up'.open = up.open /\ up'.over = up.over
      /\ StreamLine(l) /\ l.whole = TRUE
      /\ \/ l \in DataLines /\ Ahead(l) /\ NoneAhead'
         \/ l.k # "data" /\ \E m \in DataLines : Ahead(m) /\ Ahead(m)'
         \/ l.k # "data" /\ NoneAhead /\ NoneAhead'
  BY <1>1, <1>2, <1>3, TodoRead
<1>8. Sane(c) /\ c.tail = <<>> /\ Same(cl, c)
  <2>1. PICK v : v = <<>>
    OBVIOUS
  <2>2. v \in Seq(Lines) /\ Len(v) <= 1
    BY <2>1
  <2>3. ClientOK(c) /\ c.tail = v /\ Same(cl, c)
    BY <1>1, <1>5, <2>1, <2>2, TailSet
  <2> QED
    BY <2>1, <2>3 DEF Sane
<1>9. LineRead(l, r, c)
  BY <1>1, <1>2, <1>6, <1>7, <1>8 DEF LineRead
<1>10. \/ g.done /\ trim /\ r.g = g /\ r.out = <<>>
       \/ ~g.done /\ Meets(l, r)
       \/ /\ ~g.done /\ GuardOK(r.g) /\ ~r.g.done
          /\ Follows(g, l, r.g) /\ PassOn(l, r.out)
  BY <1>1, <1>4, <1>7, GuardedTells
<1> QED
  BY <1>9, <1>10

(* What is left to show of it.                                             *)
LEMMA ReadInv ==
  ASSUME NEW l, NEW r, NEW c, LineRead(l, r, c), GuardOK(r.g), Sane(cl'), cl'.tail = <<>>,
         IF r.g.done THEN cl'.open = {} /\ cl'.ends = 1
         ELSE /\ cl'.open = KnownOpen(r.g)
              /\ cl'.ends = IF KnownEnd(r.g) THEN 1 ELSE 0
              /\ cl'.failed => KnownError(r.g)
              /\ InStep'
  PROVE  StreamInv'
<1>1. /\ proto' = proto /\ trim' = trim /\ ended' = "no" /\ cut' = cut /\ Running
      /\ UpOK' /\ g' = Unfinished(r.g)
      /\ proto \in {"anthropic", "openai"} /\ trim \in BOOLEAN
  BY DEF LineRead
<1>2. /\ GuardOK(g') /\ g'.buffer = <<>> /\ g'.done = r.g.done
      /\ KnownOpen(g') = KnownOpen(r.g)
      /\ (KnownEnd(g') <=> KnownEnd(r.g)) /\ (KnownError(g') <=> KnownError(r.g))
  BY <1>1, UnfinishedIs
<1>3. GuardOK(g)' /\ ClientOK(cl)'
  BY <1>1, <1>2 DEF Sane, ClientOK, GuardOK, AnthropicGuards, OpenAIGuards
<1>4. Agreed'
  BY <1>1, <1>2, KnownKept DEF Agreed
<1>5. HalfOK'
  BY <1>2 DEF HalfOK
<1> QED
  BY <1>1, <1>3, <1>4, <1>5 DEF StreamInv, Running

(* The guard had met a stop word before.                                   *)
LEMMA ReadNothing ==
  ASSUME NEW l, NEW r, NEW c, LineRead(l, r, c),
         g.done, trim, r.g = g, r.out = <<>>
  PROVE  StreamInv' /\ ClosedStep
<1>1. cl' = c /\ Sane(c) /\ c.tail = <<>> /\ Same(cl, c)
  BY ReceiveNone DEF LineRead
<1>2. cl.open = {} /\ cl.ends = 1 /\ GuardOK(g)
  BY DEF LineRead, Running, Agreed
<1>3. StreamInv'
  BY <1>1, <1>2, ReadInv DEF Same
<1>4. UNCHANGED Closed!vars
  BY <1>1 DEF Closed!vars, Finished, Same, LineRead
<1> QED
  BY <1>3, <1>4 DEF ClosedStep

(* It meets one now.                                                       *)
LEMMA ReadStopWord ==
  ASSUME NEW l, NEW r, NEW c, LineRead(l, r, c), ~g.done, Meets(l, r)
  PROVE  StreamInv' /\ ClosedStep
<1>1. /\ l.k = "data" /\ l.type \in {"delta", "chunk", "finish"} /\ l.idx \in Blocks
      /\ GuardOK(r.g) /\ r.g.done
      /\ Sane(cl') /\ cl'.tail = <<>>
      /\ cl'.open = c.open \ (IF proto = "anthropic" THEN {l.idx} ELSE {})
      /\ cl'.ends = c.ends + 1 /\ cl'.failed = c.failed
      /\ cl'.reason \in {"stop_sequence", "upstream"}
  BY DEF LineRead, Meets
<1>2. Same(cl, c) /\ proto \in {"anthropic", "openai"} /\ l \in DataLines /\ Ahead(l)
  BY <1>1 DEF LineRead
<1>3. InStep /\ cl.open = KnownOpen(g)
  BY DEF LineRead, Running, Agreed
<1>4. /\ cl.ends = 0 /\ ~cl.failed
      /\ trim /\ l.type = "delta" => cl.open \subseteq {l.idx}
  BY <1>2, <1>3, InStepAhead
<1>5. trim
  <2>1. trim \in BOOLEAN
    BY DEF LineRead
  <2> QED
    BY <1>1, <2>1 DEF GuardOK
<1>6. cl.open \subseteq {l.idx} /\ cl'.open = {}
  <2>1. CASE proto = "anthropic"
    <3>1. l.type = "delta"
      BY <1>1, <1>2, <2>1, DataLinesAre DEF DataTypes
    <3> QED
      BY <1>1, <1>2, <1>4, <1>5, <2>1, <3>1 DEF Same
  <2>2. CASE proto # "anthropic"
    BY <1>1, <1>2, <1>3, <2>2 DEF Same, KnownOpen
  <2> QED
    BY <2>1, <2>2
<1>7. cl'.ends = 1 /\ cl'.failed = cl.failed
  BY <1>1, <1>2, <1>4 DEF Same
<1>8. StreamInv'
  BY <1>1, <1>6, <1>7, ReadInv
<1>9. Closed!StopAtWord(l.idx)
  <2>1. ended = "no" /\ ended' = "no"
    BY DEF LineRead
  <2> QED
    BY <1>1, <1>4, <1>6, <1>7, <2>1 DEF Closed!StopAtWord, Closed!Running
<1> QED
  BY <1>1, <1>8, <1>9 DEF ClosedStep, Closed!Next

(* The line is passed on, and says nothing that matters here.              *)
LEMMA ReadQuiet ==
  ASSUME NEW l, NEW r, NEW c, LineRead(l, r, c), ~g.done, GuardOK(r.g), ~r.g.done,
         Follows(g, l, r.g), PassOn(l, r.out), Quiet(l)
  PROVE  StreamInv' /\ ClosedStep
<1>1. Told(c, l, cl') /\ Sane(cl') /\ cl'.tail = <<>> /\ Same(cl, c) /\ ClientOK(c)
  <2>1. Sane(c) /\ c.tail = <<>> /\ cl' = ReceiveAll(c, r.out) /\ Same(cl, c)
    BY DEF LineRead
  <2> QED
    BY <2>1, PassOnTells DEF Sane
<1>2. Same(cl, cl')
  <2>1. Same(c, cl')
    BY <1>1, QuietTells
  <2> QED
    BY <1>1, <2>1 DEF Same
<1>3. /\ cl.open = KnownOpen(g) /\ cl.ends = IF KnownEnd(g) THEN 1 ELSE 0
      /\ cl.failed => KnownError(g)
      /\ InStep /\ proto \in {"anthropic", "openai"}
  BY DEF LineRead, Running, Agreed
<1>4. /\ KnownOpen(r.g) = KnownOpen(g) /\ (KnownEnd(r.g) <=> KnownEnd(g))
      /\ (KnownError(r.g) <=> KnownError(g))
  BY DEF Follows, LineRead, Ending, OpenAfter
<1>5. InStep'
  <2>1. UNCHANGED <<proto, trim>> /\ up'.open = up.open /\ up'.over = up.over
    BY DEF LineRead
  <2>2. CASE l \in DataLines /\ Ahead(l) /\ NoneAhead'
    <3>1. /\ cl.ends = 0 /\ ~cl.failed
          /\ up.open = CASE l.type = "start" -> cl.open \cup {l.idx}
                         [] l.type = "stop" -> cl.open \ {l.idx}
                         [] OTHER -> cl.open
      BY <1>3, <2>2, InStepAhead
    <3>2. l.type \notin {"start", "stop"}
      BY <1>3, <2>2, DataLinesAre DEF Quiet
    <3>3. cl'.open = up'.open /\ cl'.ends = 0 /\ ~cl'.failed
      BY <1>2, <2>1, <3>1, <3>2 DEF Same
    <3> QED
      BY <2>2, <3>3 DEF InStep
  <2>3. CASE \E m \in DataLines : Ahead(m) /\ Ahead(m)'
    <3>1. PICK m \in DataLines : Ahead(m) /\ Ahead(m)'
      BY <2>3
    <3>2. /\ cl.ends = 0 /\ ~cl.failed
          /\ up.open = CASE m.type = "start" -> cl.open \cup {m.idx}
                         [] m.type = "stop" -> cl.open \ {m.idx}
                         [] OTHER -> cl.open
          /\ m.type \in {"mstop", "error", "done"} => up.over
          /\ m.type = "mstop" => cl.open = {}
          /\ trim /\ m.type = "delta" => cl.open \subseteq {m.idx}
      BY <1>3, <3>1, InStepAhead
    <3>3. m \in DataLines'
      BY <2>1, GuardKept
    <3> QED
      BY <1>2, <2>1, <3>1, <3>2, <3>3 DEF InStep, Same
  <2>4. CASE NoneAhead /\ NoneAhead'
    <3>1. cl.open = up.open /\ (cl.ends = 1 \/ cl.failed => up.over)
      BY <1>3, <2>4, InStepNone
    <3> QED
      BY <1>2, <2>1, <2>4, <3>1 DEF InStep, Same
  <2> QED
    BY <2>2, <2>3, <2>4 DEF LineRead
<1>6. StreamInv'
  BY <1>1, <1>2, <1>3, <1>4, <1>5, ReadInv DEF Same
<1>7. UNCHANGED Closed!vars
  BY <1>2 DEF Closed!vars, Finished, Same, LineRead
<1> QED
  BY <1>6, <1>7 DEF ClosedStep

(* The line is passed on, and it counts.                                   *)
LEMMA ReadTelling ==
  ASSUME NEW l, NEW r, NEW c, LineRead(l, r, c), ~g.done, GuardOK(r.g), ~r.g.done,
         Follows(g, l, r.g), PassOn(l, r.out), ~Quiet(l)
  PROVE  StreamInv' /\ ClosedStep
<1>1. Told(c, l, cl') /\ Sane(cl') /\ cl'.tail = <<>> /\ Same(cl, c)
  <2>1. Sane(c) /\ c.tail = <<>> /\ cl' = ReceiveAll(c, r.out) /\ Same(cl, c)
    BY DEF LineRead
  <2> QED
    BY <2>1, PassOnTells
<1>2. /\ proto \in {"anthropic", "openai"} /\ ended = "no" /\ ended' = "no"
      /\ l \in DataLines /\ Ahead(l) /\ NoneAhead'
      /\ up'.open = up.open /\ up'.over = up.over
  BY DEF LineRead, Quiet
<1>3. /\ cl.open = KnownOpen(g) /\ cl.ends = IF KnownEnd(g) THEN 1 ELSE 0
      /\ cl.failed => KnownError(g)
      /\ InStep /\ cl.open \subseteq Blocks
  BY DEF LineRead, Running, Agreed, ClientOK
<1>4. /\ cl.ends = 0 /\ ~cl.failed
      /\ up.open = CASE l.type = "start" -> cl.open \cup {l.idx}
                     [] l.type = "stop" -> cl.open \ {l.idx}
                     [] OTHER -> cl.open
      /\ l.type \in {"mstop", "error", "done"} => up.over
      /\ l.type = "mstop" => cl.open = {}
  BY <1>2, <1>3, InStepAhead
<1>5. /\ l.type \in {"start", "stop", "mdelta", "mstop", "error", "finish", "done"}
      /\ l.type \in {"start", "stop"} => l.idx \in Blocks
      /\ l.type = "mdelta" => l.text[1] = "upstream"
      /\ l.type = "done" => proto = "openai"
      /\ l.whole /\ l.k = "data"
  <2>1. /\ StreamLine(l) /\ l.k = "data" /\ l.whole = TRUE /\ l.type \in DataTypes
        /\ l.type = "mdelta" => l.text = <<"upstream">>
    BY <1>2, DataLinesAre
  <2>2. l.type \in {"start", "stop"} => l.idx \in Blocks
    BY <2>1 DEF StreamLine
  <2>3. l.type \notin {"delta", "chunk", "noise", "cut"}
    BY <2>1 DEF Quiet
  <2>4. /\ l.type \in {"start", "stop", "mdelta", "mstop", "error", "finish", "done"}
        /\ l.type = "done" => proto = "openai"
    BY <1>2, <2>1, <2>3 DEF DataTypes
  <2>5. l.text = <<"upstream">> => l.text[1] = "upstream"
    OBVIOUS
  <2> QED
    BY <2>1, <2>2, <2>4, <2>5
<1>6. /\ cl'.open = CASE l.type = "start" -> cl.open \cup {l.idx}
                      [] l.type = "stop" -> cl.open \ {l.idx}
                      [] OTHER -> cl.open
      /\ cl'.ends = IF l.type \in {"mstop", "done"} THEN 1 ELSE 0
      /\ cl'.failed <=> l.type = "error"
      /\ cl'.failed \in BOOLEAN
      /\ cl'.reason = IF l.type \in {"mdelta", "finish"} THEN "upstream" ELSE cl.reason
  <2>1. cl'.failed \in BOOLEAN
    BY <1>1 DEF Sane, ClientOK
  <2>2. /\ cl'.open = ToldOpen(c, l) /\ cl'.ends = ToldEnds(c, l)
        /\ cl'.failed = ToldFailed(c, l) /\ cl'.reason = ToldReason(c, l)
        /\ c.open = cl.open /\ c.ends = 0 /\ ~c.failed /\ c.reason = cl.reason
    BY <1>1, <1>4 DEF Told, Same
  <2>3. ToldOpen(c, l) = CASE l.type = "start" -> cl.open \cup {l.idx}
                           [] l.type = "stop" -> cl.open \ {l.idx}
                           [] OTHER -> cl.open
    BY <2>2 DEF ToldOpen
  <2>4. ToldEnds(c, l) = IF l.type \in {"mstop", "done"} THEN 1 ELSE 0
    BY <2>2 DEF ToldEnds
  <2>5. ToldFailed(c, l) <=> l.type = "error"
    BY <2>2 DEF ToldFailed
  <2>6. ToldReason(c, l) = IF l.type \in {"mdelta", "finish"} THEN "upstream" ELSE cl.reason
    <3>1. CASE l.type = "mdelta"
      BY <1>5, <3>1 DEF ToldReason
    <3>2. CASE l.type = "finish"
      BY <3>2 DEF ToldReason
    <3>3. CASE l.type \notin {"mdelta", "finish"}
      BY <2>2, <3>3 DEF ToldReason
    <3> QED
      BY <3>1, <3>2, <3>3
  <2> QED
    BY <2>1, <2>2, <2>3, <2>4, <2>5, <2>6
<1>7. /\ KnownOpen(r.g) = OpenAfter(KnownOpen(g), l)
      /\ KnownEnd(r.g) <=> KnownEnd(g) \/ Ending(l)
      /\ KnownError(r.g) <=> KnownError(g) \/ l.type = "error"
  BY <1>5 DEF Follows
<1>8. StreamInv'
  <2>1. cl'.open = KnownOpen(r.g)
    BY <1>3, <1>6, <1>7 DEF OpenAfter
  <2>2. cl'.ends = IF KnownEnd(r.g) THEN 1 ELSE 0
    BY <1>3, <1>4, <1>6, <1>7 DEF Ending
  <2>3. cl'.failed => KnownError(r.g)
    BY <1>6, <1>7
  <2>4. InStep'
    <3>1. cl'.open = up'.open
      BY <1>2, <1>4, <1>6
    <3>2. cl'.ends = 1 \/ cl'.failed => up'.over
      BY <1>2, <1>4, <1>6
    <3> QED
      BY <1>2, <3>1, <3>2 DEF InStep
  <2> QED
    BY <1>1, <2>1, <2>2, <2>3, <2>4, ReadInv
<1>9. cl.failed = FALSE
  <2>1. cl.failed \in BOOLEAN
    BY DEF LineRead, Running, ClientOK
  <2> QED
    BY <1>4, <2>1
<1>10. Closed!Next
  <2>1. CASE l.type = "start"
    <3>1. Closed!OpenBlock(l.idx)
      BY <1>2, <1>4, <1>6, <1>9, <2>1 DEF Closed!OpenBlock, Closed!Running
    <3> QED
      BY <1>5, <2>1, <3>1 DEF Closed!Next
  <2>2. CASE l.type = "stop"
    <3>1. Closed!CloseBlock(l.idx)
      BY <1>2, <1>4, <1>6, <1>9, <2>2 DEF Closed!CloseBlock, Closed!Running
    <3> QED
      BY <1>5, <2>2, <3>1 DEF Closed!Next
  <2>3. CASE l.type = "error"
    <3>1. Closed!Fail
      BY <1>2, <1>4, <1>6, <2>3 DEF Closed!Fail, Closed!Running
    <3> QED
      BY <3>1 DEF Closed!Next
  <2>4. CASE l.type \in {"mdelta", "finish"}
    <3>1. Closed!TellReason
      BY <1>2, <1>4, <1>6, <1>9, <2>4 DEF Closed!TellReason, Closed!Running
    <3> QED
      BY <3>1 DEF Closed!Next
  <2>5. CASE l.type \in {"mstop", "done"}
    <3>1. cl.open = {}
      BY <1>3, <1>4, <1>5, <2>5 DEF KnownOpen
    <3>2. Closed!EndMessage
      BY <1>2, <1>4, <1>6, <1>9, <2>5, <3>1 DEF Closed!EndMessage, Closed!Running
    <3> QED
      BY <3>2 DEF Closed!Next
  <2> QED
    BY <1>5, <2>1, <2>2, <2>3, <2>4, <2>5
<1> QED
  BY <1>8, <1>10 DEF ClosedStep

LEMMA StepReadLine ==
  ASSUME StreamInv, ended = "no", ReadLine
  PROVE  StreamInv' /\ ClosedStep
<1>1. PICK l, r, c :
        /\ LineRead(l, r, c)
        /\ \/ g.done /\ trim /\ r.g = g /\ r.out = <<>>
           \/ ~g.done /\ Meets(l, r)
           \/ /\ ~g.done /\ GuardOK(r.g) /\ ~r.g.done
              /\ Follows(g, l, r.g) /\ PassOn(l, r.out)
  BY ReadLineIs
<1>2. CASE g.done /\ trim /\ r.g = g /\ r.out = <<>>
  BY <1>1, <1>2, ReadNothing
<1>3. CASE ~g.done /\ Meets(l, r)
  BY <1>1, <1>3, ReadStopWord
<1>4. CASE /\ ~g.done /\ GuardOK(r.g) /\ ~r.g.done
           /\ Follows(g, l, r.g) /\ PassOn(l, r.out)
  <2>1. CASE Quiet(l)
    BY <1>1, <1>4, <2>1, ReadQuiet
  <2>2. CASE ~Quiet(l)
    BY <1>1, <1>4, <2>2, ReadTelling
  <2> QED
    BY <2>1, <2>2
<1> QED
  BY <1>1, <1>2, <1>3, <1>4

-----------------------------------------------------------------------------
(* The stream as a whole.                                                  *)

LEMMA StreamInit ==
  ASSUME Init
  PROVE  StreamInv /\ Closed!Init
<1>1. /\ proto \in {"anthropic", "openai"} /\ trim \in BOOLEAN
      /\ up = Upstream /\ cl = Client(proto = "anthropic")
      /\ g = IF proto = "anthropic" THEN AnthropicInit ELSE OpenAIInit
      /\ ended = "no" /\ cut = "border"
  BY StreamAssumption DEF Init
<1>2. <<>> \in Seq(Lines) /\ <<>> \in Seq(Chars) /\ <<>> \in Seq(QuietLines)
  OBVIOUS
<1>3. /\ up.todo = <<>> /\ up.open = {} /\ up.reason = FALSE /\ up.over = FALSE
      /\ UpTypeOK
  <2> DEFINE e == <<>>
  <2>1. up = [todo |-> e, units |-> 0, open |-> {}, next |-> 0, reason |-> FALSE,
              over |-> FALSE]
    BY <1>1 DEF Upstream
  <2>2. e \in Seq(Lines) /\ e = <<>>
    BY <1>2
  <2> HIDE DEF e
  <2> QED
    BY <2>1, <2>2 DEF UpTypeOK
<1>4. /\ cl.tail = <<>> /\ cl.open = {} /\ cl.ends = 0 /\ cl.failed = FALSE
      /\ cl.reason = "none"
  BY <1>1 DEF Client
<1>5. ClientOK(cl)
  <2>1. cl = [f \in ClientFields |-> cl[f]]
    BY <1>1 DEF Client, ClientFields
  <2>2. cl.tail \in Seq(Lines) /\ Len(cl.tail) <= 1
    BY <1>4
  <2>3. cl.open \subseteq Blocks /\ cl.ends \in Nat
    BY <1>4
  <2>4. cl.failed \in BOOLEAN
    BY <1>4
  <2>5. cl.reason \in Reasons
    BY <1>4 DEF Reasons, Closed!Reasons
  <2> QED
    BY <2>1, <2>2, <2>3, <2>4, <2>5 DEF ClientOK
<1>6. /\ GuardOK(g) /\ ~g.done /\ g.buffer = <<>>
      /\ KnownOpen(g) = {} /\ ~KnownEnd(g) /\ ~KnownError(g)
  <2>1. CASE proto = "anthropic"
    <3>1. /\ g.open = {} /\ g.sawStop = FALSE /\ g.sawError = FALSE /\ g.buffer = <<>>
          /\ g.pend = <<>> /\ g.pendActive = FALSE /\ g.done = FALSE /\ g.held = <<>>
      BY <1>1, <2>1 DEF AnthropicInit
    <3>2. g \in AnthropicGuards
      <4> DEFINE e == <<>>
      <4>1. e \in Seq(Lines) /\ e \in Seq(Chars) /\ e \in Seq(QuietLines)
        BY <1>2
      <4>2. g = [open |-> {}, sawStop |-> FALSE, sawError |-> FALSE, buffer |-> e,
                 pend |-> e, textIdx |-> 0, pendActive |-> FALSE, done |-> FALSE,
                 held |-> e]
        BY <1>1, <2>1 DEF AnthropicInit
      <4> HIDE DEF e
      <4> QED
        BY <4>1, <4>2 DEF AnthropicGuards
    <3>3. Len(g.pend) = 0 /\ Len(g.buffer) = 0 /\ Holdback \in Nat
      BY <3>1, HoldbackIs
    <3> QED
      BY <2>1, <3>1, <3>2, <3>3 DEF GuardOK, KnownOpen, KnownEnd, KnownError
  <2>2. CASE proto = "openai"
    <3>1. g.sawDone = FALSE /\ g.buffer = <<>> /\ g.pend = <<>> /\ g.done = FALSE
      BY <1>1, <2>2 DEF OpenAIInit
    <3>2. g \in OpenAIGuards
      <4> DEFINE e == <<>>
      <4>1. e \in Seq(Lines) /\ e \in Seq(Chars)
        BY <1>2
      <4>2. g = [sawDone |-> FALSE, buffer |-> e, pend |-> e, done |-> FALSE]
        BY <1>1, <2>2 DEF OpenAIInit
      <4> HIDE DEF e
      <4> QED
        BY <4>1, <4>2 DEF OpenAIGuards
    <3>3. Len(g.pend) = 0 /\ Len(g.buffer) = 0 /\ Holdback \in Nat
      BY <3>1, HoldbackIs
    <3> QED
      BY <2>2, <3>1, <3>2, <3>3 DEF GuardOK, KnownOpen, KnownEnd, KnownError
  <2> QED
    BY <1>1, <2>1, <2>2
<1>7. NoneAhead
  BY <1>3 DEF NoneAhead
<1>8. UpOK
  BY <1>3, <1>7 DEF UpOK
<1>9. Agreed
  BY <1>3, <1>4, <1>6, <1>7 DEF Agreed, InStep
<1>10. HalfOK
  BY <1>4, <1>6 DEF HalfOK
<1>11. StreamInv
  BY <1>1, <1>5, <1>6, <1>8, <1>9, <1>10 DEF StreamInv, Running
<1>12. Closed!Init
  BY <1>1, <1>4 DEF Closed!Init
<1> QED
  BY <1>11, <1>12

LEMMA StreamStep ==
  ASSUME StreamInv, [Next]_vars
  PROVE  StreamInv' /\ ClosedStep
<1>1. CASE Send
  <2>1. ended = "no"
    BY <1>1 DEF Send
  <2> QED
    BY <1>1, <2>1, StepSend
<1>2. CASE ReadLine
  <2>1. ended = "no"
    BY <1>2 DEF ReadLine
  <2> QED
    BY <1>2, <2>1, StepReadLine
<1>3. CASE ReadHalf
  <2>1. ended = "no"
    BY <1>3 DEF ReadHalf
  <2> QED
    BY <1>3, <2>1, StepReadHalf
<1>4. CASE Flood
  <2>1. ended = "no"
    BY <1>4 DEF Flood
  <2> QED
    BY <1>4, <2>1, StepFlood
<1>5. CASE End
  <2>1. ended = "no"
    BY <1>5 DEF End
  <2> QED
    BY <1>5, <2>1, StepEnd
<1>6. CASE Disconnect
  <2>1. ended = "no"
    BY <1>6 DEF Disconnect
  <2> QED
    BY <1>6, <2>1, StepDisconnect
<1>7. CASE UNCHANGED vars
  <2>1. /\ proto' = proto /\ trim' = trim /\ up' = up /\ g' = g /\ cl' = cl
        /\ ended' = ended /\ cut' = cut
    BY <1>7 DEF vars
  <2>2. Over' <=> Over
    BY <2>1 DEF Over
  <2>3. Running' <=> Running
    BY <2>1, GuardKept DEF Running, GuardOK, AnthropicGuards, OpenAIGuards, UpOK, UpTypeOK,
       NoneAhead, Ahead, ClientOK, Agreed, InStep, KnownOpen, KnownEnd, KnownError,
       HalfOK, LineOK
  <2>4. StreamInv'
    BY <2>1, <2>2, <2>3 DEF StreamInv
  <2>5. UNCHANGED Closed!vars
    BY <2>1 DEF Closed!vars, Finished
  <2> QED
    BY <2>4, <2>5 DEF ClosedStep
<1> QED
  BY <1>1, <1>2, <1>3, <1>4, <1>5, <1>6, <1>7 DEF Next

LEMMA StreamAlways == Spec => []StreamInv
<1>1. Init => StreamInv
  BY StreamInit
<1>2. StreamInv /\ [Next]_vars => StreamInv'
  BY StreamStep
<1> QED
  BY <1>1, <1>2, PTL DEF Spec

(* A guard holds back no more text than it may, at most one line is        *)
(* unfinished, the client is told at most once that the stream ends, and   *)
(* nothing is held back of a stream that is over.                          *)
THEOREM StreamTypeCorrect == Spec => []TypeOK
<1>1. StreamInv => TypeOK
  <2> SUFFICES ASSUME StreamInv PROVE TypeOK
    OBVIOUS
  <2>1. CASE ended = "no"
    <3>1. Running
      BY <2>1 DEF StreamInv
    <3> QED
      BY <2>1, <3>1 DEF Running, GuardOK, ClientOK, Agreed, StreamInv, TypeOK
  <2>2. CASE ended # "no"
    BY <2>2 DEF StreamInv, Over, TypeOK
  <2> QED
    BY <2>1, <2>2
<1> QED
  BY <1>1, StreamAlways, PTL

(* What the client reads, line by line, is a closed stream, for any stop   *)
(* words, texts, number of blocks and of events, wherever the upstream     *)
(* breaks off, but for half a line that the client has a part of and half  *)
(* a stop line that the guard takes for a whole one: every block that was  *)
(* opened is closed, the end comes exactly once, a stop word ends the one  *)
(* block that is open, and a failure the client was told of is never       *)
(* followed by a made-up reason (the guards of internal/sseguard/guard.go, *)
(* lines 1 to 10).                                                         *)
THEOREM StreamIsClosed == Spec => StreamClosed
<1>1. Init => Closed!Init
  BY StreamInit
<1>2. StreamInv /\ [Next]_vars => [Closed!Next]_(Closed!vars)
  BY StreamStep DEF ClosedStep
<1> QED
  BY <1>1, <1>2, StreamAlways, PTL DEF Spec, StreamClosed, Closed!Spec
=============================================================================
