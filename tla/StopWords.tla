----------------------------- MODULE StopWords -----------------------------
(***************************************************************************)
(* Stop words, as both trimming paths look for them: findStop and          *)
(* maxStopRunes of internal/sseguard/guard.go for streams, and             *)
(* internal/proxy/stoptrim.go for buffered bodies.  A text is a sequence   *)
(* of characters.  Bytes and runes are not told apart.                     *)
(***************************************************************************)
EXTENDS Naturals, Sequences, SequencesExt, FiniteSetsExt

CONSTANTS
  Chars,                 \* what texts are made of
  Stops                  \* the words of the request, none of them empty

ASSUME StopsAssumption ==
  /\ Stops \in Seq(Seq(Chars)) /\ Stops # <<>>
  /\ \A k \in DOMAIN Stops : Stops[k] # <<>>

\* No word lies inside another one, unless it ends where that one ends: while
\* a longer word is awaited, no shorter one can be complete behind its start.
WordsApart ==
  \A j, k \in DOMAIN Stops : \A i \in 1 .. Len(Stops[j]) - 1 :
    IsPrefix(Stops[k], SubSeq(Stops[j], i + 1, Len(Stops[j])))
      => i + Len(Stops[k]) = Len(Stops[j])

\* The positions of s, counted from 0, at which some word begins.
Hits(s) ==
  {i \in 0 .. Len(s) - 1 :
     \E k \in DOMAIN Stops : IsPrefix(Stops[k], SubSeq(s, i + 1, Len(s)))}

HasStop(s) == Hits(s) # {}

\* s up to the earliest word in it.
Clean(s) == IF HasStop(s) THEN SubSeq(s, 1, Min(Hits(s))) ELSE s

\* How many characters are held back: the longest word but one.
MaxStop == Max({Len(Stops[k]) : k \in DOMAIN Stops} \cup {1})

HoldbackShort == IF MaxStop = 1 THEN 0 ELSE MaxStop - 2

Holdback == MaxStop - 1

\* A word-free text is split into what may be shown and what is held back.
Released(s) == IF Len(s) > Holdback THEN SubSeq(s, 1, Len(s) - Holdback) ELSE <<>>
HeldBack(s) == IF Len(s) > Holdback THEN SubSeq(s, Len(s) - Holdback + 1, Len(s)) ELSE s

(***************************************************************************)
(* Buffered bodies.  trimAnthropicStops looks for the earliest word in all *)
(* text blocks joined, cuts the block it begins in and drops the blocks    *)
(* after that; trimOpenAIStops does the same within each choice.           *)
(***************************************************************************)
StartOf(texts, i) == Len(FlattenSeq(SubSeq(texts, 1, i - 1)))

TrimBlocksKeepingRest(texts) == [i \in DOMAIN texts |-> Clean(texts[i])]

TrimBlocks(texts) ==
  LET all == FlattenSeq(texts)
      pos == Min(Hits(all))
      \* an empty block cannot hold the position, so that it is kept whole
      hit == CHOOSE i \in DOMAIN texts :
               /\ StartOf(texts, i) <= pos
               /\ pos < StartOf(texts, i) + Len(texts[i])
  IN  IF ~HasStop(all) THEN texts
      ELSE Append(SubSeq(texts, 1, hit - 1),
                  SubSeq(texts[hit], 1, pos - StartOf(texts, hit)))

TrimChoices(texts) == [i \in DOMAIN texts |-> Clean(texts[i])]

\* A word begins in one block and ends in a later one: only the buffered
\* path sees it.
Straddles(texts) ==
  /\ HasStop(FlattenSeq(texts))
  /\ \A i \in DOMAIN texts :
       HasStop(texts[i]) =>
         StartOf(texts, i) + Min(Hits(texts[i])) # Min(Hits(FlattenSeq(texts)))
=============================================================================
