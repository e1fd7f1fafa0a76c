------------------------ MODULE StreamContent_proofs ------------------------
(***************************************************************************)
(* Proofs about what a client gets of a stream's texts and events, for any *)
(* texts, blocks and stop words (words that are apart where it says so):   *)
(* the texts of a stream under way and of one that is over, its events,    *)
(* and what it has in common with a buffered body.                         *)
(***************************************************************************)
EXTENDS StreamPump_proofs

-----------------------------------------------------------------------------
(* Parts of sequences.                                                     *)

LEMMA SameSeq ==
  ASSUME NEW S, NEW s \in Seq(S), NEW t \in Seq(S), Len(s) = Len(t),
         \A n \in 1 .. Len(s) : s[n] = t[n]
  PROVE  s = t
OBVIOUS

LEMMA Sliced ==
  ASSUME NEW S, NEW s \in Seq(S), NEW a \in Nat, NEW b \in Nat, a <= b, b <= Len(s)
  PROVE  /\ SubSeq(s, a + 1, b) \in Seq(S) /\ Len(SubSeq(s, a + 1, b)) = b - a
         /\ \A n \in 1 .. b - a : SubSeq(s, a + 1, b)[n] = s[a + n]
<1>1. Len(s) \in Nat /\ s \in [1 .. Len(s) -> S]
  OBVIOUS
<1> DEFINE t == [n \in 1 .. b - a |-> s[a + n]]
<1>2. SubSeq(s, a + 1, b) = t
  <2>1. SubSeq(s, a + 1, b) = [n \in 1 .. (b - (a + 1) + 1) |-> s[n + (a + 1) - 1]]
    OBVIOUS
  <2>2. b - (a + 1) + 1 = b - a /\ \A n \in 1 .. b - a : n + (a + 1) - 1 = a + n
    BY <1>1
  <2> QED
    BY <2>1, <2>2
<1>3. t \in [1 .. b - a -> S] /\ b - a \in Nat
  BY <1>1
<1>4. t \in Seq(S) /\ Len(t) = b - a
  <2> HIDE DEF t
  <2> QED
    BY <1>3
<1> QED
  BY <1>2, <1>4

LEMMA Begins ==
  ASSUME NEW S, NEW s \in Seq(S), NEW b \in Nat, b <= Len(s)
  PROVE  /\ SubSeq(s, 1, b) \in Seq(S) /\ Len(SubSeq(s, 1, b)) = b
         /\ \A n \in 1 .. b : SubSeq(s, 1, b)[n] = s[n]
<1> DEFINE a == 0
<1>1. a \in Nat /\ a <= b /\ a + 1 = 1 /\ b - a = b /\ \A n \in 1 .. b : a + n = n
  OBVIOUS
<1> HIDE DEF a
<1>2. /\ SubSeq(s, a + 1, b) \in Seq(S) /\ Len(SubSeq(s, a + 1, b)) = b - a
      /\ \A n \in 1 .. b - a : SubSeq(s, a + 1, b)[n] = s[a + n]
  BY <1>1, Sliced
<1> QED
  BY <1>1, <1>2

LEMMA BeginsOfJoined ==
  ASSUME NEW S, NEW s \in Seq(S), NEW t \in Seq(S)
  PROVE  /\ \A m \in 0 .. Len(s) : SubSeq(s \o t, 1, m) = SubSeq(s, 1, m)
         /\ \A m \in 0 .. Len(t) : SubSeq(s \o t, 1, Len(s) + m) = s \o SubSeq(t, 1, m)
         /\ SubSeq(s \o t, 1, Len(s)) = s
<1> DEFINE y == s \o t
<1>1. /\ y \in Seq(S) /\ Len(s) \in Nat /\ Len(t) \in Nat /\ Len(y) = Len(s) + Len(t)
      /\ \A n \in 1 .. Len(s) + Len(t) :
           y[n] = IF n <= Len(s) THEN s[n] ELSE t[n - Len(s)]
  BY Joined
<1> HIDE DEF y
<1>2. ASSUME NEW m \in 0 .. Len(s) PROVE SubSeq(y, 1, m) = SubSeq(s, 1, m)
  <2>1. m \in Nat /\ m <= Len(s) /\ m <= Len(y)
    BY <1>1
  <2>2. /\ SubSeq(s, 1, m) \in Seq(S) /\ Len(SubSeq(s, 1, m)) = m
        /\ \A n \in 1 .. m : SubSeq(s, 1, m)[n] = s[n]
    BY <2>1, Begins
  <2>3. /\ SubSeq(y, 1, m) \in Seq(S) /\ Len(SubSeq(y, 1, m)) = m
        /\ \A n \in 1 .. m : SubSeq(y, 1, m)[n] = y[n]
    BY <1>1, <2>1, Begins
  <2>4. \A n \in 1 .. m : y[n] = s[n]
    BY <1>1
  <2> QED
    BY <2>2, <2>3, <2>4, SameSeq
<1>3. ASSUME NEW m \in 0 .. Len(t) PROVE SubSeq(y, 1, Len(s) + m) = s \o SubSeq(t, 1, m)
  <2> DEFINE u == SubSeq(t, 1, m)
             v == SubSeq(y, 1, Len(s) + m)
  <2>1. m \in Nat /\ m <= Len(t) /\ Len(s) + m \in Nat /\ Len(s) + m <= Len(y)
    BY <1>1
  <2>2. u \in Seq(S) /\ Len(u) = m /\ \A n \in 1 .. m : u[n] = t[n]
    BY <2>1, Begins
  <2>3. v \in Seq(S) /\ Len(v) = Len(s) + m /\ \A n \in 1 .. Len(s) + m : v[n] = y[n]
    BY <1>1, <2>1, Begins
  <2> HIDE DEF u, v
  <2>4. /\ s \o u \in Seq(S) /\ Len(s \o u) = Len(s) + Len(u)
        /\ \A n \in 1 .. Len(s) + Len(u) :
             (s \o u)[n] = IF n <= Len(s) THEN s[n] ELSE u[n - Len(s)]
    BY <2>2, Joined
  <2>5. \A n \in 1 .. Len(s) + m : v[n] = (s \o u)[n]
    <3> SUFFICES ASSUME NEW n \in 1 .. Len(s) + m PROVE v[n] = (s \o u)[n]
      OBVIOUS
    <3>1. v[n] = y[n] /\ n \in Nat /\ n \in 1 .. Len(s) + Len(t)
      BY <1>1, <2>1, <2>3
    <3>2. (s \o u)[n] = IF n <= Len(s) THEN s[n] ELSE u[n - Len(s)]
      BY <2>2, <2>4
    <3>3. y[n] = IF n <= Len(s) THEN s[n] ELSE t[n - Len(s)]
      BY <1>1, <3>1
    <3>4. CASE n <= Len(s)
      BY <3>1, <3>2, <3>3, <3>4
    <3>5. CASE ~(n <= Len(s))
      <4>1. n - Len(s) \in 1 .. m
        BY <1>1, <2>1, <3>1, <3>5
      <4> QED
        BY <2>2, <3>1, <3>2, <3>3, <3>5, <4>1
    <3> QED
      BY <3>4, <3>5
  <2>6. v = s \o u
    BY <2>2, <2>3, <2>4, <2>5, SameSeq
  <2> QED
    BY <2>6 DEF u, v
<1>4. SubSeq(y, 1, Len(s)) = s
  <2>1. Len(s) \in 0 .. Len(s) /\ SubSeq(s, 1, Len(s)) = s
    BY <1>1
  <2> QED
    BY <1>2, <2>1
<1> QED
  BY <1>2, <1>3, <1>4 DEF y

(* The same, of texts.                                                     *)
LEMMA Associates ==
  \A t1, t2, t3 \in Seq(Chars) : (t1 \o t2) \o t3 = t1 \o (t2 \o t3)
BY JoinedTwice

LEMMA NothingJoined ==
  \A t1 \in Seq(Chars) : t1 \o <<>> = t1 /\ <<>> \o t1 = t1
OBVIOUS

LEMMA JoinedText ==
  \A t1, t2 \in Seq(Chars) : t1 \o t2 \in Seq(Chars)
OBVIOUS

LEMMA TextBegins ==
  ASSUME NEW s \in Seq(Chars), NEW t \in Seq(Chars)
  PROVE  /\ \A m \in 0 .. Len(s) : SubSeq(s \o t, 1, m) = SubSeq(s, 1, m)
         /\ \A m \in 0 .. Len(t) : SubSeq(s \o t, 1, Len(s) + m) = s \o SubSeq(t, 1, m)
BY BeginsOfJoined

-----------------------------------------------------------------------------
(* Where words are.                                                        *)

Occurs(s, i, k) ==
  /\ i + Len(Stops[k]) <= Len(s)
  /\ \A n \in 1 .. Len(Stops[k]) : s[i + n] = Stops[k][n]

LEMMA PrefixAt ==
  ASSUME NEW w \in Seq(Chars), NEW s \in Seq(Chars), NEW i \in 0 .. Len(s)
  PROVE  IsPrefix(w, SubSeq(s, i + 1, Len(s))) <=>
           i + Len(w) <= Len(s) /\ \A n \in 1 .. Len(w) : s[i + n] = w[n]
<1> DEFINE t == SubSeq(s, i + 1, Len(s))
<1>1. /\ Len(w) \in Nat /\ Len(s) \in Nat /\ i \in Nat /\ i <= Len(s)
  OBVIOUS
<1>2. /\ t \in Seq(Chars) /\ Len(t) = Len(s) - i
      /\ \A n \in 1 .. Len(s) - i : t[n] = s[i + n]
  BY <1>1, Sliced
<1>3. IsPrefix(w, t) <=> Len(w) <= Len(t) /\ SubSeq(w, 1, Len(w)) = SubSeq(t, 1, Len(w))
  BY DEF IsPrefix
<1> HIDE DEF t
<1>4. SubSeq(w, 1, Len(w)) = w
  OBVIOUS
<1>5. Len(w) <= Len(t) =>
        (SubSeq(t, 1, Len(w)) = w <=> \A n \in 1 .. Len(w) : t[n] = w[n])
  <2> SUFFICES ASSUME Len(w) <= Len(t)
               PROVE  SubSeq(t, 1, Len(w)) = w <=> \A n \in 1 .. Len(w) : t[n] = w[n]
    OBVIOUS
  <2> DEFINE u == SubSeq(t, 1, Len(w))
  <2>1. u \in Seq(Chars) /\ Len(u) = Len(w) /\ \A n \in 1 .. Len(w) : u[n] = t[n]
    BY <1>1, <1>2
  <2> HIDE DEF u
  <2>2. u = w <=> \A n \in 1 .. Len(w) : u[n] = w[n]
    BY <2>1, SameSeq
  <2> QED
    BY <2>1, <2>2 DEF u
<1> QED
  BY <1>1, <1>2, <1>3, <1>4, <1>5 DEF t

LEMMA HitsAre ==
  ASSUME NEW s \in Seq(Chars)
  PROVE  /\ Hits(s) \subseteq Nat
         /\ \A i \in Nat : i \in Hits(s) <=> \E k \in DOMAIN Stops : Occurs(s, i, k)
<1>1. Len(s) \in Nat
  OBVIOUS
<1>2. ASSUME NEW i \in Nat, NEW k \in DOMAIN Stops, i <= Len(s)
      PROVE  IsPrefix(Stops[k], SubSeq(s, i + 1, Len(s))) <=> Occurs(s, i, k)
  <2>1. Stops[k] \in Seq(Chars) /\ i \in 0 .. Len(s)
    BY <1>1, <1>2, StopsAre
  <2> QED
    BY <2>1, PrefixAt DEF Occurs
<1>3. ASSUME NEW i \in Nat, NEW k \in DOMAIN Stops, Occurs(s, i, k)
      PROVE  i \in 0 .. Len(s) - 1
  BY <1>1, <1>3, StopsAre DEF Occurs
<1>4. ASSUME NEW i \in Nat PROVE i \in Hits(s) <=> \E k \in DOMAIN Stops : Occurs(s, i, k)
  <2>1. i \in Hits(s) => \E k \in DOMAIN Stops : Occurs(s, i, k)
    BY <1>1, <1>2 DEF Hits
  <2>2. ASSUME NEW k \in DOMAIN Stops, Occurs(s, i, k) PROVE i \in Hits(s)
    BY <1>1, <1>2, <1>3, <2>2 DEF Hits
  <2> QED
    BY <2>1, <2>2
<1>5. Hits(s) \subseteq Nat
  BY <1>1 DEF Hits
<1> QED
  BY <1>4, <1>5

(* A word in one of two texts is in the two joined.                        *)
LEMMA OccursJoined ==
  ASSUME NEW s \in Seq(Chars), NEW t \in Seq(Chars), NEW k \in DOMAIN Stops, NEW i \in Nat
  PROVE  /\ i + Len(Stops[k]) <= Len(s) => (Occurs(s \o t, i, k) <=> Occurs(s, i, k))
         /\ Occurs(s, i, k) => Occurs(s \o t, i, k)
         /\ Occurs(s \o t, Len(s) + i, k) <=> Occurs(t, i, k)
<1> DEFINE w == Stops[k]
           y == s \o t
<1>1. /\ Len(w) \in Nat \ {0} /\ Len(s) \in Nat /\ Len(t) \in Nat
      /\ Len(y) = Len(s) + Len(t)
      /\ \A n \in 1 .. Len(s) + Len(t) :
           y[n] = IF n <= Len(s) THEN s[n] ELSE t[n - Len(s)]
  BY StopsAre, Joined
<1>2. \A v, j : Occurs(v, j, k) <=>
        j + Len(w) <= Len(v) /\ \A n \in 1 .. Len(w) : v[j + n] = w[n]
  BY DEF Occurs
<1> HIDE DEF w, y
<1>3. i + Len(w) <= Len(s) => (Occurs(y, i, k) <=> Occurs(s, i, k))
  <2> SUFFICES ASSUME i + Len(w) <= Len(s) PROVE Occurs(y, i, k) <=> Occurs(s, i, k)
    OBVIOUS
  <2>1. \A n \in 1 .. Len(w) : y[i + n] = s[i + n]
    BY <1>1
  <2>2. i + Len(w) <= Len(y)
    BY <1>1
  <2>3. Occurs(y, i, k) <=> \A n \in 1 .. Len(w) : y[i + n] = w[n]
    BY <1>2, <2>2
  <2>4. Occurs(s, i, k) <=> \A n \in 1 .. Len(w) : s[i + n] = w[n]
    BY <1>2
  <2> QED
    BY <2>1, <2>3, <2>4
<1>4. Occurs(s, i, k) => i + Len(w) <= Len(s)
  BY <1>2
<1>5. Occurs(y, Len(s) + i, k) <=> Occurs(t, i, k)
  <2>1. (Len(s) + i) + Len(w) <= Len(y) <=> i + Len(w) <= Len(t)
    BY <1>1
  <2>2. i + Len(w) <= Len(t) => \A n \in 1 .. Len(w) : y[(Len(s) + i) + n] = t[i + n]
    BY <1>1
  <2>3. PICK j : j = Len(s) + i
    OBVIOUS
  <2>4. CASE i + Len(w) <= Len(t)
    <3>1. Occurs(y, j, k) <=> \A n \in 1 .. Len(w) : y[j + n] = w[n]
      BY <1>2, <2>1, <2>3, <2>4
    <3>2. Occurs(t, i, k) <=> \A n \in 1 .. Len(w) : t[i + n] = w[n]
      BY <1>2, <2>4
    <3>3. \A n \in 1 .. Len(w) : y[j + n] = t[i + n]
      BY <2>2, <2>3, <2>4
    <3> QED
      BY <2>3, <3>1, <3>2, <3>3
  <2>5. CASE ~(i + Len(w) <= Len(t))
    BY <1>2, <2>1, <2>5
  <2> QED
    BY <2>4, <2>5
<1> QED
  BY <1>3, <1>4, <1>5 DEF w, y

LEMMA StopStays ==
  ASSUME NEW s \in Seq(Chars), NEW t \in Seq(Chars)
  PROVE  /\ HasStop(s) => HasStop(s \o t)
         /\ HasStop(t) => HasStop(s \o t)
<1>1. s \o t \in Seq(Chars)
  OBVIOUS
<1>2. ASSUME HasStop(s) PROVE HasStop(s \o t)
  <2>1. PICK i \in Nat, k \in DOMAIN Stops : Occurs(s, i, k)
    BY <1>2, HitsAre DEF HasStop
  <2>2. i \in Hits(s \o t)
    BY <1>1, <2>1, HitsAre, OccursJoined
  <2> QED
    BY <2>2 DEF HasStop
<1>3. ASSUME HasStop(t) PROVE HasStop(s \o t)
  <2>1. PICK i \in Nat, k \in DOMAIN Stops : Occurs(t, i, k)
    BY <1>3, HitsAre DEF HasStop
  <2>2. Len(s) + i \in Nat /\ Occurs(s \o t, Len(s) + i, k)
    BY <2>1, OccursJoined
  <2>3. Len(s) + i \in Hits(s \o t)
    BY <1>1, <2>2, HitsAre
  <2> QED
    BY <2>3 DEF HasStop
<1> QED
  BY <1>2, <1>3

-----------------------------------------------------------------------------
(* Where a text is cut.                                                    *)

LEMMA CleanAt ==
  ASSUME NEW s \in Seq(Chars), NEW m \in Hits(s), \A n \in Hits(s) : m <= n
  PROVE  /\ HasStop(s) /\ Min(Hits(s)) = m
         /\ m \in Nat /\ m < Len(s) /\ Clean(s) = SubSeq(s, 1, m)
<1>1. Hits(s) \subseteq Nat /\ Hits(s) # {}
  BY HitsAre
<1>2. Min(Hits(s)) \in Hits(s) /\ \A n \in Hits(s) : Min(Hits(s)) <= n
  BY <1>1, MinOf
<1>3. Min(Hits(s)) = m
  <2>1. \A a, b \in Nat : a <= b /\ b <= a => a = b
    OBVIOUS
  <2> QED
    BY <1>1, <1>2, <2>1
<1>4. m \in Nat /\ m < Len(s)
  BY <1>1 DEF Hits
<1> QED
  BY <1>1, <1>3, <1>4 DEF HasStop, Clean

LEMMA FirstHit ==
  ASSUME NEW s \in Seq(Chars), HasStop(s)
  PROVE  \E m \in Hits(s) : \A n \in Hits(s) : m <= n
<1>1. Hits(s) \subseteq Nat /\ Hits(s) # {}
  BY HitsAre DEF HasStop
<1> QED
  BY <1>1, MinOf

(* A text p that waits behind x is long enough for any word to end in it   *)
(* and to begin in it, too, unless there is no x.                          *)
Waits(x, p) ==
  /\ x \in Seq(Chars) /\ p \in Seq(Chars)
  /\ Len(p) <= Holdback /\ (x = <<>> \/ Len(p) = Holdback)

LEMMA Window ==
  ASSUME NEW x, NEW p, Waits(x, p), ~HasStop(x \o p), NEW t \in Seq(Chars)
  PROVE  /\ (x \o p) \o t = x \o (p \o t)
         /\ HasStop((x \o p) \o t) <=> HasStop(p \o t)
         /\ HasStop(p \o t) => Clean((x \o p) \o t) = x \o Clean(p \o t)
<1> DEFINE z == p \o t
           y == x \o z
<1>1. /\ x \in Seq(Chars) /\ p \in Seq(Chars) /\ z \in Seq(Chars) /\ y \in Seq(Chars)
      /\ x \o p \in Seq(Chars)
      /\ Len(x) \in Nat /\ Len(p) \in Nat /\ Len(z) \in Nat
      /\ Len(y) = Len(x) + Len(z) /\ Len(x \o p) = Len(x) + Len(p)
  BY DEF Waits
<1>2. (x \o p) \o t = y
  BY <1>1, JoinedTwice
<1> HIDE DEF z, y
<1>3. ASSUME NEW i \in Hits(y) PROVE i >= Len(x) /\ i - Len(x) \in Hits(z)
  <2>1. i \in Nat
    BY <1>1, HitsAre
  <2>2. PICK k \in DOMAIN Stops : Occurs(y, i, k)
    BY <1>1, <2>1, HitsAre
  <2>3. Len(Stops[k]) \in Nat /\ Len(Stops[k]) <= MaxStop /\ MaxStop \in Nat
    BY StopsAre, MaxStopIs
  <2>4. ~(i + Len(Stops[k]) <= Len(x) + Len(p))
    <3> SUFFICES ASSUME i + Len(Stops[k]) <= Len(x \o p) PROVE FALSE
      BY <1>1
    <3>1. Occurs((x \o p) \o t, i, k)
      BY <1>2, <2>2
    <3>2. Occurs(x \o p, i, k)
      BY <1>1, <2>1, <3>1, OccursJoined
    <3>3. i \in Hits(x \o p)
      BY <1>1, <2>1, <3>2, HitsAre
    <3> QED
      BY <3>3 DEF HasStop
  <2>5. i >= Len(x)
    <3>1. CASE x = <<>>
      <4>1. Len(x) = 0
        BY <3>1
      <4> QED
        BY <2>1, <4>1
    <3>2. CASE x # <<>>
      <4>1. Len(p) = MaxStop - 1
        BY <3>2 DEF Waits, Holdback
      <4> QED
        BY <1>1, <2>1, <2>3, <2>4, <4>1
    <3> QED
      BY <3>1, <3>2
  <2>6. i - Len(x) \in Nat /\ Len(x) + (i - Len(x)) = i
    BY <1>1, <2>1, <2>5
  <2>7. Occurs(z, i - Len(x), k)
    <3> DEFINE j == i - Len(x)
    <3>1. j \in Nat /\ Occurs(x \o z, Len(x) + j, k)
      BY <2>2, <2>6 DEF y
    <3> HIDE DEF j
    <3>2. Occurs(z, j, k)
      BY <1>1, <3>1, OccursJoined
    <3> QED
      BY <3>2 DEF j
  <2> QED
    BY <1>1, <2>5, <2>6, <2>7, HitsAre
<1>4. ASSUME NEW j \in Hits(z) PROVE Len(x) + j \in Hits(y)
  <2>1. j \in Nat
    BY <1>1, HitsAre
  <2>2. PICK k \in DOMAIN Stops : Occurs(z, j, k)
    BY <1>1, <2>1, HitsAre
  <2>3. Occurs(y, Len(x) + j, k) /\ Len(x) + j \in Nat
    BY <1>1, <2>1, <2>2, OccursJoined DEF y
  <2> QED
    BY <1>1, <2>3, HitsAre
<1>5. HasStop(y) <=> HasStop(z)
  BY <1>3, <1>4 DEF HasStop
<1>6. HasStop(z) => Clean(y) = x \o Clean(z)
  <2> SUFFICES ASSUME HasStop(z) PROVE Clean(y) = x \o Clean(z)
    OBVIOUS
  <2>1. PICK m \in Hits(z) : \A n \in Hits(z) : m <= n
    BY <1>1, FirstHit
  <2>2. m \in Nat /\ m < Len(z) /\ Clean(z) = SubSeq(z, 1, m)
    BY <1>1, <2>1, CleanAt
  <2>3. \A n \in Hits(y) : Len(x) + m <= n
    <3>1. Hits(y) \subseteq Nat
      BY <1>1, HitsAre
    <3>2. ASSUME NEW n \in Hits(y) PROVE Len(x) + m <= n
      <4>1. n \in Nat /\ m <= n - Len(x)
        BY <1>3, <2>1, <3>1
      <4> QED
        BY <1>1, <2>2, <4>1
    <3> QED
      BY <3>2
  <2>4. Len(x) + m \in Hits(y)
    BY <1>4, <2>1
  <2>5. Clean(y) = SubSeq(y, 1, Len(x) + m)
    BY <1>1, <2>3, <2>4, CleanAt
  <2>6. SubSeq(y, 1, Len(x) + m) = x \o SubSeq(z, 1, m)
    <3>1. m \in 0 .. Len(z)
      BY <1>1, <2>2
    <3>2. \A j \in 0 .. Len(z) : SubSeq(x \o z, 1, Len(x) + j) = x \o SubSeq(z, 1, j)
      BY <1>1, TextBegins
    <3> QED
      BY <3>1, <3>2 DEF y
  <2> QED
    BY <2>2, <2>5, <2>6
<1> QED
  BY <1>2, <1>5, <1>6 DEF z, y

LEMMA Rejoined ==
  ASSUME NEW S, NEW z \in Seq(S), NEW m \in Nat, m <= Len(z)
  PROVE  SubSeq(z, 1, m) \o SubSeq(z, m + 1, Len(z)) = z
<1> DEFINE u == SubSeq(z, 1, m)
           v == SubSeq(z, m + 1, Len(z))
<1>0. PICK k : k = Len(z)
  OBVIOUS
<1>1. k \in Nat /\ k <= Len(z)
  BY <1>0
<1>2. u \in Seq(S) /\ Len(u) = m /\ \A n \in 1 .. m : u[n] = z[n]
  BY Begins
<1>3. v \in Seq(S) /\ Len(v) = k - m /\ \A n \in 1 .. k - m : v[n] = z[m + n]
  BY <1>0, <1>1, Sliced
<1> HIDE DEF u, v
<1>4. /\ u \o v \in Seq(S) /\ Len(u \o v) = Len(u) + Len(v)
      /\ \A n \in 1 .. Len(u) + Len(v) :
           (u \o v)[n] = IF n <= Len(u) THEN u[n] ELSE v[n - Len(u)]
  BY <1>2, <1>3, Joined
<1>5. Len(u \o v) = k
  BY <1>0, <1>1, <1>2, <1>3, <1>4
<1>6. \A n \in 1 .. k : (u \o v)[n] = z[n]
  <2>1. Len(u) + Len(v) = k
    BY <1>0, <1>1, <1>2, <1>3
  <2>2. ASSUME NEW n \in 1 .. k PROVE (u \o v)[n] = z[n]
    <3>1. CASE n <= m
      BY <1>2, <1>4, <2>1, <3>1
    <3>2. CASE ~(n <= m)
      <4>1. n - m \in 1 .. k - m /\ m + (n - m) = n
        BY <1>1, <3>2
      <4>2. v[n - m] = z[n]
        BY <1>3, <4>1
      <4> QED
        BY <1>2, <1>4, <2>1, <3>2, <4>2
    <3> QED
      BY <3>1, <3>2
  <2> QED
    BY <2>2
<1>7. u \o v = z
  BY <1>0, <1>4, <1>5, <1>6, SameSeq
<1> QED
  BY <1>7 DEF u, v

(* What is released and what is held back of a text make up the text, and  *)
(* the latter waits for what comes next.                                   *)
LEMMA HeldBackWaits ==
  ASSUME NEW x, NEW p, Waits(x, p), NEW t \in Seq(Chars)
  PROVE  /\ Released(p \o t) \o HeldBack(p \o t) = p \o t
         /\ Waits(x \o Released(p \o t), HeldBack(p \o t))
         /\ (x \o Released(p \o t)) \o HeldBack(p \o t) = (x \o p) \o t
<1> DEFINE z == p \o t
           H == Holdback
           u == Released(z)
           v == HeldBack(z)
<1>0. x \in Seq(Chars) /\ p \in Seq(Chars)
  BY DEF Waits
<1>1. /\ x \in Seq(Chars) /\ p \in Seq(Chars) /\ z \in Seq(Chars)
      /\ Len(p) \in Nat /\ Len(t) \in Nat /\ Len(z) = Len(p) + Len(t) /\ H \in Nat
      /\ Len(p) <= H /\ (x = <<>> \/ Len(p) = H)
  BY HoldbackIs DEF Waits
<1>2. u \in Seq(Chars) /\ v \in Seq(Chars) /\ Len(v) <= H
  BY <1>1, TextsStayTexts
<1>3. /\ u = IF Len(z) > H THEN SubSeq(z, 1, Len(z) - H) ELSE <<>>
      /\ v = IF Len(z) > H THEN SubSeq(z, Len(z) - H + 1, Len(z)) ELSE z
  BY DEF Released, HeldBack
<1>4. u \o v = z /\ (Len(z) >= H => Len(v) = H)
                 /\ (Len(z) <= H => u = <<>>)
  <2> HIDE DEF z, H, u, v
  <2>1. CASE Len(z) > H
    <3> DEFINE m == Len(z) - H
    <3>1. m \in Nat /\ m <= Len(z) /\ Len(z) \in Nat /\ Len(z) - m = H
      BY <1>1, <2>1
    <3>2. u = SubSeq(z, 1, m) /\ v = SubSeq(z, m + 1, Len(z))
      BY <1>3, <2>1
    <3> HIDE DEF m
    <3>4. Len(v) = H
      <4>1. Len(SubSeq(z, m + 1, Len(z))) = Len(z) - m
        BY <1>1, <3>1, Sliced
      <4> QED
        BY <3>1, <3>2, <4>1
    <3>7. u \o v = z
      BY <1>1, <3>1, <3>2, Rejoined
    <3> QED
      BY <1>1, <2>1, <3>4, <3>7
  <2>2. CASE ~(Len(z) > H)
    <3>1. u = <<>> /\ v = z
      BY <1>3, <2>2
    <3>2. u \o v = z
      BY <1>1, <3>1
    <3> QED
      BY <1>1, <2>2, <3>1, <3>2
  <2> QED
    BY <2>1, <2>2
<1>5. x \o u \in Seq(Chars) /\ (x \o u = <<>> \/ Len(v) = H)
  <2>1. x \o u \in Seq(Chars)
    BY <1>1, <1>2
  <2>2. CASE Len(p) = H
    <3>1. Len(z) >= H
      BY <1>1, <2>2
    <3> QED
      BY <1>4, <2>1, <3>1
  <2>3. CASE x = <<>> /\ Len(z) <= H
    BY <1>4, <2>1, <2>3
  <2>4. CASE Len(z) >= H
    BY <1>4, <2>1, <2>4
  <2> HIDE DEF u, v, H, z
  <2> QED
    BY <1>1, <2>2, <2>3, <2>4
<1>6. (x \o u) \o v = (x \o p) \o t
  <2>2. (x \o p) \o t = x \o z
    BY <1>0, JoinedTwice
  <2>1. (x \o u) \o v = x \o (u \o v)
    BY <1>0, <1>2, Associates, SMTT(30)
  <2> QED
    BY <1>4, <2>1, <2>2
<1> QED
  BY <1>2, <1>4, <1>5, <1>6 DEF Waits

(* Once a word is complete, whatever follows does not change the cut.      *)
LEMMA StaysCut ==
  ASSUME WordsApart, NEW s \in Seq(Chars), NEW t \in Seq(Chars), HasStop(s)
  PROVE  HasStop(s \o t) /\ Clean(s \o t) = Clean(s)
<1> DEFINE y == s \o t
<1>1. /\ y \in Seq(Chars) /\ Len(s) \in Nat /\ Len(t) \in Nat /\ Len(y) = Len(s) + Len(t)
      /\ \A n \in 1 .. Len(s) + Len(t) :
           y[n] = IF n <= Len(s) THEN s[n] ELSE t[n - Len(s)]
  BY Joined
<1>2. PICK m \in Hits(s) : \A n \in Hits(s) : m <= n
  BY FirstHit
<1>3. m \in Nat /\ m < Len(s) /\ Clean(s) = SubSeq(s, 1, m)
  BY <1>2, CleanAt
<1>4. PICK k \in DOMAIN Stops : Occurs(s, m, k)
  BY <1>3, HitsAre
<1>5. Occurs(y, m, k)
  BY <1>3, <1>4, OccursJoined
<1> HIDE DEF y
<1>6. m \in Hits(y)
  BY <1>1, <1>3, <1>5, HitsAre
<1>7. ASSUME NEW n \in Hits(y), n < m PROVE FALSE
  <2>1. n \in Nat
    BY <1>1, HitsAre
  <2>2. PICK j \in DOMAIN Stops : Occurs(y, n, j)
    BY <1>1, <2>1, HitsAre
  <2>3. /\ Stops[j] \in Seq(Chars) /\ Len(Stops[j]) \in Nat
        /\ Stops[k] \in Seq(Chars) /\ Len(Stops[k]) \in Nat \ {0}
    BY StopsAre
  <2>4. ~(n + Len(Stops[j]) <= Len(s))
    <3> SUFFICES ASSUME n + Len(Stops[j]) <= Len(s) PROVE FALSE
      OBVIOUS
    <3>1. Occurs(s, n, j)
      BY <2>1, <2>2, OccursJoined DEF y
    <3>2. n \in Hits(s)
      BY <2>1, <3>1, HitsAre
    <3> QED
      BY <1>2, <1>3, <1>7, <2>1, <3>2
  <2> DEFINE i == m - n
  <2>5. /\ m + Len(Stops[k]) <= Len(s)
        /\ \A q \in 1 .. Len(Stops[k]) : s[m + q] = Stops[k][q]
    BY <1>4 DEF Occurs
  <2>6. \A q \in 1 .. Len(Stops[j]) : y[n + q] = Stops[j][q]
    BY <2>2 DEF Occurs
  <2>7. /\ i \in 1 .. Len(Stops[j]) - 1 /\ n + i = m
        /\ i + Len(Stops[k]) < Len(Stops[j])
    <3>1. \A a, b, d, e, f \in Nat :
            b < a /\ a < d /\ ~(b + e <= d) /\ a + f <= d =>
              a - b \in 1 .. e - 1 /\ b + (a - b) = a /\ (a - b) + f < e
      OBVIOUS
    <3>2. m + Len(Stops[k]) <= Len(s)
      BY <2>5
    <3> QED
      BY <1>1, <1>3, <1>7, <2>1, <2>3, <2>4, <3>1, <3>2
  <2> HIDE DEF i
  <2>8. ASSUME NEW q \in 1 .. Len(Stops[k]) PROVE Stops[j][i + q] = Stops[k][q]
    <3>1. i + q \in 1 .. Len(Stops[j]) /\ n + (i + q) = m + q
      BY <1>3, <2>1, <2>3, <2>7
    <3>2. Stops[j][i + q] = y[m + q]
      BY <2>6, <3>1
    <3>3. m + q \in 1 .. Len(s)
      BY <1>1, <1>3, <2>3, <2>5
    <3>4. y[m + q] = s[m + q]
      BY <1>1, <3>3
    <3> QED
      BY <2>5, <3>2, <3>4
  <2>9. IsPrefix(Stops[k], SubSeq(Stops[j], i + 1, Len(Stops[j])))
    <3>1. i \in 0 .. Len(Stops[j]) /\ i + Len(Stops[k]) <= Len(Stops[j])
      BY <2>3, <2>7
    <3> QED
      BY <2>3, <2>8, <3>1, PrefixAt
  <2>10. i + Len(Stops[k]) = Len(Stops[j])
    BY <2>7, <2>9 DEF WordsApart
  <2> QED
    BY <2>3, <2>7, <2>10
<1>8. \A n \in Hits(y) : m <= n
  <2>1. \A n \in Hits(y) : n \in Nat
    BY <1>1, HitsAre
  <2> QED
    BY <1>3, <1>7, <2>1
<1>9. HasStop(y) /\ Clean(y) = SubSeq(y, 1, m)
  BY <1>1, <1>6, <1>8, CleanAt
<1>10. SubSeq(y, 1, m) = SubSeq(s, 1, m)
  <2>1. m \in 0 .. Len(s)
    BY <1>1, <1>3
  <2> QED
    BY <2>1, TextBegins DEF y
<1> QED
  BY <1>3, <1>9, <1>10 DEF y

LEMMA PrefixOfJoined ==
  ASSUME NEW x \in Seq(Chars), NEW p \in Seq(Chars)
  PROVE  IsPrefix(x, x \o p)
<1> DEFINE y == x \o p
<1>1. y \in Seq(Chars) /\ Len(y) = Len(x) + Len(p) /\ Len(x) \in Nat /\ Len(p) \in Nat
  OBVIOUS
<1>2. SubSeq(y, 1, Len(x)) = x
  BY BeginsOfJoined
<1>3. SubSeq(x, 1, Len(x)) = x
  OBVIOUS
<1> HIDE DEF y
<1>4. IsPrefix(x, y)
  BY <1>1, <1>2, <1>3 DEF IsPrefix
<1> QED
  BY <1>4 DEF y

(* What is shown of a text that has a word: a beginning without a word, and *)
(* all up to the first one if the words are apart.                         *)
CutOf(y, t) ==
  /\ y \in Seq(Chars) /\ ~HasStop(y)
  /\ \E rest \in Seq(Chars) : t = y \o rest
  /\ WordsApart => y = Clean(t)

LEMMA CleanCuts ==
  ASSUME NEW s \in Seq(Chars), HasStop(s)
  PROVE  CutOf(Clean(s), s)
<1>1. PICK m \in Hits(s) : \A n \in Hits(s) : m <= n
  BY FirstHit
<1>2. m \in Nat /\ m < Len(s) /\ Clean(s) = SubSeq(s, 1, m)
  BY <1>1, CleanAt
<1>3. PICK y : y = SubSeq(s, 1, m)
  OBVIOUS
<1>4. PICK rest : rest = SubSeq(s, m + 1, Len(s))
  OBVIOUS
<1>5. y \in Seq(Chars) /\ Len(y) = m /\ rest \in Seq(Chars) /\ s = y \o rest
  <2>1. /\ y \in Seq(Chars) /\ Len(y) = m /\ \A n \in 1 .. m : y[n] = s[n]
    BY <1>2, <1>3, Begins
  <2>2. /\ rest \in Seq(Chars) /\ Len(rest) = Len(s) - m
        /\ \A n \in 1 .. Len(s) - m : rest[n] = s[m + n]
    BY <1>2, <1>4, Sliced
  <2>3. /\ y \o rest \in Seq(Chars) /\ Len(y \o rest) = Len(y) + Len(rest)
        /\ \A n \in 1 .. Len(y) + Len(rest) :
             (y \o rest)[n] = IF n <= Len(y) THEN y[n] ELSE rest[n - Len(y)]
    BY <2>1, <2>2, Joined
  <2>4. Len(s) \in Nat /\ Len(y \o rest) = Len(s)
    BY <1>2, <2>1, <2>2, <2>3
  <2>5. ASSUME NEW n \in 1 .. Len(s) PROVE s[n] = (y \o rest)[n]
    <3>1. CASE n <= m
      BY <1>2, <2>1, <2>2, <2>3, <2>4, <3>1
    <3>2. CASE ~(n <= m)
      <4>1. n - m \in 1 .. Len(s) - m /\ m + (n - m) = n
        BY <1>2, <2>4, <3>2
      <4>2. rest[n - m] = s[n]
        BY <2>2, <4>1
      <4> QED
        BY <1>2, <2>1, <2>2, <2>3, <2>4, <3>2, <4>2
    <3> QED
      BY <3>1, <3>2
  <2>6. s = y \o rest
    BY <2>3, <2>4, <2>5, SameSeq
  <2> QED
    BY <2>1, <2>2, <2>6
<1>6. ~HasStop(y)
  <2> SUFFICES ASSUME HasStop(y) PROVE FALSE
    OBVIOUS
  <2>1. PICK i \in Nat, k \in DOMAIN Stops : Occurs(y, i, k)
    BY <1>5, HitsAre DEF HasStop
  <2>2. Occurs(s, i, k)
    BY <1>5, <2>1, OccursJoined
  <2>3. i \in Hits(s)
    BY <2>1, <2>2, HitsAre
  <2>4. Len(Stops[k]) \in Nat \ {0}
    BY StopsAre
  <2>5. i + Len(Stops[k]) <= m
    BY <1>5, <2>1 DEF Occurs
  <2> QED
    BY <1>1, <1>2, <2>1, <2>3, <2>4, <2>5
<1> QED
  BY <1>2, <1>3, <1>5, <1>6 DEF CutOf

LEMMA CutOfStays ==
  ASSUME NEW y, NEW s \in Seq(Chars), HasStop(s), CutOf(y, s), NEW t \in Seq(Chars)
  PROVE  HasStop(s \o t) /\ CutOf(y, s \o t)
<1>1. PICK rest \in Seq(Chars) : y \in Seq(Chars) /\ ~HasStop(y) /\ s = y \o rest
  BY DEF CutOf
<1>2. rest \o t \in Seq(Chars) /\ s \o t = y \o (rest \o t)
  BY <1>1, Associates, JoinedText
<1>3. WordsApart => y = Clean(s \o t)
  BY StaysCut DEF CutOf
<1>4. HasStop(s \o t)
  BY StopStays
<1> QED
  BY <1>1, <1>2, <1>3, <1>4 DEF CutOf

LEMMA NothingHasNoStop == \A e : e = <<>> => ~HasStop(e)
<1> SUFFICES ASSUME NEW e, e = <<>> PROVE ~HasStop(e)
  OBVIOUS
<1>1. Len(e) = 0
  OBVIOUS
<1> QED
  BY <1>1 DEF HasStop, Hits

-----------------------------------------------------------------------------
(* What a client hears of the texts.                                       *)

Speaking == {"delta", "chunk", "finish"}
Speaks(l) == l.k = "data" /\ l.whole /\ l.type \in Speaking /\ l.text # NoText
SilentLines == {l \in GoodLines : ~Speaks(l)}

BlockTexts == [Blocks -> Seq(Chars)]
Adds(x, b, t) == [x EXCEPT ![b] = @ \o t]

LEMMA AddsIs ==
  ASSUME NEW x \in BlockTexts, NEW b, NEW t \in Seq(Chars)
  PROVE  /\ Adds(x, b, t) \in BlockTexts
         /\ b \in Blocks => Adds(x, b, t)[b] = x[b] \o t
         /\ \A a \in Blocks : a # b => Adds(x, b, t)[a] = x[a]
         /\ t = <<>> => Adds(x, b, t) = x
<1> DEFINE y == Adds(x, b, t)
<1>1. /\ y = [a \in Blocks |-> IF a = b THEN x[a] \o t ELSE x[a]]
      /\ \A a \in Blocks : x[a] \in Seq(Chars)
  BY DEF Adds, BlockTexts
<1>2. \A a \in Blocks : x[a] \o t \in Seq(Chars) /\ x[a] \o <<>> = x[a]
  BY <1>1, NothingJoined
<1> HIDE DEF y
<1>3. y \in BlockTexts
  BY <1>1, <1>2 DEF BlockTexts
<1>4. ASSUME t = <<>> PROVE y = x
  <2>1. \A a \in Blocks : y[a] = x[a]
    BY <1>1, <1>2, <1>4
  <2> QED
    BY <1>1, <1>3, <2>1 DEF BlockTexts
<1> QED
  BY <1>1, <1>3, <1>4 DEF y

LEMMA AddsTwice ==
  ASSUME NEW x \in BlockTexts, NEW b, NEW t \in Seq(Chars), NEW u \in Seq(Chars)
  PROVE  Adds(Adds(x, b, t), b, u) = Adds(x, b, t \o u)
<1>1. \A x1 \in BlockTexts, t1 \in Seq(Chars) :
        /\ Adds(x1, b, t1) \in BlockTexts
        /\ b \in Blocks => Adds(x1, b, t1)[b] = x1[b] \o t1
        /\ \A a1 \in Blocks : a1 # b => Adds(x1, b, t1)[a1] = x1[a1]
  BY AddsIs
<1>2. PICK w : w = t \o u
  OBVIOUS
<1>3. PICK v : v = Adds(x, b, t)
  OBVIOUS
<1>4. PICK y : y = Adds(v, b, u)
  OBVIOUS
<1>5. PICK z : z = Adds(x, b, w)
  OBVIOUS
<1>6. w \in Seq(Chars) /\ v \in BlockTexts /\ y \in BlockTexts /\ z \in BlockTexts
  <2>1. w \in Seq(Chars)
    BY <1>2, JoinedText
  <2>2. v \in BlockTexts
    BY <1>1, <1>3
  <2> QED
    BY <1>1, <1>4, <1>5, <2>1, <2>2
<1>7. ASSUME NEW a \in Blocks PROVE y[a] = z[a]
  <2>1. CASE a = b
    <3>1. v[b] = x[b] \o t
      BY <1>1, <1>3, <2>1
    <3>2. y[b] = v[b] \o u
      BY <1>1, <1>4, <1>6, <2>1
    <3>3. z[b] = x[b] \o w
      BY <1>1, <1>5, <1>6, <2>1
    <3>4. x[b] \in Seq(Chars)
      BY <2>1 DEF BlockTexts
    <3>5. (x[b] \o t) \o u = x[b] \o (t \o u)
      BY <3>4, Associates
    <3> QED
      BY <1>2, <2>1, <3>1, <3>2, <3>3, <3>5
  <2>2. CASE a # b
    <3>1. v[a] = x[a]
      BY <1>1, <1>3, <2>2
    <3>2. y[a] = v[a]
      BY <1>1, <1>4, <1>6, <2>2
    <3>3. z[a] = x[a]
      BY <1>1, <1>5, <1>6, <2>2
    <3> QED
      BY <3>1, <3>2, <3>3
  <2> QED
    BY <2>1, <2>2
<1>8. y = z
  BY <1>6, <1>7 DEF BlockTexts
<1> QED
  BY <1>2, <1>3, <1>4, <1>5, <1>8

LEMMA HeardIs ==
  ASSUME NEW s \in BlockTexts, NEW l, LineOK(l)
  PROVE  /\ Heard(s, l) = IF Speaks(l) THEN Adds(s, l.idx, l.text) ELSE s
         /\ Heard(s, l) \in BlockTexts
         /\ Speaks(l) => l.text \in Seq(Chars)
<1>1. Heard(s, l) = IF Speaks(l) THEN Adds(s, l.idx, l.text) ELSE s
  BY DEF Heard, Speaks, Speaking, Adds
<1>2. Speaks(l) => l.text \in Seq(Chars)
  BY DEF LineOK, Speaks, Speaking
<1> QED
  BY <1>1, <1>2, AddsIs

LEMMA ApplyText ==
  ASSUME NEW c, ClientOK(c), c.text \in BlockTexts, NEW l, LineOK(l), l.k = "data", l.whole
  PROVE  Apply(c, l).text = Heard(c.text, l)
<1>1. c = [f \in ClientFields |-> c[f]] /\ "text" \in ClientFields
  BY DEF ClientOK, ClientFields
<1>2. \A f, v : f # "text" => [c EXCEPT ![f] = v].text = c.text
  BY <1>1
<1>3. \A v : [c EXCEPT !.text = v].text = v
  BY <1>1
<1>4. CASE l.type \in {"delta", "chunk"} /\ l.text # NoText
  <2>1. Apply(c, l) = [c EXCEPT !.text[l.idx] = @ \o l.text]
    BY <1>4 DEF Apply
  <2>2. Apply(c, l).text = [c.text EXCEPT ![l.idx] = @ \o l.text]
    BY <1>1, <2>1
  <2> QED
    BY <1>4, <2>2 DEF Heard
<1>5. CASE l.type = "finish"
  <2> DEFINE i == l.idx
             w == IF l.text = NoText THEN c.text[i] ELSE c.text[i] \o l.text
             r == "upstream"
  <2>1. Apply(c, l) = Reasoned(c, r, i, w)
    BY <1>5 DEF Apply, Reasoned
  <2> HIDE DEF w, r, i
  <2>2. Reasoned(c, r, i, w).text = [c.text EXCEPT ![i] = w]
    BY <1>1 DEF Reasoned, ClientFields
  <2>3. CASE l.text = NoText
    <3>1. [c.text EXCEPT ![i] = c.text[i]] = c.text
      BY DEF BlockTexts
    <3>2. w = c.text[i]
      BY <2>3 DEF w
    <3> QED
      BY <2>1, <2>2, <2>3, <3>1, <3>2 DEF Heard
  <2>4. CASE l.text # NoText
    <3>1. w = c.text[i] \o l.text
      BY <2>4 DEF w
    <3> QED
      BY <1>5, <2>1, <2>2, <2>4, <3>1 DEF Heard, i
  <2> QED
    BY <2>3, <2>4
<1>6. CASE l.type \notin Speaking \/ (l.type # "finish" /\ l.text = NoText)
  <2>1. Heard(c.text, l) = c.text
    BY <1>5, <1>6 DEF Heard, Speaking
  <2>2. \/ Apply(c, l) = c
        \/ \E v : \/ Apply(c, l) = [c EXCEPT !.open = v]
                  \/ Apply(c, l) = [c EXCEPT !.reason = v]
                  \/ Apply(c, l) = [c EXCEPT !.ends = v]
                  \/ Apply(c, l) = [c EXCEPT !.failed = v]
    BY <1>6 DEF Apply, Speaking
  <2>3. Apply(c, l).text = c.text
    BY <1>1, <2>2
  <2> QED
    BY <2>1, <2>3
<1> QED
  BY <1>4, <1>5, <1>6 DEF Speaking

LEMMA TakeText ==
  ASSUME NEW c, ClientOK(c), c.text \in BlockTexts, NEW l, LineOK(l)
  PROVE  Take(c, l).text = Heard(c.text, l)
<1>1. c = [f \in ClientFields |-> c[f]] /\ "text" \in ClientFields
  BY DEF ClientOK, ClientFields
<1> DEFINE d == [c EXCEPT !.data = Append(@, [type |-> l.type, whole |-> l.whole])]
<1>2. ClientOK(d) /\ d.text = c.text
  BY DEF ClientOK, ClientFields
<1>3. CASE l.k = "data" /\ l.whole
  <2>1. Take(c, l) = Apply(d, l)
    BY <1>3 DEF Take, LineOK, Lines, Blank, Line
  <2> HIDE DEF d
  <2> QED
    BY <1>2, <1>3, <2>1, ApplyText
<1>4. CASE l.k = "data" /\ ~l.whole
  <2>1. Take(c, l) = d
    BY <1>4 DEF Take, LineOK, Lines, Blank, Line
  <2> HIDE DEF d
  <2> QED
    BY <1>2, <1>4, <2>1 DEF Heard
<1>5. CASE l.k # "data"
  <2>1. \/ Take(c, l) = [c EXCEPT !.name = l.type]
        \/ \E m : Take(c, l) = [c EXCEPT !.malformed = m, !.name = "cut", !.data = <<>>]
        \/ Take(c, l) = c
    <3>1. CASE l.k = "event"
      <4>1. l # Blank
        BY <3>1 DEF Blank, Line
      <4>2. Take(c, l) = [c EXCEPT !.name = l.type]
        BY <3>1, <4>1 DEF Take
      <4> QED
        BY <4>2
    <3>2. CASE l.k # "event" /\ l = Blank
      BY <1>5, <3>2 DEF Take, Blank, Line
    <3>3. CASE l.k # "event" /\ l # Blank
      BY <1>5, <3>3 DEF Take
    <3> QED
      BY <3>1, <3>2, <3>3
  <2>2. Take(c, l).text = c.text
    BY <1>1, <2>1
  <2> QED
    BY <1>5, <2>2 DEF Heard
<1> QED
  BY <1>3, <1>4, <1>5 DEF LineOK, Lines

(* A client that awaits a new line.                                        *)
Hears(c) == Sane(c) /\ c.tail = <<>> /\ c.text \in BlockTexts

LEMMA ReceiveText ==
  ASSUME NEW c, Hears(c), NEW l, LineOK(l)
  PROVE  Hears(Receive(c, l)) /\ Receive(c, l).text = Heard(c.text, l)
<1>1. Sane(Receive(c, l)) /\ Receive(c, l).tail = <<>>
  BY ReceiveTells DEF Hears
<1>2. Receive(c, l) = Take(c, l)
  BY DEF Receive, Hears
<1>3. Receive(c, l).text = Heard(c.text, l)
  BY <1>2, TakeText DEF Hears, Sane
<1> QED
  BY <1>1, <1>3, HeardIs DEF Hears

(* The lines out say t, in block b, or nothing.                            *)
Says(out, b, t) ==
  /\ out \in Seq(GoodLines) /\ t \in Seq(Chars)
  /\ \A c : Hears(c) =>
       Hears(ReceiveAll(c, out)) /\ ReceiveAll(c, out).text = Adds(c.text, b, t)

SaysNothing(out) ==
  /\ out \in Seq(GoodLines)
  /\ \A c : Hears(c) => Hears(ReceiveAll(c, out)) /\ ReceiveAll(c, out).text = c.text

LEMMA SilentSays ==
  ASSUME NEW out \in Seq(SilentLines)
  PROVE  SaysNothing(out)
<1>1. out \in Seq(GoodLines)
  BY DEF SilentLines
<1>2. ASSUME NEW c, Hears(c)
      PROVE  Hears(ReceiveAll(c, out)) /\ ReceiveAll(c, out).text = c.text
  <2>0. Len(out) \in Nat /\ \A n \in 1 .. Len(out) : LineOK(out[n]) /\ ~Speaks(out[n])
    BY DEF SilentLines, GoodLines
  <2>1. PICK f : IsCourse(f, c, out, Len(out))
    BY <2>0, CourseExists
  <2>2. /\ f[0] = c
        /\ \A n \in 1 .. Len(out) : f[n] = Receive(f[n - 1], out[n])
    BY <2>0, <2>1 DEF IsCourse
  <2> DEFINE A == {n \in Nat : n <= Len(out) => Hears(f[n]) /\ f[n].text = c.text}
  <2>3. 0 \in A
    BY <1>2, <2>2
  <2>4. ASSUME NEW n \in Nat, n \in A PROVE n + 1 \in A
    <3> SUFFICES ASSUME n + 1 <= Len(out)
                 PROVE  Hears(f[n + 1]) /\ f[n + 1].text = c.text
      OBVIOUS
    <3>1. n + 1 \in 1 .. Len(out) /\ (n + 1) - 1 = n
      BY <2>0
    <3>2. Hears(f[n]) /\ f[n].text = c.text
      BY <2>0, <2>4
    <3>3. f[n + 1] = Receive(f[n], out[n + 1])
      BY <2>2, <3>1
    <3>4. Hears(f[n + 1]) /\ f[n + 1].text = Heard(f[n].text, out[n + 1])
      BY <2>0, <3>1, <3>2, <3>3, ReceiveText
    <3>5. Heard(f[n].text, out[n + 1]) = f[n].text
      BY <2>0, <3>1, <3>2, HeardIs DEF Hears
    <3> QED
      BY <3>2, <3>4, <3>5
  <2>5. Len(out) \in A
    <3> HIDE DEF A
    <3> QED
      BY <2>0, <2>3, <2>4, SetOfAllNaturals
  <2>6. ReceiveAll(c, out) = f[Len(out)]
    BY <2>0, <2>1, ReceiveAllIs
  <2> QED
    BY <2>0, <2>5, <2>6
<1> QED
  BY <1>1, <1>2 DEF SaysNothing

LEMMA OneSays ==
  ASSUME NEW l, LineOK(l), Speaks(l)
  PROVE  Says(<<l>>, l.idx, l.text)
<1>1. <<l>> \in Seq(GoodLines)
  BY DEF LineOK, GoodLines
<1>2. l.text \in Seq(Chars)
  BY DEF LineOK, Speaks, Speaking
<1>3. ASSUME NEW c, Hears(c)
      PROVE  /\ Hears(ReceiveAll(c, <<l>>))
             /\ ReceiveAll(c, <<l>>).text = Adds(c.text, l.idx, l.text)
  <2>1. ReceiveAll(c, <<l>>) = Receive(c, l)
    BY ReceiveOne
  <2>2. Hears(Receive(c, l)) /\ Receive(c, l).text = Heard(c.text, l)
    BY <1>3, ReceiveText
  <2>3. Heard(c.text, l) = Adds(c.text, l.idx, l.text)
    BY <1>3, HeardIs DEF Hears
  <2> QED
    BY <2>1, <2>2, <2>3
<1> QED
  BY <1>1, <1>2, <1>3 DEF Says

LEMMA SaysAfter ==
  ASSUME NEW p, SaysNothing(p), NEW b, NEW t, NEW q, Says(q, b, t)
  PROVE  Says(p \o q, b, t)
<1>1. p \in Seq(GoodLines) /\ q \in Seq(GoodLines)
  BY DEF Says, SaysNothing
<1>2. p \o q \in Seq(GoodLines) /\ \A c : ReceiveAll(c, p \o q) = ReceiveAll(ReceiveAll(c, p), q)
  BY <1>1, ReceiveMore
<1> QED
  BY <1>2 DEF Says, SaysNothing

LEMMA SaysBefore ==
  ASSUME NEW p, SaysNothing(p), NEW b, NEW t, NEW q, Says(q, b, t)
  PROVE  Says(q \o p, b, t)
<1>1. p \in Seq(GoodLines) /\ q \in Seq(GoodLines)
  BY DEF Says, SaysNothing
<1>2. q \o p \in Seq(GoodLines) /\ \A c : ReceiveAll(c, q \o p) = ReceiveAll(ReceiveAll(c, q), p)
  BY <1>1, ReceiveMore
<1> QED
  BY <1>2 DEF Says, SaysNothing

LEMMA NothingTwice ==
  ASSUME NEW p, SaysNothing(p), NEW q, SaysNothing(q)
  PROVE  SaysNothing(p \o q)
<1>1. p \in Seq(GoodLines) /\ q \in Seq(GoodLines)
  BY DEF SaysNothing
<1>2. p \o q \in Seq(GoodLines) /\ \A c : ReceiveAll(c, p \o q) = ReceiveAll(ReceiveAll(c, p), q)
  BY <1>1, ReceiveMore
<1> QED
  BY <1>2 DEF SaysNothing

(* To say an empty text is to say nothing.                                 *)
LEMMA EmptySays ==
  ASSUME NEW out, NEW b, NEW t, t = <<>>
  PROVE  Says(out, b, t) <=> SaysNothing(out)
<1>1. t \in Seq(Chars)
  OBVIOUS
<1>2. \A x \in BlockTexts : Adds(x, b, t) = x
  BY <1>1, AddsIs
<1> QED
  BY <1>1, <1>2 DEF Says, SaysNothing, Hears

-----------------------------------------------------------------------------
(* What the made-up events say.                                            *)

LEMMA SilentMade ==
  /\ Blank \in SilentLines /\ Junk \in SilentLines
  /\ \A y \in Types : EventLine(y) \in SilentLines
  /\ \A i \in Int : DataLine("stop", i, NoText) \in SilentLines
  /\ \A r \in Reasons : DataLine("mdelta", 0, <<r>>) \in SilentLines
  /\ DataLine("mstop", 0, NoText) \in SilentLines
  /\ Done \in SilentLines
<1>1. {"stop", "mdelta", "mstop", "done"} \subseteq Types /\ 0 \in Int /\ NoText \in Payloads
  BY NoTextIs DEF Types
<1>2. \A l \in GoodLines : l.k # "data" \/ l.type \notin Speaking => l \in SilentLines
  BY DEF SilentLines, Speaks
<1>3. Blank \in SilentLines /\ Junk \in SilentLines
  BY <1>2, BlankIs DEF QuietLines
<1>4. \A y \in Types : EventLine(y) \in SilentLines
  BY <1>2, EventLineIs DEF QuietLines
<1>5. ASSUME NEW y \in Types, y \notin Speaking, NEW i \in Int, NEW s \in Payloads,
             DataLine(y, i, s) \in GoodLines
      PROVE  DataLine(y, i, s) \in SilentLines
  BY <1>2, <1>5, DataLineReads DEF Reads
<1>6. \A i \in Int : DataLine("stop", i, NoText) \in SilentLines
  BY <1>1, <1>5, MadeLines DEF Speaking
<1>7. \A r \in Reasons : DataLine("mdelta", 0, <<r>>) \in SilentLines
  BY <1>1, <1>5, MadeLines DEF Speaking, Payloads
<1>8. DataLine("mstop", 0, NoText) \in SilentLines
  BY <1>1, <1>5, MadeLines DEF Speaking
<1>9. Done \in SilentLines
  BY <1>1, <1>5, MadeLines DEF Speaking, Done
<1> QED
  BY <1>3, <1>4, <1>6, <1>7, <1>8, <1>9

LEMMA SilentEvents ==
  /\ \A i \in Int : BlockStop(i) \in Seq(SilentLines)
  /\ MessageStopOnly \in Seq(SilentLines)
  /\ \A r \in Reasons : MessageStop(r) \in Seq(SilentLines)
  /\ <<Done, Blank>> \in Seq(SilentLines)
<1>1. {"stop", "mdelta", "mstop"} \subseteq Types
  BY DEF Types
<1>2. ASSUME NEW i \in Int PROVE BlockStop(i) \in Seq(SilentLines)
  BY <1>1, SilentMade DEF BlockStop
<1>3. MessageStopOnly \in Seq(SilentLines)
  BY <1>1, SilentMade DEF MessageStopOnly
<1>4. ASSUME NEW r \in Reasons PROVE MessageStop(r) \in Seq(SilentLines)
  <2> DEFINE p == <<EventLine("mdelta"), DataLine("mdelta", 0, <<r>>), Blank>>
  <2>1. p \in Seq(SilentLines)
    BY <1>1, SilentMade
  <2>2. MessageStop(r) = p \o MessageStopOnly
    BY DEF MessageStop
  <2> HIDE DEF p
  <2> QED
    BY <1>3, <2>1, <2>2
<1>5. <<Done, Blank>> \in Seq(SilentLines)
  BY SilentMade
<1> QED
  BY <1>2, <1>3, <1>4, <1>5

LEMMA ClosingSilent ==
  ASSUME NEW S \in SUBSET Blocks
  PROVE  Closing(S) \in Seq(SilentLines)
<1> DEFINE N == Cardinality(Blocks)
           upto[n \in 0 .. N] ==
             IF n = 0 THEN <<>>
             ELSE upto[n - 1] \o (IF n - 1 \in S THEN BlockStop(n - 1) ELSE <<>>)
<1>0. N \in Nat /\ Blocks = 0 .. N - 1
  BY StreamAssumption, FS_CardinalityType
<1>1. Closing(S) = upto[N]
  BY DEF Closing
<1>2. upto = CHOOSE f : f = [n \in 0 .. N |->
                IF n = 0 THEN <<>>
                ELSE f[n - 1] \o (IF n - 1 \in S THEN BlockStop(n - 1) ELSE <<>>)]
  BY DEF upto
<1> HIDE DEF upto, N
<1>3. IsClosing(upto, S, N)
  <2>1. PICK f : IsClosing(f, S, N)
    BY <1>0, ClosingExists
  <2> QED
    BY <1>2, <2>1 DEF IsClosing, StopOf
<1>4. /\ upto[0] = <<>>
      /\ \A n \in 1 .. N : upto[n] = upto[n - 1] \o StopOf(S, n)
  <2>1. \A n \in 0 .. N : upto[n] = IF n = 0 THEN <<>> ELSE upto[n - 1] \o StopOf(S, n)
    BY <1>3 DEF IsClosing
  <2>2. 0 \in 0 .. N /\ \A n \in 1 .. N : n \in 0 .. N /\ n # 0
    BY <1>0
  <2> QED
    BY <2>1, <2>2
<1> DEFINE A == {n \in Nat : n <= N => upto[n] \in Seq(SilentLines)}
<1>5. 0 \in A
  <2>1. <<>> \in Seq(SilentLines)
    OBVIOUS
  <2>2. upto[0] \in Seq(SilentLines)
    BY <1>4, <2>1
  <2> QED
    BY <2>2
<1>6. ASSUME NEW n \in Nat, n \in A PROVE n + 1 \in A
  <2> SUFFICES ASSUME n + 1 <= N PROVE upto[n + 1] \in Seq(SilentLines)
    OBVIOUS
  <2>1. upto[n] \in Seq(SilentLines) /\ n \in Int /\ n + 1 \in 1 .. N /\ (n + 1) - 1 = n
    BY <1>0, <1>6
  <2>2. upto[n + 1] = upto[n] \o StopOf(S, n + 1)
    BY <1>4, <2>1
  <2>3. StopOf(S, n + 1) \in Seq(SilentLines)
    <3>1. BlockStop(n) \in Seq(SilentLines)
      BY <2>1, SilentEvents
    <3> QED
      BY <2>1, <3>1 DEF StopOf
  <2> QED
    BY <2>1, <2>2, <2>3
<1>7. N \in A
  <2> HIDE DEF A
  <2> QED
    BY <1>0, <1>5, <1>6, SetOfAllNaturals
<1> QED
  BY <1>0, <1>1, <1>7

LEMMA NothingSaid ==
  ASSUME NEW e, e = <<>>
  PROVE  SaysNothing(e)
<1>1. e \in Seq(SilentLines)
  OBVIOUS
<1> QED
  BY <1>1, SilentSays

(* A data line with a text.                                                *)
LEMMA TextLineSays ==
  ASSUME NEW y \in {"delta", "chunk"}, NEW i \in Int, NEW s \in Seq(Chars)
  PROVE  Says(<<DataLine(y, i, s)>>, i, s)
<1> DEFINE l == DataLine(y, i, s)
<1>1. y \in Types /\ s \in Payloads
  BY DEF Payloads, Types
<1>2. Reads(l, "data", y, i, s)
  BY <1>1, DataLineReads
<1>3. LineOK(l)
  BY MadeLines, <1>2 DEF LineOK, Reads
<1>4. s # NoText
  BY StreamAssumption
<1> HIDE DEF l
<1>5. Speaks(l) /\ l.idx = i /\ l.text = s
  BY <1>2, <1>4 DEF Reads, Speaks, Speaking
<1>6. Says(<<l>>, i, s)
  BY <1>3, <1>5, OneSays
<1> QED
  BY <1>6 DEF l

LEMMA EmitTextSays ==
  ASSUME NEW i \in Int, NEW s \in Seq(Chars)
  PROVE  Says(EmitText(i, s), i, s)
<1>1. CASE s = <<>>
  <2>1. EmitText(i, s) = <<>>
    BY <1>1 DEF EmitText
  <2> QED
    BY <1>1, <2>1, NothingSaid, EmptySays
<1>2. CASE s # <<>>
  <2> DEFINE e == EventLine("delta")
             d == DataLine("delta", i, s)
  <2>0. e \in GoodLines /\ d \in GoodLines /\ Blank \in GoodLines
    BY EventLineIs, MadeLines, BlankIs DEF Types, QuietLines
  <2>1. EmitText(i, s) = <<e, d, Blank>>
    BY <1>2 DEF EmitText
  <2>2. SaysNothing(<<e>>) /\ SaysNothing(<<Blank>>)
    <3>1. <<e>> \in Seq(SilentLines) /\ <<Blank>> \in Seq(SilentLines)
      BY SilentMade DEF Types
    <3> QED
      BY <3>1, SilentSays
  <2>3. Says(<<d>>, i, s)
    BY TextLineSays
  <2> HIDE DEF e, d
  <2>4. <<d>> \o <<Blank>> = <<d, Blank>>
    BY <2>0, OneAndOne
  <2>5. Says(<<d, Blank>>, i, s)
    BY <2>2, <2>3, <2>4, SaysBefore
  <2>6. <<e>> \o <<d, Blank>> = <<e, d, Blank>>
    BY <2>0, OneAndTwo
  <2>7. Says(<<e, d, Blank>>, i, s)
    BY <2>2, <2>5, <2>6, SaysAfter
  <2> QED
    BY <2>1, <2>7
<1> QED
  BY <1>1, <1>2

LEMMA FlushChunkSays ==
  ASSUME NEW s \in Seq(Chars)
  PROVE  Says(FlushChunk(s), 0, s)
<1>1. CASE s = <<>>
  <2>1. FlushChunk(s) = <<>>
    BY <1>1 DEF FlushChunk
  <2> QED
    BY <1>1, <2>1, NothingSaid, EmptySays
<1>2. CASE s # <<>>
  <2> DEFINE d == DataLine("chunk", 0, s)
  <2>0. d \in GoodLines /\ Blank \in GoodLines
    BY MadeLines, BlankIs DEF QuietLines
  <2>1. FlushChunk(s) = <<d, Blank>>
    BY <1>2 DEF FlushChunk
  <2>2. SaysNothing(<<Blank>>)
    <3>1. <<Blank>> \in Seq(SilentLines)
      BY SilentMade
    <3> QED
      BY <3>1, SilentSays
  <2>3. 0 \in Int
    OBVIOUS
  <2>4. Says(<<d>>, 0, s)
    BY <2>3, TextLineSays
  <2> HIDE DEF d
  <2>5. <<d>> \o <<Blank>> = <<d, Blank>>
    BY <2>0, OneAndOne
  <2>6. Says(<<d, Blank>>, 0, s)
    BY <2>2, <2>4, <2>5, SaysBefore
  <2> QED
    BY <2>1, <2>6
<1> QED
  BY <1>1, <1>2

-----------------------------------------------------------------------------
(* What has been shown of the texts while p is held back of block at.  The *)
(* blocks in W may still go on.                                            *)

HeldOf(p, at, b) == IF b = at THEN p ELSE <<>>

Stands(p, at, s, x, W) ==
  /\ s \in BlockTexts /\ x \in BlockTexts /\ p \in Seq(Chars)
  /\ \A b \in Blocks : s[b] = x[b] \o HeldOf(p, at, b) /\ ~HasStop(s[b])
  /\ \A b \in W : Waits(x[b], p) /\ (p # <<>> => at = b)

(* Only the last block may go on.                                          *)
Frontier(W, s) ==
  /\ W \subseteq Blocks
  /\ \A a \in W : (\A b \in W : b = a) /\ \A b \in Blocks : b > a => s[b] = <<>>

(* Block a had a word, and nothing behind it was shown.                    *)
CutShortAt(a, s, x, W) ==
  /\ HasStop(s[a]) /\ CutOf(x[a], s[a])
  /\ \A b \in Blocks : b < a => x[b] = s[b] /\ ~HasStop(s[b])
  /\ \A b \in Blocks : b > a => x[b] = <<>>
  /\ \A b \in W : b >= a

CutShort(s, x, W) ==
  /\ s \in BlockTexts /\ x \in BlockTexts
  /\ \E a \in Blocks : CutShortAt(a, s, x, W)

LEMMA NothingLeft ==
  ASSUME NEW s \in Seq(Chars), NEW t \in Seq(Chars), s \o t = <<>>
  PROVE  s = <<>>
<1>1. Len(s \o t) = Len(s) + Len(t) /\ Len(s) \in Nat /\ Len(t) \in Nat
  OBVIOUS
<1>2. Len(s \o t) = 0
  <2>1. \A v : v = <<>> => Len(v) = 0
    OBVIOUS
  <2> QED
    BY <2>1
<1>3. Len(s) = 0
  BY <1>1, <1>2
<1> QED
  BY <1>3

(* A text arrives in a block that goes on.                                 *)
LEMMA Arrives ==
  ASSUME NEW p, NEW at, NEW s, NEW x, NEW W, Stands(p, at, s, x, W), Frontier(W, s),
         NEW a \in W, NEW t \in Seq(Chars), NEW z, z = p \o t
  PROVE  /\ z \in Seq(Chars)
         /\ HasStop(z) => CutShort(Adds(s, a, t), Adds(x, a, Clean(z)), W)
         /\ ~HasStop(z) =>
              /\ Stands(HeldBack(z), a, Adds(s, a, t), Adds(x, a, Released(z)), W)
              /\ \A e : e = <<>> => Stands(e, a, Adds(s, a, t), Adds(x, a, z), {})
<1>1. /\ s \in BlockTexts /\ x \in BlockTexts /\ p \in Seq(Chars)
      /\ \A b \in Blocks : s[b] = x[b] \o HeldOf(p, at, b) /\ ~HasStop(s[b])
      /\ Waits(x[a], p) /\ (p # <<>> => at = a)
  BY DEF Stands
<1>2. /\ a \in Blocks /\ (\A b \in W : b = a)
      /\ \A b \in Blocks : b > a => s[b] = <<>>
  BY DEF Frontier
<1>3. x[a] \in Seq(Chars) /\ s[a] = x[a] \o p
  <2>1. HeldOf(p, at, a) = p
    BY <1>1 DEF HeldOf
  <2> QED
    BY <1>1, <1>2, <2>1 DEF Waits
<1>4. ASSUME NEW b \in Blocks, b # a PROVE x[b] = s[b] /\ x[b] \in Seq(Chars)
  <2>1. x[b] \in Seq(Chars)
    BY <1>1 DEF BlockTexts
  <2>2. HeldOf(p, at, b) = <<>>
    BY <1>1, <1>4 DEF HeldOf
  <2> QED
    BY <1>1, <2>1, <2>2, NothingJoined
<1>5. z \in Seq(Chars)
  BY <1>1
<1>6. /\ s[a] \o t = x[a] \o z
      /\ HasStop(s[a] \o t) <=> HasStop(z)
      /\ HasStop(z) => Clean(s[a] \o t) = x[a] \o Clean(z)
  <2>1. PICK x1 : x1 = x[a]
    OBVIOUS
  <2>2. Waits(x1, p)
    BY <1>1, <2>1
  <2>3. s[a] = x1 \o p
    BY <1>3, <2>1
  <2>4. ~HasStop(x1 \o p)
    BY <1>1, <1>2, <2>3
  <2>5. /\ (x1 \o p) \o t = x1 \o (p \o t)
        /\ HasStop((x1 \o p) \o t) <=> HasStop(p \o t)
        /\ HasStop(p \o t) => Clean((x1 \o p) \o t) = x1 \o Clean(p \o t)
    BY <2>2, <2>4, Window
  <2> QED
    BY <2>1, <2>3, <2>5
<1> DEFINE s2 == Adds(s, a, t)
<1>7. /\ s2 \in BlockTexts /\ s2[a] = s[a] \o t
      /\ \A b \in Blocks : b # a => s2[b] = s[b]
  BY <1>1, <1>2, AddsIs
<1>8. \A y \in Seq(Chars) :
        /\ Adds(x, a, y) \in BlockTexts /\ Adds(x, a, y)[a] = x[a] \o y
        /\ \A b \in Blocks : b # a => Adds(x, a, y)[b] = x[b]
  BY <1>1, <1>2, AddsIs
<1>9. Clean(z) \in Seq(Chars) /\ Released(z) \in Seq(Chars) /\ HeldBack(z) \in Seq(Chars)
  BY <1>5, TextsStayTexts
<1> HIDE DEF s2
<1>10. ASSUME HasStop(z) PROVE CutShort(s2, Adds(x, a, Clean(z)), W)
  <2>1. PICK x2 : x2 = Adds(x, a, Clean(z))
    OBVIOUS
  <2>2. /\ x2 \in BlockTexts /\ x2[a] = x[a] \o Clean(z)
        /\ \A b \in Blocks : b # a => x2[b] = x[b]
    BY <1>8, <1>9, <2>1
  <2>3. HasStop(s2[a]) /\ CutOf(x2[a], s2[a])
    <3>1. HasStop(s2[a]) /\ x2[a] = Clean(s2[a]) /\ s2[a] \in Seq(Chars)
      BY <1>2, <1>6, <1>7, <1>10, <2>2 DEF BlockTexts
    <3>2. PICK y : y = s2[a]
      OBVIOUS
    <3>3. CutOf(Clean(y), y)
      BY <3>1, <3>2, CleanCuts
    <3> QED
      BY <3>1, <3>2, <3>3
  <2>4. \A b \in Blocks : b \in Int
    BY MadeLines
  <2>5. ASSUME NEW b \in Blocks, b < a PROVE x2[b] = s2[b] /\ ~HasStop(s2[b])
    <3>1. b # a
      BY <1>2, <2>4, <2>5
    <3>2. x2[b] = x[b] /\ s2[b] = s[b] /\ x[b] = s[b]
      BY <1>4, <1>7, <2>2, <3>1
    <3>3. ~HasStop(s[b])
      BY <1>1
    <3> QED
      BY <3>2, <3>3
  <2>6. \A b \in Blocks : b > a => x2[b] = <<>>
    BY <1>2, <1>4, <2>2, <2>4
  <2>7. \A b \in W : b >= a
    BY <1>2, <2>4
  <2>8. CutShortAt(a, s2, x2, W)
    BY <2>3, <2>5, <2>6, <2>7 DEF CutShortAt
  <2> QED
    BY <1>2, <1>7, <2>1, <2>2, <2>8 DEF CutShort
<1>11. ASSUME ~HasStop(z) PROVE \A b \in Blocks : ~HasStop(s2[b])
  BY <1>1, <1>6, <1>7, <1>11
<1>12. ASSUME ~HasStop(z) PROVE Stands(HeldBack(z), a, s2, Adds(x, a, Released(z)), W)
  <2>1. PICK x2 : x2 = Adds(x, a, Released(z))
    OBVIOUS
  <2>2. PICK q : q = HeldBack(z)
    OBVIOUS
  <2>3. /\ x2 \in BlockTexts /\ x2[a] = x[a] \o Released(z)
        /\ \A b \in Blocks : b # a => x2[b] = x[b]
    BY <1>8, <1>9, <2>1
  <2>4. Waits(x2[a], q) /\ x2[a] \o q = (x[a] \o p) \o t
    <3>1. PICK x1 : x1 = x[a]
      OBVIOUS
    <3>2. Waits(x1, p)
      BY <1>1, <3>1
    <3>3. /\ Waits(x1 \o Released(p \o t), HeldBack(p \o t))
          /\ (x1 \o Released(p \o t)) \o HeldBack(p \o t) = (x1 \o p) \o t
      BY <3>2, HeldBackWaits, SMTT(30)
    <3> QED
      BY <2>2, <2>3, <3>1, <3>3
  <2>5. s2[a] = x2[a] \o HeldOf(q, a, a)
    BY <1>3, <1>7, <2>4 DEF HeldOf
  <2>6. ASSUME NEW b \in Blocks, b # a PROVE s2[b] = x2[b] \o HeldOf(q, a, b)
    <3>1. HeldOf(q, a, b) = <<>>
      BY <2>6 DEF HeldOf
    <3> QED
      BY <1>4, <1>7, <2>3, <2>6, <3>1, NothingJoined
  <2>7. \A b \in Blocks : s2[b] = x2[b] \o HeldOf(q, a, b)
    BY <2>5, <2>6
  <2>8. \A b \in W : Waits(x2[b], q) /\ (q # <<>> => a = b)
    BY <1>2, <2>4
  <2>9. Stands(q, a, s2, x2, W)
    BY <1>7, <1>9, <1>11, <1>12, <2>2, <2>3, <2>7, <2>8 DEF Stands
  <2> QED
    BY <2>1, <2>2, <2>9
<1>13. ASSUME ~HasStop(z), NEW e, e = <<>> PROVE Stands(e, a, s2, Adds(x, a, z), {})
  <2>1. PICK x2 : x2 = Adds(x, a, z)
    OBVIOUS
  <2>2. /\ x2 \in BlockTexts /\ x2[a] = x[a] \o z
        /\ \A b \in Blocks : b # a => x2[b] = x[b]
    BY <1>5, <1>8, <2>1
  <2>3. e \in Seq(Chars) /\ \A b : HeldOf(e, a, b) = e
    BY <1>13 DEF HeldOf
  <2>4. \A b \in Blocks : s2[b] = x2[b] /\ x2[b] \in Seq(Chars)
    BY <1>4, <1>6, <1>7, <2>2 DEF BlockTexts
  <2>5. \A b \in Blocks : s2[b] = x2[b] \o HeldOf(e, a, b)
    <3>1. \A b \in Blocks : x2[b] \o e = x2[b]
      BY <1>13, <2>4, NothingJoined
    <3> QED
      BY <2>3, <2>4, <3>1
  <2>6. Stands(e, a, s2, x2, {})
    BY <1>7, <1>11, <1>13, <2>2, <2>3, <2>5 DEF Stands
  <2> QED
    BY <2>1, <2>6
<1> QED
  BY <1>5, <1>10, <1>12, <1>13 DEF s2

(* What was held back is shown.                                            *)
LEMMA FlushStands ==
  ASSUME NEW p, NEW at, NEW s, NEW x, NEW W, Stands(p, at, s, x, W),
         NEW e, e = <<>>, NEW any
  PROVE  /\ Stands(e, any, s, Adds(x, at, p), {})
         /\ p = <<>> => Stands(e, any, s, Adds(x, at, p), W)
<1>1. /\ s \in BlockTexts /\ x \in BlockTexts /\ p \in Seq(Chars)
      /\ \A b \in Blocks : s[b] = x[b] \o HeldOf(p, at, b) /\ ~HasStop(s[b])
      /\ \A b \in W : Waits(x[b], p) /\ (p # <<>> => at = b)
  BY DEF Stands
<1>2. PICK x2 : x2 = Adds(x, at, p)
  OBVIOUS
<1>3. /\ x2 \in BlockTexts
      /\ at \in Blocks => x2[at] = x[at] \o p
      /\ \A b \in Blocks : b # at => x2[b] = x[b]
      /\ p = <<>> => x2 = x
  BY <1>1, <1>2, AddsIs
<1>4. e \in Seq(Chars) /\ \A b : HeldOf(e, any, b) = e
  BY DEF HeldOf
<1>5. ASSUME NEW b \in Blocks PROVE s[b] = x2[b] \o HeldOf(e, any, b)
  <2>1. x[b] \in Seq(Chars) /\ x2[b] \in Seq(Chars)
    BY <1>1, <1>3 DEF BlockTexts
  <2>2. s[b] = x2[b]
    <3>1. CASE b = at
      BY <1>1, <1>3, <3>1 DEF HeldOf
    <3>2. CASE b # at
      <4>1. HeldOf(p, at, b) = <<>>
        BY <3>2 DEF HeldOf
      <4> QED
        BY <1>1, <1>3, <2>1, <3>2, <4>1, NothingJoined
    <3> QED
      BY <3>1, <3>2
  <2>3. x2[b] \o e = x2[b]
    BY <2>1, NothingJoined
  <2> QED
    BY <1>4, <2>2, <2>3
<1>6. Stands(e, any, s, x2, {})
  BY <1>1, <1>3, <1>4, <1>5 DEF Stands
<1>7. ASSUME p = <<>> PROVE Stands(e, any, s, x2, W)
  <2>1. e = p /\ x2 = x
    BY <1>3, <1>7
  <2>2. \A b \in W : Waits(x2[b], e) /\ (e # <<>> => any = b)
    BY <1>1, <2>1
  <2> QED
    BY <1>1, <1>3, <1>4, <1>5, <2>2 DEF Stands
<1> QED
  BY <1>2, <1>6, <1>7

-----------------------------------------------------------------------------
(* What a guard says of one line.                                          *)

At(h) == IF proto = "anthropic" THEN h.textIdx ELSE 0

(* An event line that is held says nothing, and a text that is held back   *)
(* can still be emitted.                                                   *)
HeldSilent(h) == proto = "anthropic" => h.held \in Seq(SilentLines)
Emits(h) == proto = "anthropic" /\ h.pend # <<>> => h.pendActive /\ h.textIdx \in h.open

(* The lines before which a text that is held back must be out.            *)
Settles(l) ==
  /\ l.k = "data"
  /\ IF proto = "anthropic" THEN l.type \in Border ELSE l.whole /\ l.type \in {"finish", "done"}

Utters(h, l, r) ==
  IF Speaks(l)
  THEN LET z == h.pend \o l.text
       IN  \/ HasStop(z) /\ r.g.done /\ Says(r.out, l.idx, Clean(z))
           \/ /\ ~HasStop(z) /\ ~r.g.done /\ ~Settles(l) /\ r.g.pend = HeldBack(z)
              /\ At(r.g) = l.idx /\ HeldSilent(r.g) /\ Emits(r.g)
              /\ Says(r.out, l.idx, Released(z))
           \/ /\ ~HasStop(z) /\ ~r.g.done /\ Settles(l) /\ r.g.pend = <<>>
              /\ HeldSilent(r.g) /\ Emits(r.g) /\ Says(r.out, l.idx, z)
  ELSE /\ ~r.g.done /\ HeldSilent(r.g) /\ Emits(r.g)
       /\ \/ r.g.pend = h.pend /\ At(r.g) = At(h) /\ SaysNothing(r.out)
          \/ Settles(l) /\ r.g.pend = <<>> /\ Says(r.out, At(h), h.pend)

LEMMA SilentLast ==
  ASSUME NEW q \in Seq(SilentLines), NEW l, LineOK(l), ~Speaks(l)
  PROVE  SaysNothing(q \o <<l>>)
<1>1. l \in SilentLines
  BY DEF SilentLines, GoodLines, LineOK
<1>2. <<l>> \in Seq(SilentLines)
  BY <1>1
<1>3. q \o <<l>> \in Seq(SilentLines)
  BY <1>2
<1> QED
  BY <1>3, SilentSays

LEMMA TrimDeltaUtters ==
  ASSUME proto = "anthropic", trim, NEW h, GuardOK(h), ~h.done, HeldSilent(h), Emits(h),
         NEW l, StreamLine(l), l.k = "data", l.type = "delta",
         Speaks(l) => l.idx \in h.open,
         NEW r, r = TrimDelta(h, l)
  PROVE  Utters(h, l, r)
<1>1. h \in AnthropicGuards /\ h.pend \in Seq(Chars) /\ h.held \in Seq(SilentLines)
      /\ LineOK(l) /\ l \in Lines /\ l.idx \in Int
  BY DEF GuardOK, AnthropicGuards, StreamLine, GoodLines, Lines, HeldSilent
<1> DEFINE z == h.pend \o l.text
           h1 == [h EXCEPT !.held = <<>>, !.textIdx = l.idx, !.pendActive = TRUE]
<1>2. ~Settles(l)
  BY DEF Settles, Border
<1>3. CASE ~Speaks(l)
  <2>1. ~l.whole \/ l.text = NoText
    BY <1>3 DEF Speaks, Speaking
  <2> DEFINE n == [h EXCEPT !.held = <<>>]
  <2>2. r = Result(n, h.held \o <<l>>)
    BY <2>1 DEF TrimDelta
  <2>3. n.pend = h.pend /\ n.done = h.done /\ n.textIdx = h.textIdx /\ n.open = h.open
        /\ n.pendActive = h.pendActive /\ n.held = <<>>
    BY <1>1 DEF AnthropicGuards
  <2> HIDE DEF n
  <2>4. SaysNothing(h.held \o <<l>>)
    BY <1>1, <1>3, SilentLast
  <2>5. n.held \in Seq(SilentLines)
    BY <2>3
  <2>6. HeldSilent(n) /\ Emits(n) /\ At(n) = At(h)
    BY <2>3, <2>5 DEF HeldSilent, Emits, At
  <2> QED
    BY <1>3, <2>2, <2>3, <2>4, <2>6 DEF Utters, Result
<1>4. CASE Speaks(l)
  <2>1. ~(~l.whole \/ l.text = NoText)
    BY <1>4 DEF Speaks
  <2>2. l.text \in Seq(Chars) /\ l.idx \in h.open
    BY <1>1, <1>4 DEF LineOK, Speaks
  <2>3. z \in Seq(Chars)
    BY <1>1, <2>2
  <2>4. CASE HasStop(z)
    <3> DEFINE e == EmitText(l.idx, Clean(z))
               b == BlockStop(l.idx)
               m == MessageStop("stop_sequence")
    <3>1. r = Result(StopHit(h1), (e \o b) \o m)
      BY <2>1, <2>4 DEF TrimDelta
    <3>2. StopHit(h1).done = TRUE
      BY <1>1 DEF StopHit, AnthropicGuards
    <3> HIDE DEF h1, z
    <3>3. Says(e, l.idx, Clean(z))
      BY <1>1, <2>3, TextsStayTexts, EmitTextSays
    <3>4. SaysNothing(b) /\ SaysNothing(m)
      <4>1. "stop_sequence" \in Reasons
        BY DEF Reasons, Closed!Reasons
      <4>2. b \in Seq(SilentLines) /\ m \in Seq(SilentLines)
        BY <1>1, <4>1, SilentEvents
      <4> QED
        BY <4>2, SilentSays
    <3> HIDE DEF e, b, m
    <3>5. Says((e \o b) \o m, l.idx, Clean(z))
      BY <3>3, <3>4, SaysBefore
    <3>6. r.g.done = TRUE /\ r.out = (e \o b) \o m
      BY <3>1, <3>2 DEF Result
    <3> QED
      BY <1>4, <2>4, <3>5, <3>6 DEF Utters, z
  <2>5. CASE ~HasStop(z)
    <3> DEFINE n == [h1 EXCEPT !.pend = HeldBack(z)]
    <3>1. r = Result(n, EmitText(l.idx, Released(z)))
      BY <2>1, <2>5 DEF TrimDelta
    <3>2. n.pend = HeldBack(z) /\ n.done = h.done /\ n.textIdx = l.idx /\ n.open = h.open
          /\ n.pendActive = TRUE /\ n.held = <<>>
      BY <1>1 DEF AnthropicGuards
    <3> HIDE DEF h1, n, z
    <3>3. Says(EmitText(l.idx, Released(z)), l.idx, Released(z))
      BY <1>1, <2>3, TextsStayTexts, EmitTextSays
    <3>4. n.held \in Seq(SilentLines)
      BY <3>2
    <3>5. HeldSilent(n) /\ Emits(n) /\ At(n) = l.idx
      BY <2>2, <3>2, <3>4 DEF HeldSilent, Emits, At
    <3>6. r.g = n /\ r.out = EmitText(l.idx, Released(z))
      BY <3>1 DEF Result
    <3> QED
      BY <1>2, <1>4, <2>5, <3>2, <3>3, <3>5, <3>6 DEF Utters, z
  <2> QED
    BY <2>4, <2>5
<1> QED
  BY <1>3, <1>4

LEMMA TrimLineUtters ==
  ASSUME proto = "anthropic", trim, NEW h, GuardOK(h), ~h.done, HeldSilent(h), Emits(h),
         NEW l, StreamLine(l), Speaks(l) => l.idx \in h.open,
         NEW r, r = TrimLine(h, l)
  PROVE  Utters(h, l, r)
<1>1. h \in AnthropicGuards /\ h.pend \in Seq(Chars) /\ h.held \in Seq(SilentLines)
      /\ h.textIdx \in Int /\ LineOK(l) /\ l \in Lines
      /\ (l.k = "data" => l.type \in {"start", "delta", "stop", "mdelta", "mstop",
                                      "error", "noise", "cut"})
  BY DEF GuardOK, AnthropicGuards, StreamLine, GoodLines, HeldSilent, DataTypes
<1>2. ASSUME l.k # "data" \/ l.type # "delta" PROVE ~Speaks(l) /\ l \in SilentLines
  BY <1>1, <1>2 DEF Speaks, Speaking, SilentLines, GoodLines
<1> DEFINE n == [h EXCEPT !.held = <<>>]
<1>3. n.pend = h.pend /\ n.done = h.done /\ n.textIdx = h.textIdx /\ n.open = h.open
      /\ n.pendActive = h.pendActive /\ n.held = <<>> /\ n \in AnthropicGuards
  <2>1. n \in AnthropicGuards
    BY <1>1, GuardsSet, NoneOfAny
  <2> QED
    BY <1>1, <2>1 DEF AnthropicGuards
<1>4. <<>> \in Seq(SilentLines)
  OBVIOUS
<1>5. CASE l.type = "delta" /\ l.k = "data"
  <2>1. r = TrimDelta(h, l)
    BY <1>5 DEF TrimLine
  <2> QED
    BY <1>5, <2>1, TrimDeltaUtters
<1>6. CASE l.type = "delta" /\ l.k = "event"
  <2> DEFINE m == [h EXCEPT !.held = <<l>>]
  <2>1. r.g = m /\ r.out = <<>>
    BY <1>6 DEF TrimLine, Result
  <2>2. m.pend = h.pend /\ m.done = h.done /\ m.textIdx = h.textIdx /\ m.open = h.open
        /\ m.pendActive = h.pendActive /\ m.held = <<l>>
    BY <1>1 DEF AnthropicGuards
  <2> HIDE DEF m
  <2>3. m.held \in Seq(SilentLines)
    BY <1>2, <1>6, <2>2
  <2>4. HeldSilent(m) /\ Emits(m) /\ At(m) = At(h)
    BY <2>2, <2>3 DEF HeldSilent, Emits, At
  <2>5. SaysNothing(r.out)
    BY <2>1, NothingSaid
  <2> QED
    BY <1>2, <1>6, <2>1, <2>2, <2>4, <2>5 DEF Utters
<1>7. CASE l.k = "data" /\ l.type \in Border
  <2> DEFINE f == Flushed(n)
  <2>1. r.g = Scan(f, l) /\ r.out = (h.held \o Pending(n)) \o <<l>>
    BY <1>7 DEF TrimLine, Result, Border
  <2>2. f \in AnthropicGuards /\ f.pend = <<>> /\ f.done = h.done /\ f.held = <<>>
    <3> HIDE DEF n
    <3>1. f \in AnthropicGuards
      BY <1>3, GuardsSet, NoneOfAny DEF Flushed
    <3> QED
      BY <1>3, <3>1 DEF AnthropicGuards, Flushed
  <2> HIDE DEF n, f
  <2>3. Scan(f, l).pend = <<>> /\ Scan(f, l).done = h.done /\ Scan(f, l).held = <<>>
    BY <2>2, ScanFollows
  <2>4. HeldSilent(r.g) /\ Emits(r.g)
    <3>1. r.g.held \in Seq(SilentLines)
      BY <1>4, <2>1, <2>3
    <3> QED
      BY <2>1, <2>3, <3>1 DEF HeldSilent, Emits
  <2>5. Says(Pending(n), h.textIdx, h.pend)
    <3>1. CASE h.pend = <<>>
      <4>1. Pending(n) = <<>>
        BY <1>3, <3>1 DEF Pending, EmitText
      <4> QED
        BY <3>1, <4>1, NothingSaid, EmptySays
    <3>2. CASE h.pend # <<>>
      <4>1. Pending(n) = EmitText(h.textIdx, h.pend)
        BY <1>3, <3>2 DEF Pending, Emits
      <4> QED
        BY <1>1, <4>1, EmitTextSays
    <3> QED
      BY <3>1, <3>2
  <2>6. SaysNothing(h.held) /\ SaysNothing(<<l>>)
    <3>1. l \in SilentLines
      BY <1>2, <1>7 DEF Border
    <3>2. <<l>> \in Seq(SilentLines)
      BY <3>1
    <3> QED
      BY <1>1, <3>2, SilentSays
  <2>7. Says((h.held \o Pending(n)) \o <<l>>, h.textIdx, h.pend)
    <3>1. Says(h.held \o Pending(n), h.textIdx, h.pend)
      BY <2>5, <2>6, SaysAfter
    <3> QED
      BY <2>6, <3>1, SaysBefore
  <2>8. Settles(l) /\ ~Speaks(l) /\ At(h) = h.textIdx
    BY <1>2, <1>7 DEF Settles, Border, At
  <2> QED
    BY <2>1, <2>3, <2>4, <2>7, <2>8 DEF Utters
<1>8. CASE ~(l.type = "delta" /\ l.k \in {"event", "data"}) /\ ~(l.k = "data" /\ l.type \in Border)
  <2>1. r.g = n /\ r.out = h.held \o <<l>>
    BY <1>8 DEF TrimLine, Result
  <2>2. ~Speaks(l)
    BY <1>2, <1>8
  <2> HIDE DEF n
  <2>3. SaysNothing(h.held \o <<l>>)
    BY <1>1, <2>2, SilentLast
  <2>4. HeldSilent(n) /\ Emits(n) /\ At(n) = At(h)
    <3>1. n.held \in Seq(SilentLines)
      BY <1>3, <1>4
    <3> QED
      BY <1>3, <3>1 DEF HeldSilent, Emits, At
  <2> QED
    BY <1>3, <2>1, <2>2, <2>3, <2>4 DEF Utters
<1> QED
  BY <1>5, <1>6, <1>7, <1>8

(* A chunk with another text, or none.                                     *)
LEMMA ChunkSays ==
  ASSUME NEW l, LineOK(l), l.k = "data", l.whole, l.type \in {"chunk", "finish"},
         NEW y \in {"chunk", "finish"}, NEW t \in Seq(Chars)
  PROVE  Says(<<Recast(l, y, t)>>, l.idx, t)
<1> DEFINE m == Recast(l, y, t)
<1>1. l \in Lines /\ y \in Types /\ t \in Payloads /\ t # NoText
  BY StreamAssumption DEF LineOK, Types, Payloads
<1>2. m \in Lines /\ m.k = "data" /\ m.type = y /\ m.whole /\ m.text = t
  BY <1>1, RecastIs
<1>3. m.idx = l.idx
  BY <1>1 DEF Lines, Recast
<1> HIDE DEF m
<1>4. LineOK(m) /\ Speaks(m)
  BY <1>1, <1>2 DEF LineOK, Speaks, Speaking
<1>5. Says(<<m>>, m.idx, m.text)
  BY <1>4, OneSays
<1> QED
  BY <1>2, <1>3, <1>5 DEF m

LEMMA TrimLineOUtters ==
  ASSUME proto = "openai", trim, NEW h, GuardOK(h), ~h.done, ~HasStop(h.pend),
         NEW l, StreamLine(l),
         l.k = "data" /\ l.whole /\ l.type \in {"chunk", "finish"} => l.idx = 0,
         NEW r, r = TrimLineO(h, l)
  PROVE  Utters(h, l, r)
<1>1. h \in OpenAIGuards /\ h.pend \in Seq(Chars) /\ LineOK(l) /\ l \in Lines
      /\ (l.k = "data" => l.type \in {"chunk", "finish", "done", "noise", "cut"})
  BY DEF GuardOK, OpenAIGuards, StreamLine, GoodLines, DataTypes
<1>2. \A n : HeldSilent(n) /\ Emits(n) /\ At(n) = 0
  BY DEF HeldSilent, Emits, At
<1>3. Reads(Done, "data", "done", 0, NoText)
  BY DataLineReads, NoTextIs DEF Done, Types
<1>4. CASE IsDoneLine(l)
  <2>1. l.k = "data" /\ l.type = "done" /\ l.whole
    BY <1>3, <1>4 DEF IsDoneLine, Reads
  <2> DEFINE n == [h EXCEPT !.pend = <<>>, !.sawDone = TRUE]
  <2>2. r = Result(n, FlushChunk(h.pend) \o <<l>>)
    BY <1>4 DEF TrimLineO
  <2>3. n.pend = <<>> /\ n.done = h.done
    BY <1>1 DEF OpenAIGuards
  <2> HIDE DEF n
  <2>4. ~Speaks(l) /\ Settles(l)
    BY <2>1 DEF Speaks, Speaking, Settles
  <2>5. SaysNothing(<<l>>)
    <3>1. l \in SilentLines
      BY <1>1, <2>4 DEF SilentLines, GoodLines
    <3>2. <<l>> \in Seq(SilentLines)
      BY <3>1
    <3> QED
      BY <3>2, SilentSays
  <2>6. Says(FlushChunk(h.pend) \o <<l>>, 0, h.pend)
    <3>1. Says(FlushChunk(h.pend), 0, h.pend)
      BY <1>1, FlushChunkSays
    <3> QED
      BY <2>5, <3>1, SaysBefore
  <2> QED
    BY <1>2, <2>2, <2>3, <2>4, <2>6 DEF Utters, Result
<1>5. ASSUME NEW q, q = <<l>>, ~Speaks(l), r = Result(h, q) PROVE Utters(h, l, r)
  <2>1. l \in SilentLines
    BY <1>1, <1>5 DEF SilentLines, GoodLines
  <2>2. q \in Seq(SilentLines)
    BY <1>5, <2>1
  <2>3. SaysNothing(q)
    BY <2>2, SilentSays
  <2>4. r.g = h /\ r.out = q
    BY <1>5 DEF Result
  <2> QED
    BY <1>2, <1>5, <2>3, <2>4 DEF Utters
<1>6. CASE ~IsDoneLine(l) /\ ~(l.k = "data" /\ l.whole /\ l.type \in {"chunk", "finish"})
  <2>1. r = Result(h, <<l>>)
    BY <1>6 DEF TrimLineO
  <2>2. ~Speaks(l)
    BY <1>1, <1>6 DEF Speaks, Speaking
  <2> QED
    BY <1>5, <2>1, <2>2
<1>7. CASE ~IsDoneLine(l) /\ l.k = "data" /\ l.whole /\ l.type \in {"chunk", "finish"}
  <2> DEFINE z == IF l.text = NoText THEN h.pend ELSE h.pend \o l.text
  <2>1. r = TrimChunk(h, l)
    BY <1>7 DEF TrimLineO
  <2>2. Speaks(l) <=> l.text # NoText
    BY <1>7 DEF Speaks, Speaking
  <2>3. l.idx = 0 /\ (l.text # NoText => l.text \in Seq(Chars))
    BY <1>1, <1>7 DEF LineOK
  <2>4. z \in Seq(Chars)
    BY <1>1, <2>3
  <2>5. Settles(l) <=> l.type = "finish"
    BY <1>7 DEF Settles
  <2>6. CASE l.text = NoText /\ (l.type = "chunk" \/ h.pend = <<>>)
    <3>1. r = Result(h, <<l>>)
      BY <2>1, <2>6 DEF TrimChunk
    <3> QED
      BY <1>5, <2>2, <2>6, <3>1
  <2>7. CASE ~(l.text = NoText /\ (l.type = "chunk" \/ h.pend = <<>>)) /\ HasStop(z)
    <3>1. r = EmitHit(h, l, Clean(z))
      BY <2>1, <2>7 DEF TrimChunk
    <3>2. l.text # NoText /\ z = h.pend \o l.text
      BY <2>7
    <3> HIDE DEF z
    <3>3. PICK t : t = Clean(z)
      OBVIOUS
    <3>4. t \in Seq(Chars)
      BY <2>4, <3>3, TextsStayTexts
    <3> DEFINE m == Recast(l, "finish", t)
    <3>5. r.g.done = TRUE /\ r.out = <<m, Done, Blank>>
      <4> DEFINE n == [h EXCEPT !.sawDone = TRUE, !.done = TRUE, !.pend = <<>>, !.buffer = <<>>]
      <4>1. r = Result(n, <<m, Done, Blank>>)
        BY <3>1, <3>3 DEF EmitHit, Recast
      <4>2. n.done = TRUE
        BY <1>1 DEF OpenAIGuards
      <4> HIDE DEF n, m
      <4> QED
        BY <4>1, <4>2 DEF Result
    <3>6. Says(<<m>>, l.idx, t)
      BY <1>1, <1>7, <3>4, ChunkSays
    <3>7. <<m>> \o <<Done, Blank>> = <<m, Done, Blank>>
      <4>1. m \in Lines
        BY <1>1, <3>4, RecastIs DEF Types, Payloads
      <4>2. Done \in Lines /\ Blank \in Lines
        BY MadeLines, BlankIs DEF GoodLines, QuietLines
      <4> HIDE DEF m
      <4> QED
        BY <4>1, <4>2, OneAndTwo
    <3> HIDE DEF m
    <3>8. SaysNothing(<<Done, Blank>>)
      BY SilentEvents, SilentSays
    <3>9. Says(r.out, l.idx, t)
      BY <3>5, <3>6, <3>7, <3>8, SaysBefore
    <3> QED
      BY <2>2, <2>7, <3>2, <3>3, <3>5, <3>9 DEF Utters
  <2>8. CASE ~(l.text = NoText /\ (l.type = "chunk" \/ h.pend = <<>>)) /\ ~HasStop(z)
             /\ l.type = "finish"
    <3> DEFINE n == [h EXCEPT !.pend = <<>>]
    <3>1. r = Result(n, <<[l EXCEPT !.text = z]>>)
      BY <2>1, <2>8 DEF TrimChunk
    <3>2. n.pend = <<>> /\ n.done = h.done
      BY <1>1 DEF OpenAIGuards
    <3>3. IF l.text = NoText THEN z = h.pend ELSE z = h.pend \o l.text
      OBVIOUS
    <3> HIDE DEF n, z
    <3>4. [l EXCEPT !.text = z] = Recast(l, "finish", z)
      BY <1>1, <2>8 DEF Recast, Lines
    <3>5. Says(<<Recast(l, "finish", z)>>, l.idx, z)
      BY <1>1, <1>7, <2>4, ChunkSays
    <3>6. r.g = n /\ Says(r.out, l.idx, z)
      BY <3>1, <3>4, <3>5 DEF Result
    <3>7. CASE l.text = NoText
      BY <1>2, <2>2, <2>3, <2>5, <2>8, <3>2, <3>3, <3>6, <3>7 DEF Utters
    <3>8. CASE l.text # NoText
      BY <1>2, <2>2, <2>5, <2>8, <3>2, <3>3, <3>6, <3>8 DEF Utters
    <3> QED
      BY <3>7, <3>8
  <2>9. CASE ~(l.text = NoText /\ (l.type = "chunk" \/ h.pend = <<>>)) /\ ~HasStop(z)
             /\ l.type # "finish"
    <3> DEFINE n == [h EXCEPT !.pend = HeldBack(z)]
    <3>1. r = Result(n, <<[l EXCEPT !.text = Released(z)]>>)
      BY <2>1, <2>9 DEF TrimChunk
    <3>2. n.pend = HeldBack(z) /\ n.done = h.done
      BY <1>1 DEF OpenAIGuards
    <3>3. l.text # NoText /\ z = h.pend \o l.text /\ l.type = "chunk"
      BY <1>7, <2>9
    <3> HIDE DEF n, z
    <3>4. PICK t : t = Released(z)
      OBVIOUS
    <3>5. t \in Seq(Chars)
      BY <2>4, <3>4, TextsStayTexts
    <3>6. [l EXCEPT !.text = t] = Recast(l, "chunk", t)
      BY <1>1, <3>3 DEF Recast, Lines
    <3>7. Says(<<Recast(l, "chunk", t)>>, l.idx, t)
      BY <1>1, <1>7, <3>5, ChunkSays
    <3>8. r.g = n /\ Says(r.out, l.idx, t)
      BY <3>1, <3>4, <3>6, <3>7 DEF Result
    <3> QED
      BY <1>2, <2>2, <2>3, <2>5, <2>9, <3>2, <3>3, <3>4, <3>8 DEF Utters
  <2> QED
    BY <2>6, <2>7, <2>8, <2>9
<1> QED
  BY <1>4, <1>6, <1>7

-----------------------------------------------------------------------------
(* What stands after one line.                                             *)

GoingOn(h, l, W) == IF Settles(l) /\ (Speaks(l) \/ h.pend # <<>>) THEN {} ELSE W

LEMMA NothingHeld ==
  ASSUME NEW p, p = <<>>, NEW a, NEW any, NEW s, NEW x, NEW W, Stands(p, a, s, x, W)
  PROVE  Stands(p, any, s, x, W)
<1>1. \A b : HeldOf(p, any, b) = HeldOf(p, a, b)
  BY DEF HeldOf
<1> QED
  BY <1>1 DEF Stands

LEMMA StandsFewer ==
  ASSUME NEW p, NEW at, NEW s, NEW x, NEW W, Stands(p, at, s, x, W), NEW V, V \subseteq W
  PROVE  Stands(p, at, s, x, V)
BY DEF Stands

LEMMA LineShown ==
  ASSUME NEW h, NEW l, LineOK(l), NEW r, Utters(h, l, r), NEW s, NEW c, Hears(c), NEW W,
         Stands(h.pend, At(h), s, c.text, W), Frontier(W, s), Speaks(l) => l.idx \in W,
         NEW d, d = ReceiveAll(c, r.out)
  PROVE  /\ Hears(d)
         /\ r.g.done => CutShort(Heard(s, l), d.text, W)
         /\ ~r.g.done =>
              /\ HeldSilent(r.g) /\ Emits(r.g)
              /\ Stands(r.g.pend, At(r.g), Heard(s, l), d.text, GoingOn(h, l, W))
<1>1. s \in BlockTexts /\ c.text \in BlockTexts /\ h.pend \in Seq(Chars)
  BY DEF Stands
<1>2. PICK x : x = c.text
  OBVIOUS
<1>3. \A b, t : Says(r.out, b, t) => Hears(d) /\ d.text = Adds(x, b, t)
  BY <1>2 DEF Says
<1>4. CASE Speaks(l)
  <2>1. PICK a, t, z, p, at :
          a = l.idx /\ t = l.text /\ z = p \o t /\ p = h.pend /\ at = At(h)
    OBVIOUS
  <2>2. t \in Seq(Chars) /\ a \in W /\ Heard(s, l) = Adds(s, a, t)
    BY <1>1, <1>4, <2>1, HeardIs
  <2>3. Stands(p, at, s, x, W)
    BY <1>2, <2>1
  <2>4. /\ HasStop(z) => CutShort(Adds(s, a, t), Adds(x, a, Clean(z)), W)
        /\ ~HasStop(z) =>
             /\ Stands(HeldBack(z), a, Adds(s, a, t), Adds(x, a, Released(z)), W)
             /\ \A e : e = <<>> => Stands(e, a, Adds(s, a, t), Adds(x, a, z), {})
    BY <2>1, <2>2, <2>3, Arrives
  <2>5. \/ HasStop(z) /\ r.g.done /\ Says(r.out, a, Clean(z))
        \/ /\ ~HasStop(z) /\ ~r.g.done /\ ~Settles(l) /\ r.g.pend = HeldBack(z)
           /\ At(r.g) = a /\ HeldSilent(r.g) /\ Emits(r.g)
           /\ Says(r.out, a, Released(z))
        \/ /\ ~HasStop(z) /\ ~r.g.done /\ Settles(l) /\ r.g.pend = <<>>
           /\ HeldSilent(r.g) /\ Emits(r.g) /\ Says(r.out, a, z)
    BY <1>4, <2>1 DEF Utters
  <2>6. CASE HasStop(z) /\ r.g.done /\ Says(r.out, a, Clean(z))
    BY <1>3, <2>2, <2>4, <2>6
  <2>7. CASE /\ ~HasStop(z) /\ ~r.g.done /\ ~Settles(l) /\ r.g.pend = HeldBack(z)
             /\ At(r.g) = a /\ HeldSilent(r.g) /\ Emits(r.g)
             /\ Says(r.out, a, Released(z))
    BY <1>3, <2>2, <2>4, <2>7 DEF GoingOn
  <2>8. CASE /\ ~HasStop(z) /\ ~r.g.done /\ Settles(l) /\ r.g.pend = <<>>
             /\ HeldSilent(r.g) /\ Emits(r.g) /\ Says(r.out, a, z)
    <3>1. Stands(r.g.pend, a, Adds(s, a, t), Adds(x, a, z), {})
      BY <2>4, <2>8
    <3>2. Stands(r.g.pend, At(r.g), Adds(s, a, t), Adds(x, a, z), {})
      BY <2>8, <3>1, NothingHeld
    <3>3. GoingOn(h, l, W) = {}
      BY <1>4, <2>8 DEF GoingOn
    <3> QED
      BY <1>3, <2>2, <2>8, <3>2, <3>3
  <2> QED
    BY <2>5, <2>6, <2>7, <2>8
<1>5. CASE ~Speaks(l)
  <2>1. Heard(s, l) = s
    BY <1>1, <1>5, HeardIs
  <2>2. /\ ~r.g.done /\ HeldSilent(r.g) /\ Emits(r.g)
        /\ \/ r.g.pend = h.pend /\ At(r.g) = At(h) /\ SaysNothing(r.out)
           \/ Settles(l) /\ r.g.pend = <<>> /\ Says(r.out, At(h), h.pend)
    BY <1>5 DEF Utters
  <2>3. CASE r.g.pend = h.pend /\ At(r.g) = At(h) /\ SaysNothing(r.out)
    <3>1. Hears(d) /\ d.text = c.text
      BY <2>3 DEF SaysNothing
    <3>2. Stands(r.g.pend, At(r.g), s, d.text, W)
      BY <2>3, <3>1
    <3>3. Stands(r.g.pend, At(r.g), s, d.text, GoingOn(h, l, W))
      BY <3>2, StandsFewer DEF GoingOn
    <3> QED
      BY <2>1, <2>2, <3>1, <3>3
  <2>4. CASE Settles(l) /\ r.g.pend = <<>> /\ Says(r.out, At(h), h.pend)
    <3>1. PICK p, at, e, any : p = h.pend /\ at = At(h) /\ e = r.g.pend /\ any = At(r.g)
      OBVIOUS
    <3>2. Hears(d) /\ d.text = Adds(x, at, p)
      BY <1>3, <2>4, <3>1
    <3>3. Stands(p, at, s, x, W) /\ e = <<>>
      BY <1>2, <2>4, <3>1
    <3>4. /\ Stands(e, any, s, Adds(x, at, p), {})
          /\ p = <<>> => Stands(e, any, s, Adds(x, at, p), W)
      BY <3>3, FlushStands
    <3>5. Stands(e, any, s, d.text, GoingOn(h, l, W))
      BY <1>5, <2>4, <3>1, <3>2, <3>4 DEF GoingOn
    <3> QED
      BY <2>1, <2>2, <3>1, <3>2, <3>5
  <2> QED
    BY <2>2, <2>3, <2>4
<1> QED
  BY <1>4, <1>5

(* What the guard h, which looks for words, has shown.                     *)
Shown(h, s, x, W) ==
  IF h.done THEN CutShort(s, x, W)
  ELSE HeldSilent(h) /\ Emits(h) /\ Stands(h.pend, At(h), s, x, W)

LEMMA ShownFewer ==
  ASSUME NEW h, NEW s, NEW x, NEW W, Shown(h, s, x, W), NEW V, V \subseteq W
  PROVE  Shown(h, s, x, V)
<1>1. CutShort(s, x, W) => CutShort(s, x, V)
  BY DEF CutShort, CutShortAt
<1>2. \A p, at : Stands(p, at, s, x, W) => Stands(p, at, s, x, V)
  BY StandsFewer
<1> QED
  BY <1>1, <1>2 DEF Shown

(* Once a word was met, more text changes nothing.                         *)
LEMMA CutStays ==
  ASSUME NEW s, NEW x, NEW W, CutShort(s, x, W),
         NEW b \in W, b \in Blocks, NEW t \in Seq(Chars), NEW V, V \subseteq W
  PROVE  CutShort(Adds(s, b, t), x, V)
<1>1. PICK a \in Blocks : CutShortAt(a, s, x, W)
  BY DEF CutShort
<1>2. s \in BlockTexts /\ x \in BlockTexts /\ a \in Int /\ b \in Int /\ b >= a
  BY <1>1, MadeLines DEF CutShort, CutShortAt
<1> DEFINE y == Adds(s, b, t)
<1>3. y \in BlockTexts /\ y[b] = s[b] \o t /\ \A e \in Blocks : e # b => y[e] = s[e]
  BY <1>2, AddsIs
<1> HIDE DEF y
<1>4. HasStop(y[a]) /\ CutOf(x[a], y[a])
  <2>1. HasStop(s[a]) /\ CutOf(x[a], s[a]) /\ s[a] \in Seq(Chars)
    BY <1>1, <1>2 DEF CutShortAt, BlockTexts
  <2>2. CASE a = b
    <3>1. PICK z : z = s[a]
      OBVIOUS
    <3>2. HasStop(z \o t) /\ CutOf(x[a], z \o t)
      BY <2>1, <3>1, CutOfStays
    <3> QED
      BY <1>3, <2>1, <2>2, <3>1, <3>2
  <2>3. CASE a # b
    BY <1>3, <2>1, <2>3
  <2> QED
    BY <2>2, <2>3
<1>5. ASSUME NEW e \in Blocks, e < a PROVE x[e] = y[e] /\ ~HasStop(y[e])
  <2>1. e # b
    BY <1>2, <1>5, MadeLines
  <2>2. x[e] = s[e] /\ ~HasStop(s[e])
    BY <1>1, <1>5 DEF CutShortAt
  <2> QED
    BY <1>3, <2>1, <2>2
<1>6. CutShortAt(a, y, x, V)
  BY <1>1, <1>4, <1>5 DEF CutShortAt
<1> QED
  BY <1>2, <1>3, <1>6 DEF CutShort, y

(* What is held back holds no word.                                        *)
LEMMA HeldHasNoStop ==
  ASSUME NEW p, NEW at \in Blocks, NEW s, NEW x, NEW W, Stands(p, at, s, x, W)
  PROVE  ~HasStop(p)
<1>1. /\ x[at] \in Seq(Chars) /\ p \in Seq(Chars)
      /\ s[at] = x[at] \o p /\ ~HasStop(s[at])
  <2>1. HeldOf(p, at, at) = p
    BY DEF HeldOf
  <2> QED
    BY <2>1 DEF Stands, BlockTexts
<1>2. PICK y : y = x[at]
  OBVIOUS
<1>3. HasStop(p) => HasStop(y \o p)
  BY <1>1, <1>2, StopStays
<1> QED
  BY <1>1, <1>2, <1>3

(* The guard reads line l.                                                 *)
LEMMA TrimmedShown ==
  ASSUME proto \in {"anthropic", "openai"}, trim,
         NEW h, GuardOK(h), ~h.done, NEW l, StreamLine(l), NEW r, r = Trimmed(h, l),
         NEW s, NEW c, Hears(c), NEW W, Shown(h, s, c.text, W), Frontier(W, s),
         Speaks(l) => l.idx \in W /\ (proto = "anthropic" => l.idx \in h.open),
         proto = "openai" /\ l.k = "data" /\ l.whole /\ l.type \in {"chunk", "finish"}
           => l.idx = 0,
         NEW d, d = ReceiveAll(c, r.out)
  PROVE  Hears(d) /\ Shown(r.g, Heard(s, l), d.text, GoingOn(h, l, W))
<1>1. HeldSilent(h) /\ Emits(h) /\ Stands(h.pend, At(h), s, c.text, W)
  BY DEF Shown
<1>2. LineOK(l)
  BY DEF StreamLine, GoodLines
<1>3. Utters(h, l, r)
  <2>1. CASE proto = "anthropic"
    <3>1. r = TrimLine(h, l)
      BY <2>1 DEF Trimmed
    <3> QED
      BY <1>1, <2>1, <3>1, TrimLineUtters
  <2>2. CASE proto = "openai"
    <3>1. r = TrimLineO(h, l)
      BY <2>2 DEF Trimmed
    <3>2. ~HasStop(h.pend)
      <4>1. At(h) \in Blocks
        BY <2>2, StreamAssumption DEF At
      <4> QED
        BY <1>1, <4>1, HeldHasNoStop
    <3> QED
      BY <2>2, <3>1, <3>2, TrimLineOUtters
  <2> QED
    BY <2>1, <2>2
<1>4. /\ Hears(d)
      /\ r.g.done => CutShort(Heard(s, l), d.text, W)
      /\ ~r.g.done =>
           /\ HeldSilent(r.g) /\ Emits(r.g)
           /\ Stands(r.g.pend, At(r.g), Heard(s, l), d.text, GoingOn(h, l, W))
  BY <1>1, <1>2, <1>3, LineShown
<1>5. GoingOn(h, l, W) \subseteq W
  BY DEF GoingOn
<1>6. CASE r.g.done
  <2>1. Shown(r.g, Heard(s, l), d.text, W)
    BY <1>4, <1>6 DEF Shown
  <2> QED
    BY <1>4, <1>5, <2>1, ShownFewer
<1>7. CASE ~r.g.done
  BY <1>4, <1>7 DEF Shown
<1> QED
  BY <1>6, <1>7

-----------------------------------------------------------------------------
(* The texts of a stream under way.                                        *)

(* The block that may still go on, the last one.                           *)
FinishAhead(u) == \E l \in DataLines : l.type = "finish" /\ u.todo = <<l, Blank>>

Growing(u) ==
  {b \in Blocks :
     /\ ~u.over
     /\ IF proto = "anthropic" THEN b \in u.open /\ b + 1 = u.next
        ELSE b = 0 /\ (u.reason => FinishAhead(u))}

Fresh(u, s) ==
  \A b \in Blocks : (IF proto = "anthropic" THEN b >= u.next ELSE b # 0) => s[b] = <<>>

(* Line l fits what the upstream u may say while p is held back.           *)
Fitting(l, u, p) ==
  /\ l.type \in Speaking => l.idx \in Growing(u)
  /\ l.type = "finish" => u.reason
  /\ trim /\ Settles(l) /\ l.type # "finish" /\ p # <<>> => Growing(u) = {}

TextAhead == NoneAhead \/ \E l \in DataLines : Ahead(l) /\ Fitting(l, up, g.pend)

WordsKept == NoWordShown /\ (WordsApart => TextKept)

TextInv ==
  /\ sent \in BlockTexts
  /\ IF ended # "no" THEN WordsKept
     ELSE /\ Fresh(up, sent) /\ TextAhead
          /\ IF trim THEN Shown(g, sent, cl.text, Growing(up)) ELSE cl.text = sent

LEMMA LastGrows ==
  ASSUME proto \in {"anthropic", "openai"}, UpTypeOK, NEW s, Fresh(up, s)
  PROVE  Frontier(Growing(up), s)
<1>1. up.next \in Nat /\ \A b \in Blocks : b \in Int
  BY MadeLines DEF UpTypeOK
<1>2. CASE proto = "anthropic"
  <2>1. \A a \in Growing(up) : a \in Blocks /\ a + 1 = up.next
    BY <1>2 DEF Growing
  <2>2. \A a \in Growing(up) : \A b \in Growing(up) : b = a
    BY <1>1, <2>1
  <2>3. ASSUME NEW a \in Growing(up), NEW b \in Blocks, b > a PROVE s[b] = <<>>
    <3>1. b >= up.next
      BY <1>1, <2>1, <2>3
    <3> QED
      BY <1>2, <3>1 DEF Fresh
  <2> QED
    BY <2>1, <2>2, <2>3 DEF Frontier
<1>3. CASE proto = "openai"
  <2>1. \A a \in Growing(up) : a \in Blocks /\ a = 0
    BY <1>3 DEF Growing
  <2>2. \A a \in Growing(up) : \A b \in Growing(up) : b = a
    BY <2>1
  <2>3. ASSUME NEW a \in Growing(up), NEW b \in Blocks, b > a PROVE s[b] = <<>>
    <3>1. b # 0
      BY <2>1, <2>3
    <3> QED
      BY <1>3, <3>1 DEF Fresh
  <2> QED
    BY <2>1, <2>2, <2>3 DEF Frontier
<1> QED
  BY <1>2, <1>3

LEMMA TextAheadIs ==
  ASSUME proto \in {"anthropic", "openai"}, TextAhead, NEW l \in DataLines, Ahead(l)
  PROVE  Fitting(l, up, g.pend)
BY AheadOnce DEF TextAhead

(* How a step that goes on keeps it.                                       *)
LEMMA TextNext ==
  ASSUME proto' = proto, trim' = trim, ended' = "no", sent' \in BlockTexts,
         Fresh(up', sent'),
         NoneAhead' \/ \E l \in DataLines : Ahead(l)' /\ Fitting(l, up', g'.pend),
         IF trim THEN Shown(g', sent', cl'.text, Growing(up')) ELSE cl'.text = sent'
  PROVE  TextInv'
<1>1. DataLines' = DataLines
  BY GuardKept
<1>2. Growing(up)' = Growing(up') /\ Fresh(up, sent)' = Fresh(up', sent')
  BY <1>1 DEF Growing, FinishAhead, Fresh
<1>3. \A l : Fitting(l, up, g.pend)' <=> Fitting(l, up', g'.pend)
  BY <1>2 DEF Fitting, Settles
<1>4. TextAhead'
  BY <1>1, <1>3 DEF TextAhead
<1>5. Shown(g, sent, cl.text, Growing(up))' = Shown(g', sent', cl'.text, Growing(up'))
  BY <1>2 DEF Shown, HeldSilent, Emits, At
<1> QED
  BY <1>2, <1>4, <1>5 DEF TextInv

(* What a client is due of block b.                                        *)
Due(s, b) ==
  IF \E a \in Blocks : a < b /\ HasStop(s[a]) THEN <<>> ELSE Clean(s[b])

(* What the client may have been shown of it, and has once all was shown.  *)
Begun(y, s, b) ==
  /\ IsPrefix(y, s[b]) /\ ~HasStop(y)
  /\ WordsApart => IsPrefix(y, Due(s, b))

Given(y, s, b) ==
  /\ y # s[b] => \E a \in Blocks : a <= b /\ HasStop(s[a])
  /\ WordsApart => y = Due(s, b)

LEMMA CutIsDue ==
  ASSUME NEW s, NEW x, NEW W, CutShort(s, x, W), NEW b \in Blocks
  PROVE  Begun(x[b], s, b) /\ Given(x[b], s, b)
<1>1. PICK a \in Blocks : CutShortAt(a, s, x, W)
  BY DEF CutShort
<1>2. \A e \in Blocks : e \in Int
  BY MadeLines
<1>3. PICK y, t : y = x[b] /\ t = s[b]
  OBVIOUS
<1>4. y \in Seq(Chars) /\ t \in Seq(Chars)
  BY <1>3 DEF CutShort, BlockTexts
<1>5. IsPrefix(y, y)
  <2>1. PICK e : e = <<>>
    OBVIOUS
  <2>2. e \in Seq(Chars) /\ y \o e = y
    BY <1>4, <2>1, NothingJoined
  <2> QED
    BY <1>4, <2>2, PrefixOfJoined
<1>6. CASE b < a
  <2>1. \A e \in Blocks : e < b => ~HasStop(s[e])
    BY <1>1, <1>2, <1>6 DEF CutShortAt
  <2>2. y = t /\ ~HasStop(t)
    BY <1>1, <1>3, <1>6 DEF CutShortAt
  <2>3. Due(s, b) = y
    BY <1>3, <2>1, <2>2 DEF Due, Clean
  <2> QED
    BY <1>3, <1>5, <2>2, <2>3 DEF Begun, Given
<1>7. CASE b = a
  <2>1. \A e \in Blocks : e < b => ~HasStop(s[e])
    BY <1>1, <1>2, <1>7 DEF CutShortAt
  <2>2. CutOf(y, t) /\ HasStop(t)
    BY <1>1, <1>3, <1>7 DEF CutShortAt
  <2>3. IsPrefix(y, t) /\ ~HasStop(y) /\ (WordsApart => y = Clean(t))
    BY <1>4, <2>2, PrefixOfJoined DEF CutOf
  <2>4. Due(s, b) = Clean(t)
    BY <1>3, <2>1 DEF Due
  <2>5. b <= b
    BY <1>2
  <2> QED
    BY <1>3, <1>5, <2>2, <2>3, <2>4, <2>5 DEF Begun, Given
<1>8. CASE b > a
  <2>1. y = <<>> /\ HasStop(s[a]) /\ a < b /\ a <= b
    BY <1>1, <1>2, <1>3, <1>8 DEF CutShortAt
  <2>2. Due(s, b) = y
    BY <2>1 DEF Due
  <2>3. IsPrefix(y, t)
    <3>1. y \o t = t
      BY <1>4, <2>1, NothingJoined
    <3>2. IsPrefix(y, y \o t)
      BY <1>4, PrefixOfJoined
    <3> QED
      BY <3>1, <3>2
  <2>4. ~HasStop(y)
    BY <2>1, NothingHasNoStop
  <2> QED
    BY <1>3, <1>5, <2>1, <2>2, <2>3, <2>4 DEF Begun, Given
<1> QED
  BY <1>2, <1>6, <1>7, <1>8

LEMMA StandsIsDue ==
  ASSUME NEW p, NEW at, NEW s, NEW x, NEW W, Stands(p, at, s, x, W), NEW b \in Blocks
  PROVE  Begun(x[b], s, b) /\ (p = <<>> => Given(x[b], s, b))
<1>1. /\ x[b] \in Seq(Chars) /\ p \in Seq(Chars)
      /\ s[b] = x[b] \o HeldOf(p, at, b)
      /\ \A e \in Blocks : ~HasStop(s[e])
  BY DEF Stands, BlockTexts
<1>2. Due(s, b) = s[b]
  BY <1>1 DEF Due, Clean
<1>3. PICK y, q : y = x[b] /\ q = HeldOf(p, at, b)
  OBVIOUS
<1>4. y \in Seq(Chars) /\ q \in Seq(Chars) /\ s[b] = y \o q /\ (p = <<>> => q = <<>>)
  BY <1>1, <1>3 DEF HeldOf
<1>5. IsPrefix(y, y \o q)
  BY <1>4, PrefixOfJoined
<1>6. q = <<>> => y \o q = y
  BY <1>4, NothingJoined
<1>7. ~HasStop(y)
  <2>1. ~HasStop(y \o q)
    BY <1>1, <1>4
  <2> QED
    BY <1>4, <2>1, StopStays
<1> QED
  BY <1>2, <1>3, <1>4, <1>5, <1>6, <1>7 DEF Begun, Given

LEMMA ShownIsDue ==
  ASSUME NEW h, NEW s, NEW x, NEW W, Shown(h, s, x, W), NEW b \in Blocks
  PROVE  Begun(x[b], s, b) /\ (h.done \/ h.pend = <<>> => Given(x[b], s, b))
<1>1. CASE h.done
  BY <1>1, CutIsDue DEF Shown
<1>2. CASE ~h.done
  BY <1>2, StandsIsDue DEF Shown
<1> QED
  BY <1>1, <1>2

(* How a step at which the stream is over keeps it.                        *)
LEMMA WordsKeptIf ==
  ASSUME trim' = trim,
         trim => \A b \in Blocks : Begun(cl'.text[b], sent', b),
         Finished' /\ cut' # "line" =>
           \A b \in Blocks : IF trim THEN Given(cl'.text[b], sent', b)
                             ELSE cl'.text[b] = sent'[b]
  PROVE  WordsKept'
<1>1. NoWordShown'
  BY DEF NoWordShown, Begun, Given, Finished
<1>2. (WordsApart => TextKept)'
  BY DEF TextKept, Due, Begun, Given, Finished, WordsApart
<1> QED
  BY <1>1, <1>2 DEF WordsKept

LEMMA TextDisconnect ==
  ASSUME StreamInv, TextInv, Disconnect
  PROVE  TextInv'
<1>1. /\ trim' = trim /\ cl' = cl /\ sent' = sent /\ ended = "no" /\ ended' = "left"
  BY DEF Disconnect
<1>2. ~Finished'
  BY <1>1 DEF Finished
<1>3. ASSUME trim, NEW b \in Blocks PROVE Begun(cl.text[b], sent, b)
  <2>1. Shown(g, sent, cl.text, Growing(up))
    BY <1>1, <1>3 DEF TextInv
  <2> QED
    BY <2>1, ShownIsDue
<1>4. WordsKept'
  BY <1>1, <1>2, <1>3, WordsKeptIf
<1> QED
  BY <1>1, <1>4 DEF TextInv

-----------------------------------------------------------------------------
(* The upstream sends an event.                                            *)

LEMMA TextEvents ==
  ASSUME proto \in {"anthropic", "openai"},
         NEW e \in IF proto = "anthropic" THEN AnthropicEvents(up) ELSE OpenAIEvents(up)
  PROVE  /\ e.type = "start" => e.idx = up.next
         /\ e.type = "delta" => e.idx \in up.open /\ e.idx = up.next - 1
         /\ e.type = "stop" => e.idx \in up.open
         /\ e.type \in {"chunk", "finish"} => e.idx = 0 /\ ~up.reason
         /\ e.type \in {"chunk", "finish", "done"} <=> proto = "openai" /\ e.type # "noise"
<1>1. CASE proto = "anthropic"
  <2>1. \/ \E b \in {up.next} : e = Event("start", b, NoText)
        \/ \E b \in up.open \cap {up.next - 1}, t \in Texts \cup {NoText} :
             e = Event("delta", b, t)
        \/ \E b \in up.open : e = Event("stop", b, NoText)
        \/ e = Event("mdelta", 0, <<"upstream">>)
        \/ \E y \in {"mstop", "error", "noise"} : e = Event(y, 0, NoText)
    BY <1>1 DEF AnthropicEvents
  <2>2. CASE \E b \in {up.next} : e = Event("start", b, NoText)
    BY <1>1, <2>2, EventReads
  <2>3. CASE \E b \in up.open \cap {up.next - 1}, t \in Texts \cup {NoText} :
               e = Event("delta", b, t)
    BY <1>1, <2>3, EventReads
  <2>4. CASE \E b \in up.open : e = Event("stop", b, NoText)
    BY <1>1, <2>4, EventReads
  <2>5. CASE e = Event("mdelta", 0, <<"upstream">>)
    BY <1>1, <2>5, EventReads
  <2>6. CASE \E y \in {"mstop", "error", "noise"} : e = Event(y, 0, NoText)
    BY <1>1, <2>6, EventReads
  <2> QED
    BY <2>1, <2>2, <2>3, <2>4, <2>5, <2>6
<1>2. CASE proto = "openai"
  <2>1. \/ ~up.reason /\ \E y \in {"chunk", "finish"}, t \in Texts \cup {NoText} :
                           e = Event(y, 0, t)
        \/ \E y \in {"done", "noise"} : e = Event(y, 0, NoText)
    BY <1>2 DEF OpenAIEvents
  <2>2. CASE ~up.reason /\ \E y \in {"chunk", "finish"}, t \in Texts \cup {NoText} :
                             e = Event(y, 0, t)
    BY <1>2, <2>2, EventReads
  <2>3. CASE \E y \in {"done", "noise"} : e = Event(y, 0, NoText)
    BY <1>2, <2>3, EventReads
  <2> QED
    BY <2>1, <2>2, <2>3
<1> QED
  BY <1>1, <1>2

(* Only the last block grows, and a block that is started.                 *)
LEMMA GrowsAfter ==
  ASSUME proto \in {"anthropic", "openai"}, up.todo = <<>>, ~up.over,
         NEW e, NEW l, NEW v, GoesOn(e, l, v),
         v.next = IF e.type = "start" THEN up.next + 1 ELSE up.next,
         e.type \in {"chunk", "finish"} => ~up.reason,
         up.next \in Nat
  PROVE  Growing(v) \subseteq Growing(up) \cup (IF e.type = "start" THEN {up.next} ELSE {})
<1>1. /\ l.type = e.type
      /\ v.todo = IF proto = "anthropic" THEN <<EventLine(l.type), l, Blank>>
                  ELSE <<l, Blank>>
      /\ v.open = CASE l.type = "start" -> up.open \cup {l.idx}
                    [] l.type = "stop" -> up.open \ {l.idx}
                    [] OTHER -> up.open
      /\ v.reason <=> up.reason \/ l.type \in {"mdelta", "finish"}
  BY DEF GoesOn
<1> SUFFICES ASSUME NEW b \in Growing(v), e.type = "start" => b # up.next
             PROVE  b \in Growing(up)
  OBVIOUS
<1>2. CASE proto = "anthropic"
  <2>1. b \in Blocks /\ b \in v.open /\ b + 1 = v.next /\ b \in Int
    BY <1>2, MadeLines DEF Growing
  <2>2. e.type # "start"
    <3>1. e.type = "start" => b = up.next
      BY <2>1
    <3> QED
      BY <3>1
  <2>3. b \in up.open
    BY <1>1, <2>1, <2>2
  <2> QED
    BY <1>2, <2>1, <2>2, <2>3 DEF Growing
<1>3. CASE proto = "openai"
  <2>1. b \in Blocks /\ b = 0 /\ (v.reason => FinishAhead(v))
    BY <1>3 DEF Growing
  <2>2. ASSUME up.reason PROVE FALSE
    <3>1. PICK m \in DataLines : m.type = "finish" /\ v.todo = <<m, Blank>>
      BY <1>1, <2>1, <2>2 DEF FinishAhead
    <3>2. v.todo = <<l, Blank>>
      BY <1>1, <1>3
    <3>3. m = l
      BY <3>1, <3>2
    <3> QED
      BY <1>1, <2>2, <3>1, <3>3
  <2> QED
    BY <1>3, <2>1, <2>2 DEF Growing
<1> QED
  BY <1>2, <1>3

(* Nothing is held back when no block is open.                             *)
LEMMA NothingPends ==
  ASSUME StreamInv, TextInv, ended = "no", trim, proto = "anthropic", NoneAhead, up.open = {}
  PROVE  g.pend = <<>>
<1>1. Running /\ GuardOK(g) /\ Agreed /\ Shown(g, sent, cl.text, Growing(up))
  BY DEF StreamInv, TextInv, Running
<1>2. CASE g.done
  BY <1>1, <1>2 DEF GuardOK
<1>3. CASE ~g.done
  <2>1. cl.open = g.open /\ InStep
    BY <1>1, <1>3 DEF Agreed, KnownOpen
  <2>2. cl.open = {}
    BY <2>1, InStepNone
  <2> QED
    BY <1>1, <1>3, <2>1, <2>2 DEF Shown, Emits
<1> QED
  BY <1>2, <1>3

LEMMA StartShown ==
  ASSUME proto = "anthropic", up.next \in Nat, NEW h, NEW s, NEW x, NEW W, Shown(h, s, x, W),
         Fresh(up, s), GuardOK(h), h.pend = <<>>, NEW V, V \subseteq Blocks \cap {up.next}
  PROVE  Shown(h, s, x, V)
<1>1. \A b \in Blocks : b \in Int
  BY MadeLines
<1>2. CASE h.done
  <2>1. PICK a \in Blocks : CutShortAt(a, s, x, W)
    BY <1>2 DEF Shown, CutShort
  <2>2. s \in BlockTexts /\ x \in BlockTexts
    BY <1>2 DEF Shown, CutShort
  <2>3. a < up.next
    <3>1. s[a] # <<>>
      <4>1. HasStop(s[a]) /\ s[a] \in Seq(Chars)
        BY <2>1, <2>2 DEF CutShortAt, BlockTexts
      <4>2. PICK m : m \in Hits(s[a])
        BY <4>1 DEF HasStop
      <4>3. m \in 0 .. Len(s[a]) - 1 /\ Len(s[a]) \in Nat
        BY <4>1, <4>2 DEF Hits
      <4>4. Len(s[a]) # 0
        BY <4>3
      <4>5. \A y : y = <<>> => Len(y) = 0
        OBVIOUS
      <4> QED
        BY <4>4, <4>5
    <3>2. ~(a >= up.next)
      BY <3>1 DEF Fresh
    <3> QED
      BY <1>1, <3>2
  <2>4. \A b \in V : b >= a
    BY <1>1, <2>3
  <2>5. CutShortAt(a, s, x, V)
    BY <2>1, <2>4 DEF CutShortAt
  <2> QED
    BY <1>2, <2>2, <2>5 DEF Shown, CutShort
<1>3. CASE ~h.done
  <2>1. /\ HeldSilent(h) /\ Emits(h) /\ Stands(h.pend, At(h), s, x, W)
    BY <1>3 DEF Shown
  <2>2. ASSUME NEW b \in V PROVE Waits(x[b], h.pend)
    <3>1. b \in Blocks /\ b >= up.next
      OBVIOUS
    <3>2. s[b] = <<>>
      BY <3>1 DEF Fresh
    <3>3. /\ x[b] \in Seq(Chars) /\ h.pend \in Seq(Chars)
          /\ s[b] = x[b] \o HeldOf(h.pend, At(h), b)
      BY <2>1, <3>1 DEF Stands, BlockTexts
    <3>4. HeldOf(h.pend, At(h), b) \in Seq(Chars)
      BY <3>3 DEF HeldOf
    <3>5. x[b] = <<>>
      BY <3>2, <3>3, <3>4, NothingLeft
    <3>6. Len(h.pend) <= Holdback
      BY DEF GuardOK
    <3> QED
      BY <3>3, <3>5, <3>6 DEF Waits
  <2>3. Stands(h.pend, At(h), s, x, V)
    BY <2>1, <2>2 DEF Stands
  <2> QED
    BY <1>3, <2>1, <2>3 DEF Shown
<1> QED
  BY <1>2, <1>3

LEMMA TextSend ==
  ASSUME StreamInv, TextInv, Send
  PROVE  TextInv'
<1>1. /\ ended = "no" /\ up.todo = <<>> /\ ~up.over
      /\ proto' = proto /\ trim' = trim /\ g' = g /\ cl' = cl /\ ended' = ended
      /\ sent' = sent
  BY DEF Send
<1>2. /\ proto \in {"anthropic", "openai"} /\ trim \in BOOLEAN /\ Running
      /\ GuardOK(g) /\ UpOK /\ UpTypeOK /\ up.next \in Nat
  BY <1>1 DEF StreamInv, Running, UpOK, UpTypeOK
<1>3. PICK e \in IF proto = "anthropic" THEN AnthropicEvents(up) ELSE OpenAIEvents(up) :
        up' = After(up, e)
  BY DEF Send
<1>4. EventFits(e)
  BY <1>2, <1>3, EventsAre
<1>5. PICK l : l = DataLine(e.type, e.idx, e.text)
  OBVIOUS
<1>6. PICK v : v = up'
  OBVIOUS
<1>7. GoesOn(e, l, v)
  BY <1>2, <1>3, <1>4, <1>5, <1>6, AfterIs
<1>8. v.next = IF e.type = "start" THEN up.next + 1 ELSE up.next
  BY <1>3, <1>6 DEF After
<1>9. /\ l \in DataLines /\ l.type = e.type /\ l.idx = e.idx
      /\ v.todo = IF proto = "anthropic" THEN <<EventLine(l.type), l, Blank>>
                  ELSE <<l, Blank>>
      /\ v.open = CASE l.type = "start" -> up.open \cup {l.idx}
                    [] l.type = "stop" -> up.open \ {l.idx}
                    [] OTHER -> up.open
      /\ v.reason <=> up.reason \/ l.type \in {"mdelta", "finish"}
      /\ v.over <=> l.type \in {"mstop", "error", "done"}
  BY <1>7 DEF GoesOn
<1>10. /\ e.type = "start" => e.idx = up.next
       /\ e.type = "delta" => e.idx \in up.open /\ e.idx = up.next - 1
       /\ e.type = "stop" => e.idx \in up.open
       /\ e.type \in {"chunk", "finish"} => e.idx = 0 /\ ~up.reason
       /\ e.type \in {"chunk", "finish", "done"} <=> proto = "openai" /\ e.type # "noise"
  BY <1>2, <1>3, TextEvents
<1>11. NoneAhead
  BY <1>1 DEF NoneAhead
<1>12. Fresh(up, sent) /\ sent \in BlockTexts
  BY <1>1 DEF TextInv
<1>13. \A b \in Blocks : b \in Int
  BY MadeLines
<1>14. Fresh(v, sent)
  <2>1. \A b \in Int : b >= v.next => b >= up.next
    BY <1>2, <1>8
  <2> QED
    BY <1>12, <1>13, <2>1 DEF Fresh
<1>15. Fitting(l, v, g.pend)
  <2>1. CASE l.type = "delta"
    <3>1. l.idx \in Blocks /\ l.idx \in v.open /\ l.idx + 1 = v.next /\ ~v.over
      <4>1. l.idx \in up.open /\ up.open \subseteq Blocks
        BY <1>2, <1>9, <1>10, <2>1 DEF UpTypeOK
      <4>2. l.idx \in Int /\ l.idx = up.next - 1
        BY <1>9, <1>10, <1>13, <2>1, <4>1
      <4>3. l.idx + 1 = up.next
        BY <1>2, <4>2
      <4> QED
        BY <1>8, <1>9, <2>1, <4>1, <4>3
    <3>2. proto = "anthropic"
      BY <1>2, <1>9, <2>1, <1>4 DEF EventFits
    <3>3. l.idx \in Growing(v)
      BY <3>1, <3>2 DEF Growing
    <3>4. ~Settles(l)
      BY <2>1, <3>2 DEF Settles, Border
    <3> QED
      BY <2>1, <3>3, <3>4 DEF Fitting
  <2>2. CASE l.type \in {"chunk", "finish"}
    <3>1. l.idx = 0 /\ 0 \in Blocks /\ ~v.over /\ proto = "openai"
      BY <1>9, <1>10, <2>2, StreamAssumption
    <3>2. v.reason => FinishAhead(v)
      BY <1>9, <1>10, <2>2, <3>1 DEF FinishAhead
    <3>3. l.idx \in Growing(v)
      BY <3>1, <3>2 DEF Growing
    <3>4. l.type = "finish" \/ ~Settles(l)
      BY <2>2, <3>1 DEF Settles
    <3> QED
      BY <1>9, <2>2, <3>3, <3>4 DEF Fitting
  <2>3. CASE l.type \notin Speaking
    <3>1. ASSUME trim, Settles(l), g.pend # <<>> PROVE Growing(v) = {}
      <4>1. CASE l.type \in {"mstop", "error", "done"}
        BY <1>9, <4>1 DEF Growing
      <4>2. CASE l.type \in {"start", "stop", "mdelta"} /\ proto = "anthropic"
        <5>1. up.open # {}
          BY <1>1, <1>11, <3>1, <4>2, NothingPends
        <5>2. l.type = "stop" /\ l.idx \in up.open
          BY <1>4, <1>9, <1>10, <3>1, <4>2, <5>1 DEF EventFits
        <5>3. \A a, b \in up.open : a = b
          BY <1>2, <3>1 DEF UpOK
        <5>4. v.open = {}
          BY <1>9, <5>2, <5>3
        <5> QED
          BY <4>2, <5>4 DEF Growing
      <4> QED
        BY <1>2, <2>3, <3>1, <4>1, <4>2 DEF Settles, Border, Speaking
    <3> QED
      BY <2>3, <3>1 DEF Fitting, Speaking
  <2> QED
    BY <2>1, <2>2, <2>3 DEF Speaking
<1>16. ASSUME trim PROVE Shown(g, sent, cl.text, Growing(v))
  <2>1. Shown(g, sent, cl.text, Growing(up))
    BY <1>1, <1>16 DEF TextInv
  <2>2. Growing(v) \subseteq Growing(up) \cup (IF e.type = "start" THEN {up.next} ELSE {})
    BY <1>1, <1>2, <1>7, <1>8, <1>10, GrowsAfter
  <2>3. CASE e.type # "start"
    BY <2>1, <2>2, <2>3, ShownFewer
  <2>4. CASE e.type = "start"
    <3>1. proto = "anthropic" /\ up.open = {}
      BY <1>2, <1>4, <1>16, <2>4 DEF EventFits
    <3>2. g.pend = <<>>
      BY <1>1, <1>11, <1>16, <3>1, NothingPends
    <3>3. Growing(up) = {} /\ Growing(v) \subseteq Blocks
      BY <3>1 DEF Growing
    <3>4. Growing(v) \subseteq Blocks \cap {up.next}
      BY <2>2, <2>4, <3>3
    <3> QED
      BY <1>2, <1>12, <2>1, <3>1, <3>2, <3>4, StartShown
  <2> QED
    BY <2>3, <2>4
<1>17. ~trim => cl.text = sent
  BY <1>1 DEF TextInv
<1>18. Ahead(l)'
  BY <1>1, <1>2, <1>6, <1>9 DEF Ahead
<1> QED
  BY <1>1, <1>6, <1>9, <1>12, <1>14, <1>15, <1>16, <1>17, <1>18, TextNext

-----------------------------------------------------------------------------
(* Lines arrive.                                                           *)

LEMMA GrowsLess ==
  ASSUME proto \in {"anthropic", "openai"}, NEW v, v.open = up.open, v.next = up.next,
         v.reason = up.reason, v.over = up.over,
         proto = "openai" => ~FinishAhead(v)
  PROVE  /\ Growing(v) \subseteq Growing(up)
         /\ proto = "anthropic" => Growing(v) = Growing(up)
         /\ proto = "openai" /\ up.reason => Growing(v) = {}
BY DEF Growing

LEMMA ShownAlike ==
  ASSUME NEW h, NEW n, n.done = h.done, n.pend = h.pend,
         proto = "anthropic" =>
           n.held = h.held /\ n.textIdx = h.textIdx /\ n.pendActive = h.pendActive
             /\ n.open = h.open,
         NEW s, NEW x, NEW W, Shown(h, s, x, W)
  PROVE  Shown(n, s, x, W)
BY DEF Shown, HeldSilent, Emits, At

LEMMA BufferShown ==
  ASSUME NEW h, GuardOK(h), NEW v, NEW n, n = [h EXCEPT !.buffer = v],
         NEW s, NEW x, NEW W, Shown(h, s, x, W)
  PROVE  Shown(n, s, x, W) /\ n.pend = h.pend /\ n.done = h.done
<1>1. /\ n.done = h.done /\ n.pend = h.pend
      /\ proto = "anthropic" =>
           n.held = h.held /\ n.textIdx = h.textIdx /\ n.pendActive = h.pendActive
             /\ n.open = h.open
  BY DEF GuardOK, AnthropicGuards, OpenAIGuards
<1> QED
  BY <1>1, ShownAlike

LEMMA TailText ==
  ASSUME NEW c, ClientOK(c), NEW v
  PROVE  [c EXCEPT !.tail = v].text = c.text
BY DEF ClientOK, ClientFields

LEMMA TextReadHalf ==
  ASSUME StreamInv, TextInv, ended = "no", ReadHalf
  PROVE  TextInv'
<1>1. /\ Running /\ GuardOK(g) /\ ClientOK(cl)
      /\ proto' = proto /\ trim' = trim /\ up' = up /\ ended' = "no" /\ sent' = sent
  BY DEF StreamInv, Running, ReadHalf
<1>2. PICK h \in Halves(Head(up.todo)) :
        /\ g' = [g EXCEPT !.buffer = <<h>>]
        /\ cl' = IF trim THEN cl ELSE [cl EXCEPT !.tail = <<h>>]
  BY DEF ReadHalf
<1>3. cl'.text = cl.text
  BY <1>1, <1>2, TailText
<1>4. /\ sent \in BlockTexts /\ Fresh(up, sent) /\ TextAhead
      /\ IF trim THEN Shown(g, sent, cl.text, Growing(up)) ELSE cl.text = sent
  BY DEF TextInv
<1>5. PICK n : n = g'
  OBVIOUS
<1>6. n.pend = g.pend
  BY <1>1, <1>2, <1>5 DEF GuardOK, AnthropicGuards, OpenAIGuards
<1>7. trim => Shown(n, sent, cl.text, Growing(up))
  BY <1>1, <1>2, <1>4, <1>5, BufferShown
<1>8. (NoneAhead' <=> NoneAhead) /\ \A l : Ahead(l)' <=> Ahead(l)
  BY <1>1 DEF NoneAhead, Ahead
<1>9. NoneAhead' \/ \E l \in DataLines : Ahead(l)' /\ Fitting(l, up', g'.pend)
  BY <1>1, <1>4, <1>5, <1>6, <1>8 DEF TextAhead
<1> QED
  BY <1>1, <1>3, <1>4, <1>5, <1>7, <1>9, TextNext

LEMMA JunkAhead ==
  ASSUME proto \in {"anthropic", "openai"}, trim, Running, Flood
  PROVE  up'.todo = <<Junk, Blank>>
<1>1. /\ g.buffer # <<>> /\ g.buffer[1].k = "data"
      /\ up' = [up EXCEPT !.todo = <<Junk>> \o Tail(@)]
  BY DEF Flood
<1>2. PICK t : t = Head(up.todo)
  OBVIOUS
<1>3. up.todo # <<>> /\ g.buffer[1] \in Halves(t)
  BY <1>1, <1>2 DEF Running, HalfOK
<1>4. /\ StreamLine(t) /\ t.whole = TRUE
      /\ \/ t \in DataLines /\ Ahead(t) /\ Tail(up.todo) = <<Blank>>
         \/ t.k = "event"
         \/ t = Blank
         \/ t = Junk
  BY <1>2, <1>3, TodoIs DEF Running
<1>5. t.k = "data"
  BY <1>1, <1>3, <1>4, HalvesAre
<1>6. Tail(up.todo) = <<Blank>>
  BY <1>4, <1>5, BlankIs
<1>7. Junk \in Lines /\ Blank \in Lines
  BY BlankIs DEF QuietLines, GoodLines
<1>8. <<Junk>> \o <<Blank>> = <<Junk, Blank>>
  BY <1>7, OneAndOne
<1>9. up \in [todo : Seq(Lines), units : Nat, open : SUBSET Blocks, next : Nat,
              reason : BOOLEAN, over : BOOLEAN]
  BY DEF Running, UpOK, UpTypeOK
<1>10. PICK q : q = <<Junk>> \o Tail(up.todo)
  OBVIOUS
<1>11. up' = [up EXCEPT !.todo = q]
  BY <1>1, <1>10
<1>12. up'.todo = q
  BY <1>9, <1>11
<1> QED
  BY <1>6, <1>8, <1>10, <1>12

LEMMA TextFlood ==
  ASSUME StreamInv, TextInv, ended = "no", Flood
  PROVE  TextInv'
<1>1. /\ proto \in {"anthropic", "openai"} /\ trim \in BOOLEAN
      /\ Running /\ GuardOK(g) /\ UpTypeOK
      /\ proto' = proto /\ trim' = trim /\ cl' = cl /\ ended' = "no" /\ sent' = sent
      /\ g' = IF proto = "anthropic" THEN AnthropicOverflow(g) ELSE OpenAIOverflow(g)
  BY DEF StreamInv, Running, UpOK, Flood
<1>2. /\ sent \in BlockTexts /\ Fresh(up, sent)
      /\ IF trim THEN Shown(g, sent, cl.text, Growing(up)) ELSE cl.text = sent
  BY DEF TextInv
<1>3. PICK v : v = up'
  OBVIOUS
<1>4. v.open = up.open /\ v.next = up.next /\ v.reason = up.reason /\ v.over = up.over
  BY <1>1, <1>3 DEF UpTypeOK, Flood
<1>5. (trim => v.todo = <<Junk, Blank>>) /\ (~trim => v = up)
  BY <1>1, <1>3, JunkAhead DEF Flood
<1>7. trim => ~FinishAhead(v)
  <2>1. ASSUME trim, NEW l, v.todo = <<l, Blank>> PROVE l.type = "cut"
    <3>1. l = Junk
      BY <1>5, <2>1
    <3> QED
      BY <3>1, BlankIs
  <2> QED
    BY <2>1 DEF FinishAhead
<1>8. trim => Growing(v) \subseteq Growing(up)
  BY <1>1, <1>4, <1>7, GrowsLess
<1>9. Fresh(v, sent)
  BY <1>2, <1>4 DEF Fresh
<1>10. PICK n : n = g'
  OBVIOUS
<1>11. /\ n.done = g.done /\ n.pend = g.pend
       /\ proto = "anthropic" =>
            n.held = g.held /\ n.textIdx = g.textIdx /\ n.pendActive = g.pendActive
              /\ n.open = g.open
  <2>1. CASE proto = "anthropic"
    <3>1. g \in AnthropicGuards /\ n = AnthropicOverflow(g)
      BY <1>1, <1>10, <2>1 DEF GuardOK
    <3> QED
      BY <3>1 DEF AnthropicOverflow, AnthropicGuards
  <2>2. CASE proto = "openai"
    <3>1. g \in OpenAIGuards /\ n = OpenAIOverflow(g)
      BY <1>1, <1>10, <2>2 DEF GuardOK
    <3> QED
      BY <2>2, <3>1 DEF OpenAIOverflow, OpenAIGuards
  <2> QED
    BY <1>1, <2>1, <2>2
<1>12. trim => Shown(n, sent, cl.text, Growing(v))
  <2>1. trim => Shown(n, sent, cl.text, Growing(up))
    BY <1>2, <1>11, ShownAlike
  <2> QED
    BY <1>8, <2>1, ShownFewer
<1>6. NoneAhead' \/ \E l \in DataLines : Ahead(l)' /\ Fitting(l, v, n.pend)
  <2>1. CASE trim
    BY <1>3, <1>5, <2>1 DEF NoneAhead
  <2>2. CASE ~trim
    <3>1. (NoneAhead' <=> NoneAhead) /\ \A l : Ahead(l)' <=> Ahead(l)
      BY <1>1, <1>3, <1>5, <2>2 DEF NoneAhead, Ahead
    <3>2. TextAhead
      BY DEF TextInv
    <3> QED
      BY <1>5, <1>11, <2>2, <3>1, <3>2 DEF TextAhead
  <2> QED
    BY <2>1, <2>2
<1> QED
  BY <1>1, <1>2, <1>3, <1>6, <1>9, <1>10, <1>12, TextNext

(* The upstream when a line of its is read, as far as its texts go.        *)
LEMMA TodoGoes ==
  ASSUME proto \in {"anthropic", "openai"}, UpOK, up.todo # <<>>,
         up' = [up EXCEPT !.todo = Tail(@)], UNCHANGED <<proto, trim>>,
         NEW l, l = Head(up.todo), NEW v, v = up'
  PROVE  /\ v.open = up.open /\ v.next = up.next /\ v.reason = up.reason /\ v.over = up.over
         /\ StreamLine(l) /\ l.whole = TRUE
         /\ proto = "openai" => ~FinishAhead(v)
         /\ \/ l \in DataLines /\ Ahead(l) /\ NoneAhead'
            \/ /\ l.k = "event" /\ proto = "anthropic"
               /\ \E m \in DataLines : Ahead(m) /\ Ahead(m)'
            \/ l.k # "data" /\ NoneAhead'
<1>1. PICK t : t = Tail(up.todo)
  OBVIOUS
<1>2. /\ StreamLine(l) /\ l.whole = TRUE
      /\ \/ l \in DataLines /\ Ahead(l) /\ t = <<Blank>>
         \/ /\ l.k = "event" /\ proto = "anthropic"
            /\ \E m \in DataLines : Ahead(m) /\ t = <<m, Blank>>
         \/ l = Blank /\ t = <<>>
         \/ l = Junk /\ t = <<Blank>>
  BY <1>1, TodoIs
<1>3. v.todo = t /\ v.open = up.open /\ v.next = up.next /\ v.reason = up.reason
      /\ v.over = up.over
  <2>1. up \in [todo : Seq(Lines), units : Nat, open : SUBSET Blocks, next : Nat,
                reason : BOOLEAN, over : BOOLEAN]
    BY DEF UpOK, UpTypeOK
  <2>2. v = [up EXCEPT !.todo = t]
    BY <1>1
  <2> QED
    BY <2>1, <2>2
<1>4. \A m : t = <<m, Blank>> => Ahead(m)'
  BY <1>3 DEF Ahead
<1>5. t \in {<<>>, <<Blank>>} => NoneAhead'
  BY <1>3 DEF NoneAhead
<1>6. ASSUME proto = "openai" PROVE ~FinishAhead(v)
  <2>1. t \in {<<>>, <<Blank>>}
    BY <1>2, <1>6
  <2>2. \A m : <<m, Blank>> # <<>> /\ <<m, Blank>> # <<Blank>>
    OBVIOUS
  <2> QED
    BY <1>3, <2>1, <2>2 DEF FinishAhead
<1> QED
  BY <1>2, <1>3, <1>4, <1>5, <1>6, BlankIs

(* A line that arrives, complete or all that has come of it.               *)
LEMMA LineFits ==
  ASSUME StreamInv, TextInv, ended = "no", ~g.done, up.todo # <<>>,
         NEW l, StreamLine(l), l.whole => l = Head(up.todo)
  PROVE  /\ Speaks(l) => l.idx \in Growing(up) /\ (proto = "anthropic" => l.idx \in g.open)
         /\ proto = "openai" /\ l.k = "data" /\ l.whole /\ l.type \in {"chunk", "finish"}
              => l.idx = 0
<1>1. /\ proto \in {"anthropic", "openai"} /\ Running /\ UpOK /\ Agreed /\ TextAhead
  BY DEF StreamInv, Running, TextInv
<1>2. ASSUME l.k = "data", l.whole PROVE l \in DataLines /\ Ahead(l) /\ Fitting(l, up, g.pend)
  <2>1. l \in DataLines /\ Ahead(l)
    BY <1>1, <1>2, TodoIs, BlankIs
  <2> QED
    BY <1>1, <2>1, TextAheadIs
<1>3. ASSUME l.k = "data", l.whole, l.type \in Speaking
      PROVE  /\ l.idx \in Growing(up)
             /\ proto = "anthropic" => l.idx \in g.open
             /\ proto = "openai" => l.idx = 0
  <2>1. l \in DataLines /\ Ahead(l) /\ l.idx \in Growing(up)
    BY <1>2, <1>3 DEF Fitting
  <2>2. ASSUME proto = "anthropic" PROVE l.idx \in g.open
    <3>1. l.idx \in up.open
      BY <2>1, <2>2 DEF Growing
    <3>2. InStep /\ cl.open = g.open
      BY <1>1, <2>2 DEF Agreed, KnownOpen
    <3>3. up.open = cl.open
      BY <1>1, <1>3, <2>1, <3>2, InStepAhead DEF Speaking
    <3> QED
      BY <3>1, <3>2, <3>3
  <2>3. proto = "openai" => l.idx = 0
    BY <2>1 DEF Growing
  <2> QED
    BY <2>1, <2>2, <2>3
<1> QED
  BY <1>3 DEF Speaks, Speaking

(* What a block has been sent afterwards.                                  *)
LEMMA HeardFresh ==
  ASSUME proto \in {"anthropic", "openai"}, UpTypeOK, NEW s, Fresh(up, s), s \in BlockTexts,
         NEW l, LineOK(l), Speaks(l) => l.idx \in Growing(up)
  PROVE  Heard(s, l) \in BlockTexts /\ Fresh(up, Heard(s, l))
<1>1. /\ Heard(s, l) = IF Speaks(l) THEN Adds(s, l.idx, l.text) ELSE s
      /\ Heard(s, l) \in BlockTexts
      /\ Speaks(l) => l.text \in Seq(Chars)
  BY HeardIs
<1>2. ASSUME Speaks(l), NEW b \in Blocks,
             IF proto = "anthropic" THEN b >= up.next ELSE b # 0
      PROVE  Heard(s, l)[b] = <<>>
  <2>1. b # l.idx
    <3>1. l.idx \in Growing(up) /\ b \in Int /\ up.next \in Nat
      BY <1>2, MadeLines DEF UpTypeOK
    <3>2. CASE proto = "anthropic"
      <4>1. l.idx \in Int /\ l.idx + 1 = up.next /\ b >= up.next
        BY <1>2, <3>1, <3>2, MadeLines DEF Growing
      <4> QED
        BY <3>1, <4>1
    <3>3. CASE proto # "anthropic"
      BY <1>2, <3>1, <3>3 DEF Growing
    <3> QED
      BY <3>2, <3>3
  <2>2. s[b] = <<>>
    BY <1>2 DEF Fresh
  <2>3. Adds(s, l.idx, l.text)[b] = s[b]
    BY <1>1, <1>2, <2>1, AddsIs
  <2> QED
    BY <1>1, <1>2, <2>2, <2>3
<1> QED
  BY <1>1, <1>2 DEF Fresh

(* Only a data line changes what is held back.                             *)
LEMMA PendKept ==
  ASSUME proto = "anthropic", NEW h, GuardOK(h), NEW l, l.k # "data"
  PROVE  TrimLine(h, l).g.pend = h.pend
<1>1. h \in AnthropicGuards
  BY DEF GuardOK
<1>2. TrimLine(h, l).g = [h EXCEPT !.held = <<l>>] \/ TrimLine(h, l).g = [h EXCEPT !.held = <<>>]
  BY DEF TrimLine, Result
<1> QED
  BY <1>1, <1>2 DEF AnthropicGuards

LEMMA TextReadLine ==
  ASSUME StreamInv, TextInv, ended = "no", ReadLine
  PROVE  TextInv'
<1>1. /\ proto \in {"anthropic", "openai"} /\ trim \in BOOLEAN /\ Running
      /\ GuardOK(g) /\ ClientOK(cl) /\ UpOK /\ UpTypeOK /\ HalfOK /\ Sane(cl)
  <2>1. proto \in {"anthropic", "openai"} /\ trim \in BOOLEAN /\ Running
    BY DEF StreamInv
  <2> QED
    BY <2>1, RunningSane DEF Running, UpOK
<1>2. /\ up.todo # <<>> /\ up' = [up EXCEPT !.todo = Tail(@)]
      /\ proto' = proto /\ trim' = trim /\ ended' = "no"
  BY DEF ReadLine
<1>3. /\ sent \in BlockTexts /\ Fresh(up, sent) /\ TextAhead
      /\ IF trim THEN Shown(g, sent, cl.text, Growing(up)) ELSE cl.text = sent
  BY DEF TextInv
<1>4. PICK l, r, c, v, W : /\ l = Head(up.todo) /\ r = Guarded(l)
                           /\ c = [cl EXCEPT !.tail = <<>>]
                           /\ v = up' /\ W = Growing(up)
  OBVIOUS
<1>5. g' = Unfinished(r.g) /\ cl' = ReceiveAll(c, r.out) /\ sent' = Heard(sent, l)
  BY <1>4 DEF ReadLine, Unbuffered, Unfinished
<1>6. /\ v.open = up.open /\ v.next = up.next /\ v.reason = up.reason /\ v.over = up.over
      /\ StreamLine(l) /\ l.whole = TRUE
      /\ proto = "openai" => ~FinishAhead(v)
      /\ \/ l \in DataLines /\ Ahead(l) /\ NoneAhead'
         \/ /\ l.k = "event" /\ proto = "anthropic"
            /\ \E m \in DataLines : Ahead(m) /\ Ahead(m)'
         \/ l.k # "data" /\ NoneAhead'
  BY <1>1, <1>2, <1>4, TodoGoes
<1>7. LineOK(l)
  BY <1>6 DEF StreamLine, GoodLines
<1>8. Sane(c) /\ c.tail = <<>> /\ c.text = cl.text
  <2>1. c.text = cl.text
    BY <1>1, <1>4, TailText
  <2>2. PICK e : e = <<>>
    OBVIOUS
  <2>3. e \in Seq(Lines) /\ Len(e) <= 1
    BY <2>2
  <2>4. ClientOK(c) /\ c.tail = e
    BY <1>1, <1>4, <2>2, <2>3, TailSet
  <2> QED
    BY <2>1, <2>2, <2>4 DEF Sane
<1>9. /\ Growing(v) \subseteq W
      /\ proto = "anthropic" => Growing(v) = W
      /\ proto = "openai" /\ up.reason => Growing(v) = {}
  BY <1>1, <1>4, <1>6, GrowsLess
<1>10. Frontier(W, sent)
  BY <1>1, <1>3, <1>4, LastGrows
<1>11. Speaks(l) => l.idx \in W
  <2>1. ASSUME Speaks(l) PROVE l \in DataLines /\ Ahead(l) /\ l.type \in Speaking
    BY <1>6, <2>1 DEF Speaks
  <2> QED
    BY <1>1, <1>3, <1>4, <2>1, TextAheadIs DEF Fitting
<1>12. sent' \in BlockTexts /\ Fresh(v, sent')
  <2>1. Heard(sent, l) \in BlockTexts /\ Fresh(up, Heard(sent, l))
    BY <1>1, <1>3, <1>4, <1>7, <1>11, HeardFresh
  <2> QED
    BY <1>5, <1>6, <2>1 DEF Fresh
<1>13. ASSUME ~trim PROVE cl'.text = sent'
  <2>1. PICK n : r = Result(n, <<l>>)
    BY <1>4, <1>13 DEF Guarded, AnthropicWrite, OpenAIWrite
  <2>2. cl' = Receive(c, l)
    BY <1>5, <2>1, ResultIs, ReceiveOne
  <2>3. Hears(c) /\ c.text = sent
    BY <1>3, <1>8, <1>13 DEF Hears
  <2> QED
    BY <1>5, <1>7, <2>2, <2>3, ReceiveText
<1>14. ASSUME trim PROVE Shown(g', sent', cl'.text, Growing(v))
  <2>1. Shown(g, sent, cl.text, W)
    BY <1>3, <1>4, <1>14
  <2>2. CASE g.done
    <3>1. r.g = g /\ r.out = <<>>
      <4>1. r = Result(g, <<>>)
        BY <1>4, <1>14, <2>2 DEF Guarded, AnthropicWrite, OpenAIWrite
      <4> QED
        BY <4>1, ResultIs
    <3>2. cl'.text = cl.text
      BY <1>5, <1>8, <3>1, ReceiveNone
    <3>3. CutShort(sent, cl.text, W)
      BY <2>1, <2>2 DEF Shown
    <3>4. CutShort(sent', cl.text, Growing(v))
      <4>1. sent' = IF Speaks(l) THEN Adds(sent, l.idx, l.text) ELSE sent
        BY <1>3, <1>5, <1>7, HeardIs
      <4>2. CASE Speaks(l)
        <5>1. l.idx \in W /\ l.idx \in Blocks /\ l.text \in Seq(Chars)
          BY <1>3, <1>7, <1>10, <1>11, <4>2, HeardIs DEF Frontier
        <5>2. PICK b, t : b = l.idx /\ t = l.text
          OBVIOUS
        <5>3. CutShort(Adds(sent, b, t), cl.text, Growing(v))
          BY <1>9, <3>3, <5>1, <5>2, CutStays
        <5> QED
          BY <4>1, <4>2, <5>2, <5>3
      <4>3. CASE ~Speaks(l)
        BY <1>9, <3>3, <4>1, <4>3 DEF CutShort, CutShortAt
      <4> QED
        BY <4>2, <4>3
    <3>5. PICK n : n = g'
      OBVIOUS
    <3>6. n.done
      BY <1>1, <1>5, <2>2, <3>1, <3>5, UnfinishedIs
    <3> QED
      BY <3>2, <3>4, <3>5, <3>6 DEF Shown
  <2>3. CASE ~g.done
    <3>1. r = Trimmed(g, l)
      BY <1>4, <1>14, <2>3 DEF Guarded, AnthropicWrite, OpenAIWrite, Trimmed
    <3>2. Hears(c) /\ Shown(g, sent, c.text, W)
      BY <1>8, <2>1, <2>3 DEF Hears, Shown, Stands
    <3>3. /\ Speaks(l) => l.idx \in W /\ (proto = "anthropic" => l.idx \in g.open)
          /\ proto = "openai" /\ l.k = "data" /\ l.whole /\ l.type \in {"chunk", "finish"}
               => l.idx = 0
      BY <1>2, <1>4, <1>6, <2>3, LineFits
    <3>4. PICK d, s : d = cl' /\ s = Heard(sent, l)
      OBVIOUS
    <3>5. Shown(r.g, s, d.text, GoingOn(g, l, W))
      <4>1. d = ReceiveAll(c, r.out)
        BY <1>5, <3>4
      <4> QED
        BY <1>1, <1>6, <1>10, <1>14, <2>3, <3>1, <3>2, <3>3, <3>4, <4>1, TrimmedShown
    <3>6. Growing(v) \subseteq GoingOn(g, l, W)
      <4>1. ASSUME Settles(l), Speaks(l) \/ g.pend # <<>> PROVE Growing(v) = {}
        <5>1. l \in DataLines /\ Ahead(l)
          BY <1>6, <4>1 DEF Settles
        <5>2. Fitting(l, up, g.pend)
          BY <1>1, <1>3, <5>1, TextAheadIs
        <5>3. CASE l.type = "finish"
          <6>1. proto = "openai" /\ up.reason
            BY <1>1, <4>1, <5>2, <5>3 DEF Fitting, Settles, Border
          <6> QED
            BY <1>9, <6>1
        <5>4. CASE l.type # "finish"
          <6>1. ~Speaks(l)
            BY <1>1, <4>1, <5>4 DEF Settles, Border, Speaks, Speaking
          <6>2. W = {}
            BY <1>4, <1>14, <4>1, <5>2, <5>4, <6>1 DEF Fitting
          <6> QED
            BY <1>9, <6>2
        <5> QED
          BY <5>3, <5>4
      <4> QED
        BY <1>9, <4>1 DEF GoingOn
    <3>7. Shown(r.g, s, d.text, Growing(v))
      BY <3>5, <3>6, ShownFewer
    <3>8. GuardOK(r.g)
      BY <1>1, <1>6, <1>14, <2>3, <3>1, TrimmedTells DEF Meets
    <3>9. PICK n, h : n = g' /\ h = r.g
      OBVIOUS
    <3>10. n = [h EXCEPT !.buffer = <<>>]
      BY <1>5, <3>9 DEF Unfinished
    <3>11. Shown(n, s, d.text, Growing(v))
      BY <3>7, <3>8, <3>9, <3>10, BufferShown
    <3> QED
      BY <1>5, <3>4, <3>9, <3>11
  <2> QED
    BY <2>2, <2>3
<1>15. NoneAhead' \/ \E m \in DataLines : Ahead(m)' /\ Fitting(m, v, g'.pend)
  <2> SUFFICES ASSUME l.k = "event", proto = "anthropic",
                      NEW m \in DataLines, Ahead(m), Ahead(m)'
               PROVE  Fitting(m, v, g'.pend)
    BY <1>6
  <2>1. Fitting(m, up, g.pend) /\ Growing(v) = W
    BY <1>1, <1>3, <1>9, TextAheadIs
  <2>2. ASSUME trim PROVE g'.pend = g.pend
    <3>1. CASE g.done
      <4>1. r = Result(g, <<>>)
        BY <1>4, <2>2, <3>1 DEF Guarded, AnthropicWrite
      <4>2. g' = Unfinished(g)
        BY <1>5, <4>1, ResultIs
      <4>3. PICK n : n = g'
        OBVIOUS
      <4> QED
        BY <1>1, <4>2, <4>3, UnfinishedIs
    <3>2. CASE ~g.done
      <4>1. r = TrimLine(g, l)
        BY <1>4, <2>2, <3>2 DEF Guarded, AnthropicWrite
      <4>2. GuardOK(r.g)
        BY <1>1, <1>6, <2>2, <3>2, <4>1, TrimLineTells DEF Meets
      <4>3. r.g.pend = g.pend
        BY <1>1, <4>1, PendKept
      <4>4. PICK n : n = g'
        OBVIOUS
      <4>5. n.pend = r.g.pend
        BY <1>5, <4>2, <4>4, UnfinishedIs
      <4> QED
        BY <4>3, <4>4, <4>5
    <3> QED
      BY <3>1, <3>2
  <2> QED
    BY <1>4, <1>6, <2>1, <2>2 DEF Fitting
<1> QED
  BY <1>2, <1>4, <1>12, <1>13, <1>14, <1>15, TextNext

-----------------------------------------------------------------------------
(* The stream ends.                                                        *)

LEMMA PendingSays ==
  ASSUME proto = "anthropic", NEW h, GuardOK(h), Emits(h)
  PROVE  Says(Pending(h), h.textIdx, h.pend)
<1>1. h.pend \in Seq(Chars) /\ h.textIdx \in Int
  BY DEF GuardOK, AnthropicGuards
<1>2. CASE h.pend = <<>>
  <2>1. Pending(h) = <<>>
    BY <1>2 DEF Pending, EmitText
  <2> QED
    BY <1>2, <2>1, NothingSaid, EmptySays
<1>3. CASE h.pend # <<>>
  <2>1. Pending(h) = EmitText(h.textIdx, h.pend)
    BY <1>3 DEF Pending, Emits
  <2> QED
    BY <1>1, <2>1, EmitTextSays
<1> QED
  BY <1>2, <1>3

LEMMA FinishSays ==
  ASSUME proto \in {"anthropic", "openai"}, NEW n, GuardOK(n), Emits(n)
  PROVE  Says(Leftover(n) \o StreamEnd(n), At(n), n.pend)
<1>1. SaysNothing(StreamEnd(n))
  <2>1. "end_turn" \in Reasons
    BY DEF Reasons, Closed!Reasons
  <2>2. StreamEnd(n) = <<>> \/ StreamEnd(n) \in Seq(SilentLines)
    BY <2>1, SilentEvents DEF StreamEnd
  <2> QED
    BY <2>2, NothingSaid, SilentSays
<1>2. Says(Leftover(n), At(n), n.pend)
  <2>1. CASE proto = "anthropic"
    <3>1. n.open \in SUBSET Blocks
      BY <2>1 DEF GuardOK, AnthropicGuards
    <3>2. Closing(n.open) \in Seq(SilentLines)
      BY <3>1, ClosingSilent
    <3>3. SaysNothing(Closing(n.open))
      BY <3>2, SilentSays
    <3>4. Says(Pending(n), n.textIdx, n.pend)
      BY <2>1, PendingSays
    <3> QED
      BY <2>1, <3>3, <3>4, SaysBefore DEF Leftover, At
  <2>2. CASE proto = "openai"
    <3>1. n.pend \in Seq(Chars)
      BY <2>2 DEF GuardOK, OpenAIGuards
    <3> QED
      BY <2>2, <3>1, FlushChunkSays DEF Leftover, At
  <2> QED
    BY <2>1, <2>2
<1> QED
  BY <1>1, <1>2, SaysBefore

(* All of a line under way is the line itself.                             *)
LEMMA WholeInHand ==
  ASSUME proto \in {"anthropic", "openai"}, UpOK, up.todo # <<>>,
         NEW l \in Halves(Head(up.todo)), l.whole
  PROVE  l = Head(up.todo)
<1>1. PICK t : t = Head(up.todo)
  OBVIOUS
<1>2. t \in Lines
  BY <1>1, TodoIs DEF StreamLine, GoodLines
<1>3. \/ l = [t EXCEPT !.type = "cut", !.whole = FALSE]
      \/ l = [t EXCEPT !.idx = NoIndex, !.whole = FALSE]
      \/ l = [t EXCEPT !.whole = FALSE]
      \/ l = t
  BY <1>1, <1>2 DEF Halves, Lines, Kinds
<1>4. l = t \/ l.whole = FALSE
  BY <1>2, <1>3 DEF Lines
<1> QED
  BY <1>1, <1>4

(* The last line, when words are looked for.                               *)
LEMMA LastLineShown ==
  ASSUME StreamInv, TextInv, ended = "no", trim, ~g.done,
         NEW r, r = LastLine(g), NEW d, d = ReceiveAll(cl, r.out),
         NEW s, s = IF g.buffer # <<>> THEN Heard(sent, g.buffer[1]) ELSE sent
  PROVE  Hears(d) /\ \E V : Shown(r.g, s, d.text, V)
<1>1. /\ proto \in {"anthropic", "openai"} /\ trim \in BOOLEAN /\ Running
      /\ GuardOK(g) /\ UpOK /\ UpTypeOK /\ HalfOK /\ Sane(cl) /\ cl.tail = <<>>
  <2>1. proto \in {"anthropic", "openai"} /\ trim \in BOOLEAN /\ Running
    BY DEF StreamInv
  <2> QED
    BY <2>1, RunningSane DEF Running, UpOK, HalfOK
<1>2. sent \in BlockTexts /\ Fresh(up, sent) /\ Shown(g, sent, cl.text, Growing(up))
  BY DEF TextInv
<1>3. Hears(cl)
  BY <1>1, <1>2 DEF Hears, Shown, Stands
<1>4. CASE g.buffer = <<>>
  <2>1. r = Result(Unfinished(g), <<>>) /\ Unfinished(g) = g
    BY <1>1, <1>4, UnfinishedIs DEF LastLine
  <2>2. r.g = g /\ d = cl
    BY <2>1, ResultIs, ReceiveNone
  <2> QED
    BY <1>2, <1>3, <1>4, <2>2
<1>5. CASE g.buffer # <<>>
  <2>1. PICK l, e : l = g.buffer[1] /\ e = Unfinished(g)
    OBVIOUS
  <2>2. r = Trimmed(e, l) /\ s = Heard(sent, l)
    BY <1>5, <2>1 DEF LastLine
  <2>3. up.todo # <<>> /\ l \in Halves(Head(up.todo))
    BY <1>1, <1>5, <2>1 DEF HalfOK
  <2>4. StreamLine(l)
    BY <1>1, <1>5, <2>1, UnderWay
  <2>5. l.whole => l = Head(up.todo)
    BY <1>1, <2>3, WholeInHand
  <2>6. GuardOK(e) /\ ~e.done
    BY <1>1, <2>1, UnfinishedIs
  <2>7. e = [g EXCEPT !.buffer = <<>>]
    BY <2>1 DEF Unfinished
  <2>8. Shown(e, sent, cl.text, Growing(up))
    BY <1>1, <1>2, <2>7, BufferShown
  <2>9. /\ Speaks(l) => l.idx \in Growing(up) /\ (proto = "anthropic" => l.idx \in g.open)
        /\ proto = "openai" /\ l.k = "data" /\ l.whole /\ l.type \in {"chunk", "finish"}
             => l.idx = 0
    BY <2>3, <2>4, <2>5, LineFits
  <2>10. proto = "anthropic" => e.open = g.open
    BY <1>1, <2>7 DEF GuardOK, AnthropicGuards
  <2>11. Frontier(Growing(up), sent)
    BY <1>1, <1>2, LastGrows
  <2>12. Hears(d) /\ Shown(r.g, Heard(sent, l), d.text, GoingOn(e, l, Growing(up)))
    BY <1>1, <1>3, <2>2, <2>4, <2>6, <2>8, <2>9, <2>10, <2>11, TrimmedShown
  <2> QED
    BY <2>2, <2>12
<1> QED
  BY <1>4, <1>5

LEMMA TextEnd ==
  ASSUME StreamInv, TextInv, ended = "no", End
  PROVE  TextInv'
<1>1. /\ proto \in {"anthropic", "openai"} /\ trim \in BOOLEAN /\ Running
      /\ GuardOK(g) /\ HalfOK /\ Sane(cl)
  <2>1. proto \in {"anthropic", "openai"} /\ trim \in BOOLEAN /\ Running
    BY DEF StreamInv
  <2> QED
    BY <2>1, RunningSane DEF Running
<1>2. PICK f : f = Finish(g)
  OBVIOUS
<1>3. /\ trim' = trim /\ ended' \in {"eof", "error"}
      /\ cl' = HangUp(ReceiveAll(cl, f.out))
      /\ sent' = IF trim /\ g.buffer # <<>> THEN Heard(sent, g.buffer[1]) ELSE sent
      /\ cut' # "line" /\ ~trim => g.buffer = <<>> /\ cl.tail = <<>>
  BY <1>2 DEF End, Finish, NothingOwed
<1>4. PICK r : r = LastLine(g)
  OBVIOUS
<1>5. PICK d, s : d = ReceiveAll(cl, r.out) /\ s = sent'
  OBVIOUS
<1>6. \A y : Hears(y) => HangUp(y) = y
  BY DEF Hears, HangUp
<1>7. ~g.done => GuardOK(r.g) /\ r.out \in Seq(GoodLines)
  <2>1. ASSUME ~g.done, trim, g.buffer # <<>>
        PROVE  GuardOK(r.g) /\ r.out \in Seq(GoodLines)
    <3>1. \/ Meets(g.buffer[1], r)
          \/ ~r.g.done
      BY <1>1, <1>4, <2>1, LastLineTells
    <3> QED
      BY <1>1, <1>4, <2>1, LastLineTells
  <2> QED
    BY <1>1, <1>4, LastLineTells
<1>8. sent \in BlockTexts /\ sent' \in BlockTexts
  <2>1. sent \in BlockTexts
    BY DEF TextInv
  <2>2. ASSUME g.buffer # <<>> PROVE LineOK(g.buffer[1])
    BY <1>1, <2>2, UnderWay DEF StreamLine, GoodLines
  <2> QED
    BY <1>3, <2>1, <2>2, HeardIs
<1>9. CASE trim
  <2>1. \E h, W : /\ Shown(h, s, cl'.text, W) /\ cl'.text \in BlockTexts
                  /\ h.done \/ h.pend = <<>>
    <3>1. CASE g.done
      <4>1. f = Result(Unfinished(g), <<>>)
        <5>1. g.buffer = <<>>
          BY <1>1, <3>1 DEF HalfOK
        <5>2. r = Result(Unfinished(g), <<>>) /\ Unfinished(g) = g
          BY <1>1, <1>4, <5>1, UnfinishedIs DEF LastLine
        <5>3. <<>> \in Seq(GoodLines)
          OBVIOUS
        <5>4. GuardOK(r.g) /\ r.out \in Seq(GoodLines)
          <6>1. PICK e : e = <<>>
            OBVIOUS
          <6>2. r.g = g /\ r.out = e
            BY <5>2, <6>1, ResultIs
          <6> QED
            BY <1>1, <5>3, <6>1, <6>2
        <5> QED
          BY <1>1, <1>2, <1>4, <3>1, <5>4, FinishIs
      <4>2. Shown(g, sent, cl.text, Growing(up))
        BY <1>9 DEF TextInv
      <4>3. ReceiveAll(cl, f.out) = cl
        BY <4>1, ResultIs, ReceiveNone
      <4>4. cl.text \in BlockTexts
        BY <3>1, <4>2 DEF Shown, CutShort
      <4>5. Hears(cl)
        BY <1>1, <1>9, <4>4 DEF Hears, HalfOK
      <4>6. cl' = cl /\ s = sent
        BY <1>1, <1>3, <1>5, <1>6, <3>1, <4>3, <4>5 DEF HalfOK
      <4> QED
        BY <3>1, <4>2, <4>4, <4>6
    <3>2. CASE ~g.done
      <4>1. Hears(d) /\ \E V : Shown(r.g, s, d.text, V)
        BY <1>3, <1>4, <1>5, <1>9, <3>2, LastLineShown
      <4>2. PICK V : Shown(r.g, s, d.text, V)
        BY <4>1
      <4>3. CASE r.g.done
        <5>1. f = r
          BY <1>1, <1>2, <1>4, <1>7, <3>2, <4>3, FinishIs
        <5>2. cl' = d
          BY <1>3, <1>5, <1>6, <4>1, <5>1
        <5> QED
          BY <4>1, <4>2, <4>3, <5>2 DEF Hears
      <4>4. CASE ~r.g.done
        <5>1. PICK n, q, u : n = r.g /\ q = Leftover(n) \o StreamEnd(n) /\ u = ReceiveAll(d, q)
          OBVIOUS
        <5>2. f.out = r.out \o q /\ f.g.pend = <<>>
          BY <1>1, <1>2, <1>4, <1>7, <3>2, <4>4, <5>1, FinishIs
        <5>3. Emits(n) /\ GuardOK(n) /\ HeldSilent(n) /\ Stands(n.pend, At(n), s, d.text, V)
          BY <1>7, <3>2, <4>2, <4>4, <5>1 DEF Shown
        <5>4. Says(q, At(n), n.pend)
          BY <1>1, <5>1, <5>3, FinishSays
        <5>5. Hears(u) /\ u.text = Adds(d.text, At(n), n.pend)
          BY <4>1, <5>1, <5>4 DEF Says
        <5>6. ReceiveAll(cl, f.out) = u
          <6>1. q \in Seq(GoodLines)
            BY <5>4 DEF Says
          <6>2. PICK o : o = r.out
            OBVIOUS
          <6>3. o \in Seq(GoodLines) /\ d = ReceiveAll(cl, o) /\ f.out = o \o q
            BY <1>5, <1>7, <3>2, <5>2, <6>2
          <6>4. ReceiveAll(cl, o \o q) = ReceiveAll(ReceiveAll(cl, o), q)
            BY <6>1, <6>3, ReceiveMore
          <6> QED
            BY <5>1, <6>3, <6>4
        <5>7. cl' = u
          BY <1>3, <1>6, <5>5, <5>6
        <5>8. PICK e, x, p, at : e = <<>> /\ x = d.text /\ p = n.pend /\ at = At(n)
          OBVIOUS
        <5>9. Stands(e, 0, s, Adds(x, at, p), {})
          BY <5>3, <5>8, FlushStands
        <5>10. PICK h : h = [n EXCEPT !.pend = e]
          OBVIOUS
        <5>11. h.pend = <<>> /\ ~h.done
          BY <4>4, <5>1, <5>3, <5>8, <5>10 DEF GuardOK, AnthropicGuards, OpenAIGuards
        <5>12. HeldSilent(h) /\ Emits(h)
          <6>1. proto = "anthropic" => h.held = n.held
            BY <5>3, <5>10 DEF GuardOK, AnthropicGuards
          <6> QED
            BY <5>3, <5>11, <6>1 DEF HeldSilent, Emits
        <5>13. Stands(h.pend, At(h), s, u.text, {})
          BY <5>5, <5>8, <5>9, <5>11, NothingHeld
        <5>14. Shown(h, s, cl'.text, {})
          BY <5>7, <5>11, <5>12, <5>13 DEF Shown
        <5> QED
          BY <5>5, <5>7, <5>11, <5>14 DEF Hears
      <4> QED
        BY <4>3, <4>4
    <3> QED
      BY <3>1, <3>2
  <2>2. PICK h, W : /\ Shown(h, s, cl'.text, W) /\ cl'.text \in BlockTexts
                    /\ h.done \/ h.pend = <<>>
    BY <2>1
  <2>3. PICK x : x = cl'.text
    OBVIOUS
  <2>4. \A b \in Blocks : Begun(x[b], s, b) /\ Given(x[b], s, b)
    BY <2>2, <2>3, ShownIsDue
  <2>5. WordsKept'
    BY <1>3, <1>5, <1>9, <2>3, <2>4, WordsKeptIf
  <2> QED
    BY <1>3, <1>8, <2>5 DEF TextInv
<1>10. CASE ~trim
  <2>1. ASSUME cut' # "line" PROVE cl'.text = sent'
    <3>1. g.buffer = <<>> /\ cl.tail = <<>> /\ cl.text = sent /\ sent' = sent
      BY <1>3, <1>10, <2>1 DEF TextInv
    <3>2. r = Result(Unfinished(g), <<>>) /\ Unfinished(g) = g
      BY <1>1, <1>4, <3>1, UnfinishedIs DEF LastLine
    <3>3. PICK e : e = <<>>
      OBVIOUS
    <3>4. r.g = g /\ r.out = e /\ ~g.done /\ g.pend = e
      BY <1>1, <1>10, <3>2, <3>3, ResultIs DEF GuardOK
    <3>5. PICK q : q = Leftover(g) \o StreamEnd(g)
      OBVIOUS
    <3>6. f.out = e \o q
      <4>1. GuardOK(r.g) /\ r.out \in Seq(GoodLines)
        BY <1>7, <3>4
      <4>2. ~r.g.done
        BY <3>4
      <4>3. Finish(g).out = r.out \o (Leftover(r.g) \o StreamEnd(r.g))
        BY <1>1, <1>4, <3>4, <4>1, <4>2, FinishIs
      <4>4. r.out \o (Leftover(r.g) \o StreamEnd(r.g)) = e \o q
        BY <3>4, <3>5
      <4> QED
        BY <1>2, <4>3, <4>4
    <3>7. Emits(g)
      BY <3>3, <3>4 DEF Emits
    <3>8. Says(q, At(g), e)
      BY <1>1, <3>4, <3>5, <3>7, FinishSays
    <3>9. SaysNothing(q) /\ SaysNothing(e)
      BY <3>3, <3>8, EmptySays, NothingSaid
    <3>10. SaysNothing(e \o q)
      BY <3>9, NothingTwice
    <3>11. Hears(cl)
      BY <1>1, <1>8, <3>1 DEF Hears
    <3> QED
      BY <1>3, <1>6, <3>1, <3>6, <3>10, <3>11 DEF SaysNothing
  <2>2. WordsKept'
    <3>1. Finished' /\ cut' # "line" =>
            \A b \in Blocks : IF trim THEN Given(cl'.text[b], sent', b)
                              ELSE cl'.text[b] = sent'[b]
      BY <1>10, <2>1
    <3> QED
      BY <1>3, <1>10, <3>1, WordsKeptIf
  <2> QED
    BY <1>3, <1>8, <2>2 DEF TextInv
<1> QED
  BY <1>1, <1>9, <1>10

-----------------------------------------------------------------------------
(* The theorem.                                                            *)

LEMMA TextInit == Init => TextInv
<1> SUFFICES ASSUME Init PROVE TextInv
  OBVIOUS
<1>1. /\ proto \in {"anthropic", "openai"} /\ ended = "no" /\ up = Upstream
      /\ g = (IF proto = "anthropic" THEN AnthropicInit ELSE OpenAIInit)
      /\ cl = Client(proto = "anthropic") /\ trim \in BOOLEAN
      /\ sent = [b \in Blocks |-> <<>>]
  BY StreamAssumption DEF Init
<1>2. PICK e : e = <<>>
  OBVIOUS
<1>3. e \in Seq(Chars) /\ Len(e) = 0
  BY <1>2
<1>4. sent \in BlockTexts /\ \A b \in Blocks : sent[b] = e
  BY <1>1, <1>2, <1>3 DEF BlockTexts
<1>5. cl.text = sent
  BY <1>1 DEF Client
<1>6. Fresh(up, sent)
  BY <1>2, <1>4 DEF Fresh
<1>7. NoneAhead
  BY <1>1 DEF NoneAhead, Upstream
<1>8. ~HasStop(e)
  BY <1>3 DEF HasStop, Hits
<1>9. ~g.done /\ g.pend = e
  BY <1>1, <1>2 DEF AnthropicInit, OpenAIInit
<1>10. HeldSilent(g) /\ Emits(g)
  <2>1. proto = "anthropic" => g.held = e
    BY <1>1, <1>2 DEF AnthropicInit
  <2>2. e \in Seq(SilentLines)
    BY <1>2
  <2>3. g.pend = <<>>
    BY <1>2, <1>9
  <2> QED
    BY <2>1, <2>2, <2>3 DEF HeldSilent, Emits
<1>11. Stands(e, At(g), sent, cl.text, Growing(up))
  <2>1. \A b : HeldOf(e, At(g), b) = e
    BY <1>2 DEF HeldOf
  <2>2. e \o e = e
    BY <1>2, <1>3, NothingJoined
  <2>3. Len(e) <= Holdback /\ Holdback \in Nat
    BY <1>3, HoldbackIs
  <2>4. \A b \in Growing(up) : b \in Blocks
    BY DEF Growing
  <2>5. Waits(e, e)
    BY <1>3, <2>3 DEF Waits
  <2> QED
    BY <1>2, <1>3, <1>4, <1>5, <1>8, <2>1, <2>2, <2>4, <2>5 DEF Stands
<1> QED
  BY <1>1, <1>4, <1>5, <1>6, <1>7, <1>9, <1>10, <1>11 DEF TextInv, TextAhead, Shown

LEMMA TextStep ==
  ASSUME StreamInv, TextInv, [Next]_vars
  PROVE  TextInv'
<1>0. ReadLine \/ ReadHalf \/ Flood \/ End => ended = "no"
  BY DEF ReadLine, ReadHalf, Flood, End
<1>1. CASE Send
  BY <1>1, TextSend
<1>2. CASE ReadLine
  BY <1>2, <1>0, TextReadLine
<1>3. CASE ReadHalf
  BY <1>3, <1>0, TextReadHalf
<1>4. CASE Flood
  BY <1>4, <1>0, TextFlood
<1>5. CASE End
  BY <1>5, <1>0, TextEnd
<1>6. CASE Disconnect
  BY <1>6, TextDisconnect
<1>7. CASE UNCHANGED vars
  BY <1>7 DEF vars, TextInv, WordsKept, NoWordShown, WordsApart, TextKept, Finished, Fresh, TextAhead, NoneAhead, Ahead,
              Fitting, Growing, FinishAhead, Settles, Shown, HeldSilent, Emits, At,
              DataLines
<1> QED
  BY <1>1, <1>2, <1>3, <1>4, <1>5, <1>6, <1>7 DEF Next

LEMMA TextInvKept ==
  ASSUME StreamInv, TextInv
  PROVE  NoWordShown /\ (WordsApart => TextKept)
<1>1. CASE ended # "no"
  BY <1>1 DEF TextInv, WordsKept
<1>2. CASE ended = "no"
  <2>1. ~Finished
    BY <1>2 DEF Finished
  <2>2. ASSUME trim, NEW b \in Blocks PROVE Begun(cl.text[b], sent, b)
    <3>1. Shown(g, sent, cl.text, Growing(up))
      BY <1>2, <2>2 DEF TextInv
    <3> QED
      BY <3>1, ShownIsDue
  <2>3. NoWordShown
    BY <2>1, <2>2 DEF NoWordShown, Begun
  <2>4. WordsApart => TextKept
    BY <2>1, <2>2 DEF TextKept, Due, Begun
  <2> QED
    BY <2>3, <2>4
<1> QED
  BY <1>1, <1>2

(* Whatever the stop words are, also if they lie inside each other: the    *)
(* client never sees one, what it sees of a text is its beginning, and of  *)
(* a finished stream nothing is missing unless a word came                 *)
(* (trimContentBlockDelta and trimChunk of internal/sseguard/guard.go).    *)
THEOREM StreamWordsWithheld == Spec => []NoWordShown
<1>1. Init => TextInv
  BY TextInit
<1>2. StreamInv /\ TextInv /\ [Next]_vars => TextInv'
  BY TextStep
<1>3. StreamInv /\ TextInv => NoWordShown
  BY TextInvKept
<1> QED
  BY <1>1, <1>2, <1>3, StreamAlways, PTL DEF Spec

(* Whatever the stop words are, as long as they are apart, however a text  *)
(* was split into deltas and wherever the stream broke off: the client has *)
(* seen nothing of a text from its first word on, nor of a later block,    *)
(* and of a finished stream it has all the rest, none of it held back for  *)
(* good (trimContentBlockDelta and trimChunk of internal/sseguard/guard.go, *)
(* and finish there).                                                      *)
THEOREM StreamTextKept ==
  ASSUME WordsApart
  PROVE  Spec => []TextKept
<1>1. Init => TextInv
  BY TextInit
<1>2. StreamInv /\ TextInv /\ [Next]_vars => TextInv'
  BY TextStep
<1>3. StreamInv /\ TextInv => TextKept
  BY TextInvKept
<1> QED
  BY <1>1, <1>2, <1>3, StreamAlways, PTL DEF Spec
-----------------------------------------------------------------------------
(* The events of a client that reads a stream event by event.              *)

Named(c) == Sane(c) /\ c.tail = <<>> /\ c.named = (proto = "anthropic") /\ ~c.malformed
Rests(c) == Named(c) /\ c.data = <<>>
Expects(c, l) == Rests(c) /\ (proto = "anthropic" => c.name = l.type)
Complete(c) == Named(c) /\ (c.data = <<>> \/ WellFormed(c))

SameEvent(c, d) ==
  d.named = c.named /\ d.name = c.name /\ d.data = c.data /\ d.malformed = c.malformed

LEMMA ApplySameEvent ==
  ASSUME NEW c, ClientOK(c), NEW l
  PROVE  SameEvent(c, Apply(c, l))
<1>1. c = [f \in ClientFields |-> c[f]]
      /\ {"named", "name", "data", "malformed"} \subseteq ClientFields
  BY DEF ClientOK, ClientFields
<1>2. \A v : /\ SameEvent(c, [c EXCEPT !.open = v]) /\ SameEvent(c, [c EXCEPT !.reason = v])
             /\ SameEvent(c, [c EXCEPT !.ends = v]) /\ SameEvent(c, [c EXCEPT !.failed = v])
  BY <1>1 DEF SameEvent
<1>3. CASE l.type = "finish"
  <2> DEFINE i == l.idx
             w == IF l.text = NoText THEN c.text[i] ELSE c.text[i] \o l.text
             r == "upstream"
  <2>1. Apply(c, l) = Reasoned(c, r, i, w)
    BY <1>3 DEF Apply, Reasoned
  <2> HIDE DEF w, r, i
  <2>2. SameEvent(c, Reasoned(c, r, i, w))
    BY <1>1 DEF Reasoned, SameEvent, ClientFields
  <2> QED
    BY <2>1, <2>2
<1>4. CASE l.type \in {"delta", "chunk"} /\ l.text # NoText
  <2>1. Apply(c, l) = [c EXCEPT !.text[l.idx] = @ \o l.text]
    BY <1>4 DEF Apply
  <2>2. SameEvent(c, [c EXCEPT !.text[l.idx] = @ \o l.text])
    BY <1>1 DEF SameEvent
  <2> QED
    BY <2>1, <2>2
<1>5. CASE l.type # "finish" /\ ~(l.type \in {"delta", "chunk"} /\ l.text # NoText)
  <2>1. \/ Apply(c, l) = c
        \/ \E v : \/ Apply(c, l) = [c EXCEPT !.open = v]
                  \/ Apply(c, l) = [c EXCEPT !.reason = v]
                  \/ Apply(c, l) = [c EXCEPT !.ends = v]
                  \/ Apply(c, l) = [c EXCEPT !.failed = v]
    BY <1>5 DEF Apply
  <2>2. SameEvent(c, c)
    BY DEF SameEvent
  <2> QED
    BY <1>2, <2>1, <2>2
<1> QED
  BY <1>3, <1>4, <1>5

(* A line of each kind.                                                    *)
LEMMA TakesName ==
  ASSUME NEW c, Rests(c), NEW l, LineOK(l), l.k = "event"
  PROVE  Rests(Receive(c, l)) /\ Receive(c, l).name = l.type
<1>1. Sane(Receive(c, l)) /\ Receive(c, l).tail = <<>>
  BY ReceiveTells DEF Rests, Named
<1>2. Receive(c, l) = [c EXCEPT !.name = l.type]
  <2>1. Receive(c, l) = Take(c, l)
    BY DEF Receive, Rests, Named
  <2>2. l # Blank
    BY BlankIs
  <2> QED
    BY <2>1, <2>2 DEF Take
<1>3. c = [f \in ClientFields |-> c[f]]
  BY DEF Rests, Named, Sane, ClientOK
<1> QED
  BY <1>1, <1>2, <1>3 DEF Rests, Named, ClientFields

LEMMA TakesData ==
  ASSUME NEW c, NEW l, Expects(c, l), LineOK(l), l.k = "data", l.whole
  PROVE  Complete(Receive(c, l))
<1>1. Sane(Receive(c, l)) /\ Receive(c, l).tail = <<>>
  BY ReceiveTells DEF Expects, Rests, Named
<1>2. PICK p, q : p = [type |-> l.type, whole |-> l.whole] /\ q = <<p>>
  OBVIOUS
<1>3. Append(c.data, p) = q
  <2>1. c.data = <<>>
    BY DEF Expects, Rests
  <2>2. Append(<<>>, p) = <<p>>
    OBVIOUS
  <2> QED
    BY <1>2, <2>1, <2>2
<1>4. PICK d : d = [c EXCEPT !.data = q]
  OBVIOUS
<1>5. Receive(c, l) = Apply(d, l)
  <2>1. l # Blank
    BY BlankIs
  <2>2. Receive(c, l) = Take(c, l)
    BY DEF Receive, Expects, Rests, Named
  <2> QED
    BY <1>2, <1>3, <1>4, <2>1, <2>2 DEF Take
<1>6. c = [f \in ClientFields |-> c[f]]
  BY DEF Expects, Rests, Named, Sane, ClientOK
<1>7. /\ d.named = c.named /\ d.name = c.name /\ d.malformed = c.malformed /\ d.data = q
      /\ ClientOK(d)
  BY <1>4, <1>6 DEF ClientFields, ClientOK, Expects, Rests, Named, Sane
<1>8. SameEvent(d, Receive(c, l))
  BY <1>5, <1>7, ApplySameEvent
<1>9. Len(q) = 1 /\ q[1] = p /\ p.whole /\ p.type = l.type
  BY <1>2
<1>10. PICK e : e = Receive(c, l)
  OBVIOUS
<1>11. /\ e.data = q /\ e.named = c.named /\ e.name = c.name /\ e.malformed = c.malformed
  BY <1>7, <1>8, <1>10 DEF SameEvent
<1>12. c.named = (proto = "anthropic") /\ ~c.malformed
       /\ (proto = "anthropic" => c.name = l.type)
  BY DEF Expects, Rests, Named
<1> QED
  BY <1>1, <1>9, <1>10, <1>11, <1>12 DEF Complete, Named, WellFormed

LEMMA TakesBlank ==
  ASSUME NEW c, Complete(c)
  PROVE  Rests(Receive(c, Blank))
<1>1. LineOK(Blank) /\ Blank.k = "blank"
  BY BlankIs DEF QuietLines, GoodLines
<1>2. Sane(Receive(c, Blank)) /\ Receive(c, Blank).tail = <<>>
  BY <1>1, ReceiveTells DEF Complete, Named
<1>3. PICK m : m = (c.malformed \/ (c.data # <<>> /\ ~WellFormed(c)))
  OBVIOUS
<1>4. m = FALSE
  BY <1>3 DEF Complete, Named
<1>5. Receive(c, Blank) = Take(c, Blank)
  BY DEF Receive, Complete, Named
<1>6. Take(c, Blank) = [c EXCEPT !.malformed = m, !.name = "cut", !.data = <<>>]
  BY <1>1, <1>3 DEF Take
<1>7. c = [f \in ClientFields |-> c[f]]
  BY DEF Complete, Named, Sane, ClientOK
<1>8. PICK e : e = <<>>
  OBVIOUS
<1>9. PICK d : d = [c EXCEPT !.malformed = m, !.name = "cut", !.data = e]
  OBVIOUS
<1>10. d.malformed = m /\ d.data = e /\ d.named = c.named
  BY <1>7, <1>9 DEF ClientFields
<1> QED
  BY <1>2, <1>4, <1>5, <1>6, <1>8, <1>9, <1>10 DEF Rests, Named, Complete

LEMMA TakesJunk ==
  ASSUME NEW c, Rests(c)
  PROVE  Rests(Receive(c, Junk))
<1>1. Junk.k = "junk" /\ Blank.k = "blank"
  BY BlankIs
<1>2. Receive(c, Junk) = Take(c, Junk)
  BY DEF Receive, Rests, Named
<1>3. Take(c, Junk) = c
  BY <1>1 DEF Take
<1> QED
  BY <1>2, <1>3

(* Sequences of lines after which the client waits for an event: from      *)
(* between two events, or from the end of one.                             *)
Settled(out) ==
  /\ out \in Seq(GoodLines)
  /\ \A c : Rests(c) => Rests(ReceiveAll(c, out))

Settling(out) ==
  /\ out \in Seq(GoodLines)
  /\ \A c : Complete(c) => Rests(ReceiveAll(c, out))

LEMMA SettledMore ==
  ASSUME NEW s, NEW t, Settled(t)
  PROVE  /\ Settled(s) => Settled(s \o t)
         /\ Settling(s) => Settling(s \o t)
<1>1. ASSUME NEW u \in Seq(GoodLines) PROVE u \o t \in Seq(GoodLines)
  BY DEF Settled
<1>2. ASSUME NEW u \in Seq(GoodLines), NEW c
      PROVE  ReceiveAll(c, u \o t) = ReceiveAll(ReceiveAll(c, u), t)
  BY ReceiveMore DEF Settled
<1> QED
  BY <1>1, <1>2 DEF Settled, Settling

LEMMA SettledNone ==
  ASSUME NEW e, e = <<>>
  PROVE  Settled(e)
<1>1. e \in Seq(GoodLines)
  OBVIOUS
<1> QED
  BY <1>1, ReceiveNone DEF Settled

(* A made-up event.                                                        *)
LEMMA SettledEvent ==
  ASSUME proto = "anthropic", NEW l, l \in GoodLines, l.k = "data", l.whole
  PROVE  Settled(<<EventLine(l.type), l, Blank>>)
<1>1. PICK a, z : a = EventLine(l.type) /\ z = Blank
  OBVIOUS
<1>2. a \in GoodLines /\ z \in GoodLines /\ a.k = "event" /\ a.type = l.type
  <2>1. l.type \in Types
    BY DEF GoodLines, Lines
  <2> QED
    BY <1>1, <2>1, EventLineIs, BlankIs DEF QuietLines
<1>3. PICK x, y, q : x = <<a>> /\ y = <<l>> /\ q = <<z>>
  OBVIOUS
<1>4. x \in Seq(GoodLines) /\ y \in Seq(GoodLines) /\ q \in Seq(GoodLines)
  BY <1>2, <1>3
<1>5. <<a, l, z>> = x \o <<l, z>> /\ <<l, z>> = y \o q
  BY <1>2, <1>3, OneAndOne, OneAndTwo
<1>6. ASSUME NEW c, Rests(c) PROVE Rests(ReceiveAll(c, x \o (y \o q)))
  <2>1. PICK d, e : d = ReceiveAll(c, x) /\ e = ReceiveAll(d, y)
    OBVIOUS
  <2>2. ReceiveAll(c, x \o (y \o q)) = ReceiveAll(d, y \o q)
    <3>1. y \o q \in Seq(GoodLines)
      BY <1>4
    <3> QED
      BY <1>4, <2>1, <3>1, ReceiveMore
  <2>3. ReceiveAll(d, y \o q) = ReceiveAll(e, q)
    BY <1>4, <2>1, ReceiveMore
  <2>4. d = Receive(c, a) /\ e = Receive(d, l) /\ ReceiveAll(e, q) = Receive(e, z)
    BY <1>3, <2>1, ReceiveOne
  <2>5. Expects(d, l)
    BY <1>2, <1>6, <2>4, TakesName DEF Expects, GoodLines
  <2>6. Complete(e)
    BY <2>4, <2>5, TakesData DEF GoodLines
  <2> QED
    BY <1>1, <2>2, <2>3, <2>4, <2>6, TakesBlank
<1>7. x \o (y \o q) \in Seq(GoodLines)
  BY <1>4
<1> QED
  BY <1>1, <1>5, <1>6, <1>7 DEF Settled

LEMMA SettledStop ==
  ASSUME proto = "anthropic", NEW i \in Int
  PROVE  Settling(BlockStop(i)) /\ Settled(BlockStop(i))
<1>1. PICK z, w : z = <<Blank>> /\ w = BlockStopBare(i)
  OBVIOUS
<1>2. Settled(w)
  <2>1. PICK l : l = DataLine("stop", i, NoText)
    OBVIOUS
  <2>2. "stop" \in Types
    BY DEF Types
  <2>3. Reads(l, "data", "stop", i, NoText) /\ l \in GoodLines
    BY <2>1, <2>2, DataLineReads, NoTextIs, MadeLines
  <2>4. l.whole /\ l.k = "data" /\ l.type = "stop"
    BY <2>3 DEF Reads
  <2>5. Settled(<<EventLine(l.type), l, Blank>>)
    BY <2>3, <2>4, SettledEvent
  <2> QED
    BY <1>1, <2>1, <2>4, <2>5 DEF BlockStopBare
<1>3. z \in Seq(GoodLines)
  <2>1. Blank \in GoodLines
    BY BlankIs DEF QuietLines
  <2> QED
    BY <1>1, <2>1
<1>4. ASSUME NEW c, Complete(c) PROVE Rests(ReceiveAll(c, z))
  BY <1>1, <1>4, ReceiveOne, TakesBlank
<1>5. Settling(z) /\ Settled(z)
  BY <1>3, <1>4 DEF Settling, Settled, Rests, Complete
<1>6. BlockStop(i) = z \o w
  BY <1>1 DEF BlockStop, BlockStopBare
<1> QED
  BY <1>2, <1>5, <1>6, SettledMore

LEMMA SettledEnd ==
  ASSUME proto = "anthropic"
  PROVE  Settled(MessageStopOnly) /\ Settled(MessageStop("end_turn"))
<1>1. PICK l, m : l = DataLine("mstop", 0, NoText) /\ m = DataLine("mdelta", 0, <<"end_turn">>)
  OBVIOUS
<1>2. {"mstop", "mdelta"} \subseteq Types /\ 0 \in Int /\ "end_turn" \in Reasons
  BY DEF Types, Reasons, Closed!Reasons
<1>3. <<"end_turn">> \in Payloads
  BY <1>2 DEF Payloads
<1>4. /\ Reads(l, "data", "mstop", 0, NoText) /\ l \in GoodLines
      /\ Reads(m, "data", "mdelta", 0, <<"end_turn">>) /\ m \in GoodLines
  BY <1>1, <1>2, <1>3, DataLineReads, NoTextIs, MadeLines
<1>5. l.whole /\ l.k = "data" /\ l.type = "mstop" /\ m.whole /\ m.k = "data" /\ m.type = "mdelta"
  BY <1>4 DEF Reads
<1>6. Settled(<<EventLine(l.type), l, Blank>>) /\ Settled(<<EventLine(m.type), m, Blank>>)
  BY <1>4, <1>5, SettledEvent
<1>7. MessageStopOnly = <<EventLine(l.type), l, Blank>>
  BY <1>1, <1>5 DEF MessageStopOnly
<1>8. MessageStop("end_turn") = <<EventLine(m.type), m, Blank>> \o MessageStopOnly
  BY <1>1, <1>5 DEF MessageStop
<1> QED
  BY <1>6, <1>7, <1>8, SettledMore

LEMMA SettledClosing ==
  ASSUME proto = "anthropic", NEW S \in SUBSET Blocks
  PROVE  /\ Settled(Closing(S))
         /\ S # {} => Settling(Closing(S))
<1> DEFINE N == Cardinality(Blocks)
           upto[n \in 0 .. N] ==
             IF n = 0 THEN <<>>
             ELSE upto[n - 1] \o (IF n - 1 \in S THEN BlockStop(n - 1) ELSE <<>>)
<1>0. N \in Nat /\ Blocks = 0 .. N - 1
  BY StreamAssumption, FS_CardinalityType
<1>1. Closing(S) = upto[N]
  BY DEF Closing
<1>2. upto = CHOOSE f : f = [n \in 0 .. N |->
                IF n = 0 THEN <<>>
                ELSE f[n - 1] \o (IF n - 1 \in S THEN BlockStop(n - 1) ELSE <<>>)]
  BY DEF upto
<1> HIDE DEF upto, N
<1>3. IsClosing(upto, S, N)
  <2>1. PICK f : IsClosing(f, S, N)
    BY <1>0, ClosingExists
  <2> QED
    BY <1>2, <2>1 DEF IsClosing, StopOf
<1>4. /\ upto[0] = <<>>
      /\ \A n \in 1 .. N : upto[n] = upto[n - 1] \o StopOf(S, n)
  <2>1. \A n \in 0 .. N : upto[n] = IF n = 0 THEN <<>> ELSE upto[n - 1] \o StopOf(S, n)
    BY <1>3 DEF IsClosing
  <2>2. 0 \in 0 .. N /\ \A n \in 1 .. N : n \in 0 .. N /\ n # 0
    BY <1>0
  <2> QED
    BY <2>1, <2>2
<1> DEFINE Known(n) == /\ Settled(upto[n])
                       /\ IF \E b \in S : b < n THEN Settling(upto[n]) ELSE upto[n] = <<>>
           A == {n \in Nat : n <= N => Known(n)}
<1>5. 0 \in A
  <2>1. Settled(upto[0])
    BY <1>4, SettledNone
  <2>2. \A b \in S : ~(b < 0)
    <3> HIDE DEF Known, A
    <3> QED
      BY <1>0
  <2> QED
    BY <1>4, <2>1, <2>2
<1>6. ASSUME NEW n \in Nat, n \in A PROVE n + 1 \in A
  <2> SUFFICES ASSUME n + 1 <= N PROVE Known(n + 1)
    OBVIOUS
  <2>1. Known(n) /\ n \in Int /\ n + 1 \in 1 .. N /\ (n + 1) - 1 = n
    BY <1>0, <1>6
  <2>2. upto[n + 1] = upto[n] \o StopOf(S, n + 1)
    BY <1>4, <2>1
  <2>3. \A b \in S : b \in Nat /\ (b < n + 1 <=> b < n \/ b = n)
    <3> HIDE DEF Known, A
    <3> QED
      BY <1>0
  <2>4. PICK x, y : x = upto[n] /\ y = StopOf(S, n + 1)
    OBVIOUS
  <2>5. CASE n \in S
    <3>1. y = BlockStop(n)
      BY <2>1, <2>4, <2>5 DEF StopOf
    <3>2. Settled(y) /\ Settling(y)
      BY <2>1, <3>1, SettledStop
    <3>3. Settled(x)
      BY <2>1, <2>4
    <3>4. Settled(x \o y)
      BY <3>2, <3>3, SettledMore
    <3>5. Settling(x \o y)
      <4>1. CASE \E b \in S : b < n
        BY <2>1, <2>4, <3>2, <4>1, SettledMore
      <4>2. CASE ~\E b \in S : b < n
        <5>1. x = <<>>
          BY <2>1, <2>4, <4>2
        <5>2. \A u \in Seq(GoodLines) : <<>> \o u = u
          OBVIOUS
        <5>3. x \o y = y
          BY <3>2, <5>1, <5>2 DEF Settled
        <5> QED
          BY <3>2, <5>3
      <4> QED
        BY <4>1, <4>2
    <3>6. \E b \in S : b < n + 1
      BY <2>3, <2>5
    <3> QED
      BY <2>2, <2>4, <3>4, <3>5, <3>6
  <2>6. CASE n \notin S
    <3>1. y = <<>>
      BY <2>1, <2>4, <2>6 DEF StopOf
    <3>2. Settled(y)
      BY <3>1, SettledNone
    <3>3. Settled(x \o y) /\ (Settling(x) => Settling(x \o y))
      BY <2>1, <2>4, <3>2, SettledMore
    <3>4. \A b \in S : b < n + 1 <=> b < n
      BY <2>3, <2>6
    <3>5. x = <<>> => x \o y = <<>>
      BY <3>1
    <3> QED
      BY <2>1, <2>2, <2>4, <3>3, <3>4, <3>5
  <2> QED
    BY <2>5, <2>6
<1>7. Known(N)
  <2>1. Nat \subseteq A
    <3> HIDE DEF A
    <3> QED
      BY <1>5, <1>6, SetOfAllNaturals
  <2>2. N \in A /\ N <= N
    <3> HIDE DEF A
    <3> QED
      BY <1>0, <2>1
  <2> HIDE DEF Known
  <2> QED
    BY <2>2
<1>8. \A b \in S : b < N
  <2> HIDE DEF Known, A
  <2> QED
    BY <1>0
<1> QED
  BY <1>0, <1>1, <1>7, <1>8

-----------------------------------------------------------------------------
(* The event under way, while a stream is relayed without stop words.      *)

EventSound(u, c) ==
  /\ c.named = (proto = "anthropic") /\ ~c.malformed
  /\ c.data = <<>> \/ (u.todo = <<Blank>> /\ WellFormed(c))
  /\ \A l \in DataLines : u.todo = <<l, Blank>> /\ proto = "anthropic" => c.name = l.type

WholeInv ==
  trim \/ IF ended # "no" THEN RelayedWhole ELSE EventSound(up, cl)

LEMMA WholeNext ==
  ASSUME proto' = proto, trim' = trim, ended' = "no", EventSound(up', cl')
  PROVE  WholeInv'
<1>1. DataLines' = DataLines
  BY GuardKept
<1>2. EventSound(up, cl)' = EventSound(up', cl')
  BY <1>1 DEF EventSound, WellFormed
<1> QED
  BY <1>2 DEF WholeInv

LEMMA SoundAlike ==
  ASSUME NEW u, NEW c, EventSound(u, c), NEW d, SameEvent(c, d)
  PROVE  EventSound(u, d)
BY DEF EventSound, SameEvent, WellFormed

LEMMA TailEvent ==
  ASSUME NEW c, ClientOK(c), NEW v
  PROVE  SameEvent(c, [c EXCEPT !.tail = v])
BY DEF ClientOK, ClientFields, SameEvent

LEMMA WholeSend ==
  ASSUME StreamInv, WholeInv, ~trim, Send
  PROVE  WholeInv'
<1>1. /\ ended = "no" /\ up.todo = <<>> /\ proto \in {"anthropic", "openai"} /\ Running
      /\ proto' = proto /\ trim' = trim /\ cl' = cl /\ ended' = ended
  BY DEF Send, StreamInv
<1>2. PICK e \in IF proto = "anthropic" THEN AnthropicEvents(up) ELSE OpenAIEvents(up) :
        up' = After(up, e)
  BY DEF Send
<1>3. EventFits(e)
  BY <1>1, <1>2, EventsAre DEF Running
<1>4. PICK l, v : l = DataLine(e.type, e.idx, e.text) /\ v = up'
  OBVIOUS
<1>5. v.todo = IF proto = "anthropic" THEN <<EventLine(l.type), l, Blank>> ELSE <<l, Blank>>
  <2>1. UpTypeOK /\ v = After(up, e)
    BY <1>1, <1>2, <1>4 DEF Running, UpOK
  <2>2. GoesOn(e, l, v)
    BY <1>1, <1>3, <1>4, <2>1, AfterIs
  <2> QED
    BY <2>2 DEF GoesOn
<1>6. EventSound(up, cl)
  BY <1>1 DEF WholeInv
<1>7. cl.data = <<>>
  BY <1>1, <1>6 DEF EventSound
<1>8. ASSUME NEW m, v.todo = <<m, Blank>> PROVE proto # "anthropic"
  <2>1. \A a, b, c, d, w : <<a, b, c>> # <<d, w>>
    OBVIOUS
  <2> QED
    BY <1>5, <1>8, <2>1
<1>9. EventSound(v, cl)
  BY <1>6, <1>7, <1>8 DEF EventSound
<1> QED
  BY <1>1, <1>4, <1>9, WholeNext

LEMMA WholeReadHalf ==
  ASSUME StreamInv, WholeInv, ~trim, ended = "no", ReadHalf
  PROVE  WholeInv'
<1>1. /\ ClientOK(cl) /\ proto' = proto /\ trim' = trim /\ up' = up /\ ended' = "no"
  BY DEF StreamInv, Running, ReadHalf
<1>2. SameEvent(cl, cl')
  <2>1. PICK h \in Halves(Head(up.todo)) : cl' = [cl EXCEPT !.tail = <<h>>]
    BY DEF ReadHalf
  <2> QED
    BY <1>1, <2>1, TailEvent
<1>3. EventSound(up, cl')
  BY <1>2, SoundAlike DEF WholeInv
<1> QED
  BY <1>1, <1>3, WholeNext

LEMMA WholeFlood ==
  ASSUME StreamInv, WholeInv, ~trim, ended = "no", Flood
  PROVE  WholeInv'
<1>1. /\ proto \in {"anthropic", "openai"}
      /\ proto' = proto /\ trim' = trim /\ cl' = cl /\ ended' = "no" /\ up' = up
  BY DEF StreamInv, Flood
<1>2. EventSound(up, cl)
  BY DEF WholeInv
<1> QED
  BY <1>1, <1>2, WholeNext

LEMMA WholeReadLine ==
  ASSUME StreamInv, WholeInv, ~trim, ended = "no", ReadLine
  PROVE  WholeInv'
<1>1. /\ proto \in {"anthropic", "openai"} /\ Running /\ GuardOK(g) /\ ClientOK(cl) /\ UpOK
  BY DEF StreamInv, Running
<1>2. /\ up.todo # <<>> /\ up' = [up EXCEPT !.todo = Tail(@)]
      /\ proto' = proto /\ trim' = trim /\ ended' = "no"
  BY DEF ReadLine
<1>3. PICK l, r, c, v, t : /\ l = Head(up.todo) /\ r = Guarded(l)
                           /\ c = [cl EXCEPT !.tail = <<>>]
                           /\ v = up' /\ t = Tail(up.todo)
  OBVIOUS
<1>4. cl' = Receive(c, l)
  <2>1. r.out = <<l>>
    BY <1>3, ResultIs DEF Guarded, AnthropicWrite, OpenAIWrite
  <2>2. cl' = ReceiveAll(c, r.out)
    BY <1>3 DEF ReadLine
  <2> QED
    BY <2>1, <2>2, ReceiveOne
<1>5. v.todo = t
  <2>1. up \in [todo : Seq(Lines), units : Nat, open : SUBSET Blocks, next : Nat,
                reason : BOOLEAN, over : BOOLEAN]
    BY <1>1 DEF UpOK, UpTypeOK
  <2> QED
    BY <1>2, <1>3, <2>1
<1>6. /\ StreamLine(l) /\ l.whole = TRUE
      /\ \/ l \in DataLines /\ Ahead(l) /\ t = <<Blank>>
         \/ /\ l.k = "event" /\ proto = "anthropic"
            /\ \E m \in DataLines : Ahead(m) /\ t = <<m, Blank>>
         \/ l = Blank /\ NoneAhead /\ t = <<>>
         \/ l = Junk /\ NoneAhead /\ t = <<Blank>>
  BY <1>1, <1>2, <1>3, TodoIs
<1>7. Sane(c) /\ c.tail = <<>> /\ SameEvent(cl, c)
  <2>1. PICK e : e = <<>>
    OBVIOUS
  <2>2. e \in Seq(Lines) /\ Len(e) <= 1
    BY <2>1
  <2>3. ClientOK(c) /\ c.tail = e
    BY <1>1, <1>3, <2>1, <2>2, TailSet
  <2> QED
    BY <1>1, <1>3, <2>1, <2>3, TailEvent DEF Sane
<1>8. EventSound(up, c)
  BY <1>7, SoundAlike DEF WholeInv
<1>9. Named(c)
  BY <1>7, <1>8 DEF EventSound, Named
<1>10. LineOK(l)
  BY <1>6 DEF StreamLine, GoodLines
<1>11. PICK d : d = cl'
  OBVIOUS
<1>12. l # Blank => up.todo # <<Blank>>
  <2>1. up.todo = <<Blank>> => Head(up.todo) = Blank
    OBVIOUS
  <2> QED
    BY <1>3, <2>1
<1>13. l # Blank => Rests(c)
  BY <1>8, <1>9, <1>12 DEF EventSound, Rests
<1>14. CASE l \in DataLines /\ Ahead(l) /\ t = <<Blank>>
  <2>1. l.k = "data" /\ l # Blank
    BY <1>1, <1>14, DataLinesAre, BlankIs
  <2>2. up.todo = <<l, Blank>>
    <3>1. ASSUME up.todo = <<EventLine(l.type), l, Blank>> PROVE FALSE
      <4>1. Tail(up.todo) = <<l, Blank>>
        BY <3>1
      <4>2. <<l, Blank>> # <<Blank>>
        OBVIOUS
      <4> QED
        BY <1>3, <1>14, <4>1, <4>2
    <3> QED
      BY <1>14, <3>1 DEF Ahead
  <2>3. Expects(c, l)
    BY <1>8, <1>13, <1>14, <2>1, <2>2 DEF EventSound, Expects
  <2>4. Complete(d)
    BY <1>4, <1>6, <1>10, <1>11, <2>1, <2>3, TakesData
  <2>5. \A m : v.todo # <<m, Blank>>
    BY <1>5, <1>14
  <2>6. EventSound(v, d)
    BY <1>5, <1>14, <2>4, <2>5 DEF EventSound, Complete, Named
  <2> QED
    BY <1>2, <1>3, <1>11, <2>6, WholeNext
<1>15. CASE l.k = "event" /\ proto = "anthropic" /\ \E m \in DataLines : Ahead(m) /\ t = <<m, Blank>>
  <2>1. PICK m \in DataLines : Ahead(m) /\ t = <<m, Blank>>
    BY <1>15
  <2>2. l # Blank
    BY <1>15, BlankIs
  <2>3. Rests(d) /\ d.name = l.type
    BY <1>4, <1>10, <1>11, <1>13, <1>15, <2>2, TakesName
  <2>4. l.type = m.type
    <3>1. m.k = "data" /\ m.type \in Types
      BY <1>1, DataLinesAre DEF DataTypes, Types
    <3>2. up.todo = <<m, Blank>> => l = m
      BY <1>3
    <3>3. up.todo = <<EventLine(m.type), m, Blank>> => l = EventLine(m.type)
      BY <1>3
    <3>4. l = EventLine(m.type)
      BY <1>15, <2>1, <3>1, <3>2, <3>3 DEF Ahead
    <3> QED
      BY <3>1, <3>4, EventLineIs
  <2>5. \A n : v.todo = <<n, Blank>> => n = m
    BY <1>5, <2>1
  <2>6. EventSound(v, d)
    BY <2>3, <2>4, <2>5 DEF EventSound, Rests, Named
  <2> QED
    BY <1>2, <1>3, <1>11, <2>6, WholeNext
<1>16. CASE (l = Blank /\ t = <<>>) \/ (l = Junk /\ t = <<Blank>>)
  <2>1. Rests(d)
    <3>1. CASE l = Blank
      <4>1. Complete(c)
        BY <1>8, <1>9 DEF EventSound, Complete
      <4> QED
        BY <1>4, <1>11, <3>1, <4>1, TakesBlank
    <3>2. CASE l # Blank
      BY <1>4, <1>11, <1>13, <1>16, <3>2, TakesJunk
    <3> QED
      BY <3>1, <3>2
  <2>2. \A m : v.todo # <<m, Blank>>
    BY <1>5, <1>16
  <2>3. EventSound(v, d)
    BY <2>1, <2>2 DEF EventSound, Rests, Named
  <2> QED
    BY <1>2, <1>3, <1>11, <2>3, WholeNext
<1> QED
  BY <1>6, <1>14, <1>15, <1>16

LEMMA WholeEnd ==
  ASSUME StreamInv, WholeInv, ~trim, ended = "no", End
  PROVE  WholeInv'
<1>1. /\ proto \in {"anthropic", "openai"} /\ trim \in BOOLEAN /\ Running
      /\ GuardOK(g) /\ UpOK /\ HalfOK /\ Sane(cl)
  <2>1. proto \in {"anthropic", "openai"} /\ trim \in BOOLEAN /\ Running
    BY DEF StreamInv
  <2> QED
    BY <2>1, RunningSane DEF Running
<1>2. PICK f : f = Finish(g)
  OBVIOUS
<1>3. /\ trim' = trim /\ proto' = proto /\ ended' \in {"eof", "error"}
      /\ cl' = HangUp(ReceiveAll(cl, f.out)) /\ g' = f.g
      /\ cut' = IF g.buffer # <<>> \/ cl.tail # <<>> THEN "line"
                ELSE IF up.todo # <<>> /\ Head(up.todo) = Blank THEN "event"
                ELSE "border"
  BY <1>2 DEF End, Finish, NothingOwed
<1>4. EventSound(up, cl)
  BY DEF WholeInv
<1> SUFFICES ASSUME \/ cut' = "border"
                    \/ cut' = "event" /\ proto = "anthropic" /\ f.g.open # {}
             PROVE  ~cl'.malformed /\ cl'.data = <<>>
  BY <1>3 DEF WholeInv, RelayedWhole, Finished
<1>5. g.buffer = <<>> /\ cl.tail = <<>>
  BY <1>3
<1>6. Named(cl) /\ Complete(cl)
  BY <1>1, <1>4, <1>5 DEF EventSound, Named, Complete
<1>7. PICK e, q : e = <<>> /\ q = Leftover(g) \o StreamEnd(g)
  OBVIOUS
<1>8. f.out = e \o q
  <2>1. PICK r : r = LastLine(g)
    OBVIOUS
  <2>2. ~g.done
    BY <1>1 DEF GuardOK
  <2>3. r = Result(Unfinished(g), <<>>) /\ Unfinished(g) = g
    BY <1>1, <1>5, <2>1, UnfinishedIs DEF LastLine
  <2>4. r.g = g /\ r.out = e
    BY <1>7, <2>3, ResultIs
  <2>5. GuardOK(r.g) /\ r.out \in Seq(GoodLines) /\ ~r.g.done
    BY <1>1, <2>1, <2>2, <2>4, LastLineTells
  <2>6. Finish(g).out = r.out \o (Leftover(r.g) \o StreamEnd(r.g))
    BY <1>1, <2>1, <2>2, <2>5, FinishIs
  <2> QED
    BY <1>2, <1>7, <2>4, <2>6
<1>9. Settled(StreamEnd(g)) \/ proto = "openai"
  <2>1. CASE proto = "anthropic"
    <3>1. Settled(<<>>)
      BY SettledNone
    <3> QED
      BY <2>1, <3>1, SettledEnd DEF StreamEnd
  <2> QED
    BY <1>1, <2>1
<1>10. Settled(e) /\ \A y \in Seq(GoodLines) : e \o y = y
  BY <1>7, SettledNone
<1>11. CASE proto = "anthropic"
  <2>1. g \in AnthropicGuards /\ g.open \in SUBSET Blocks /\ ~g.pendActive
    BY <1>1, <1>11 DEF GuardOK, AnthropicGuards
  <2>2. Pending(g) = e
    BY <1>7, <2>1 DEF Pending
  <2>3. /\ Settled(Closing(g.open))
        /\ g.open # {} => Settling(Closing(g.open))
    BY <1>11, <2>1, SettledClosing
  <2>4. Leftover(g) = Closing(g.open)
    BY <1>10, <1>11, <2>2, <2>3 DEF Leftover, Settled
  <2>5. Settled(q) /\ (g.open # {} => Settling(q))
    BY <1>7, <1>9, <1>11, <2>3, <2>4, SettledMore
  <2>6. f.out = q
    BY <1>8, <1>10, <2>5 DEF Settled
  <2>7. f.g.open = g.open
    <3>1. ~g.done /\ g.buffer = <<>>
      BY <1>1, <1>5 DEF GuardOK
    <3>2. PICK r : r = LastLine(g)
      OBVIOUS
    <3>3. r = Result(Unfinished(g), <<>>) /\ Unfinished(g) = g
      BY <1>1, <3>1, <3>2, UnfinishedIs DEF LastLine
    <3>4. r.g = g
      BY <3>3, ResultIs
    <3>5. PICK z : z = IF r.g.sawStop THEN <<>>
                       ELSE IF r.g.sawError THEN MessageStopOnly
                       ELSE MessageStop("end_turn")
      OBVIOUS
    <3>6. r = IF g.buffer = <<>> THEN Result(Unfinished(g), <<>>)
              ELSE IF trim THEN TrimLine(Unfinished(g), g.buffer[1])
              ELSE Result(Scan(Unfinished(g), g.buffer[1]), <<>>)
      BY <3>1, <3>3
    <3>7. f = IF g.done THEN Result(Unfinished(g), <<>>)
              ELSE IF r.g.done THEN r
              ELSE Result(Flushed(r.g), r.out \o Pending(r.g) \o Closing(r.g.open) \o z)
      BY <1>2, <1>11, <3>5, <3>6 DEF Finish, AnthropicFinish, Unfinished
    <3>8. f.g = Flushed(g)
      BY <3>1, <3>4, <3>7 DEF Result
    <3> QED
      BY <2>1, <3>8 DEF Flushed, AnthropicGuards
  <2>8. Rests(cl) \/ g.open # {}
    <3>1. CASE cut' = "border"
      <4>1. up.todo # <<Blank>>
        <5>1. up.todo = <<Blank>> => up.todo # <<>> /\ Head(up.todo) = Blank
          OBVIOUS
        <5> QED
          BY <1>3, <1>5, <3>1, <5>1
      <4> QED
        BY <1>4, <1>6, <4>1 DEF EventSound, Rests
    <3> QED
      BY <2>7, <3>1
  <2>9. Rests(ReceiveAll(cl, f.out))
    BY <1>6, <2>5, <2>6, <2>8 DEF Settled, Settling
  <2> QED
    BY <1>3, <2>9 DEF HangUp, Rests, Named
<1>12. CASE proto = "openai"
  <2>1. cut' = "border" /\ up.todo # <<Blank>>
    <3>1. up.todo = <<Blank>> => up.todo # <<>> /\ Head(up.todo) = Blank
      OBVIOUS
    <3> QED
      BY <1>3, <1>5, <1>12, <3>1
  <2>2. Rests(cl)
    BY <1>4, <1>6, <2>1 DEF EventSound, Rests
  <2>3. Leftover(g) = e
    <3>1. g.pend = <<>>
      BY <1>1 DEF GuardOK
    <3> QED
      BY <1>7, <1>12, <3>1 DEF Leftover, FlushChunk
  <2>4. Settled(StreamEnd(g))
    <3>1. Settled(<<>>)
      BY SettledNone
    <3>2. Settled(<<Done, Blank>>)
      <4>1. Done \in GoodLines /\ Blank \in GoodLines /\ Done.k = "data" /\ Done.whole
        <5>1. "done" \in Types
          BY DEF Types
        <5>2. Reads(Done, "data", "done", 0, NoText)
          BY <5>1, DataLineReads, NoTextIs DEF Done
        <5> QED
          BY <5>2, MadeLines, BlankIs DEF Reads, QuietLines
      <4>2. PICK x, y : x = <<Done>> /\ y = <<Blank>>
        OBVIOUS
      <4>3. x \in Seq(GoodLines) /\ y \in Seq(GoodLines) /\ <<Done, Blank>> = x \o y
        BY <4>1, <4>2, OneAndOne
      <4>4. ASSUME NEW c, Rests(c) PROVE Rests(ReceiveAll(c, x \o y))
        <5>1. PICK d : d = ReceiveAll(c, x)
          OBVIOUS
        <5>2. ReceiveAll(c, x \o y) = ReceiveAll(d, y)
          BY <4>3, <5>1, ReceiveMore
        <5>3. d = Receive(c, Done) /\ ReceiveAll(d, y) = Receive(d, Blank)
          BY <4>2, <5>1, ReceiveOne
        <5>4. Expects(c, Done)
          BY <1>12, <4>4 DEF Expects
        <5>5. Complete(d)
          BY <4>1, <5>3, <5>4, TakesData DEF GoodLines
        <5> QED
          BY <5>2, <5>3, <5>5, TakesBlank
      <4>5. x \o y \in Seq(GoodLines)
        BY <4>3
      <4> QED
        BY <4>3, <4>4, <4>5 DEF Settled
    <3> QED
      BY <1>12, <3>1, <3>2 DEF StreamEnd
  <2>5. Settled(f.out)
    BY <1>7, <1>8, <1>10, <2>3, <2>4, SettledMore
  <2>6. Rests(ReceiveAll(cl, f.out))
    BY <2>2, <2>5 DEF Settled
  <2> QED
    BY <1>3, <2>6 DEF HangUp, Rests, Named
<1> QED
  BY <1>1, <1>11, <1>12

LEMMA WholeStep ==
  ASSUME StreamInv, WholeInv, [Next]_vars
  PROVE  WholeInv'
<1>1. trim' = trim
  BY DEF Next, Send, ReadLine, ReadHalf, Flood, End, Disconnect, vars
<1>2. CASE trim
  BY <1>1, <1>2 DEF WholeInv
<1>3. CASE ~trim
  <2>0. ReadLine \/ ReadHalf \/ Flood \/ End => ended = "no"
    BY DEF ReadLine, ReadHalf, Flood, End
  <2>1. CASE Send
    BY <1>3, <2>1, WholeSend
  <2>2. CASE ReadLine
    BY <1>3, <2>0, <2>2, WholeReadLine
  <2>3. CASE ReadHalf
    BY <1>3, <2>0, <2>3, WholeReadHalf
  <2>4. CASE Flood
    BY <1>3, <2>0, <2>4, WholeFlood
  <2>5. CASE End
    BY <1>3, <2>0, <2>5, WholeEnd
  <2>6. CASE Disconnect
    BY <2>6 DEF Disconnect, WholeInv, RelayedWhole, Finished
  <2>7. CASE UNCHANGED vars
    BY <2>7 DEF vars, WholeInv, RelayedWhole, Finished, EventSound, WellFormed, DataLines
  <2> QED
    BY <2>1, <2>2, <2>3, <2>4, <2>5, <2>6, <2>7 DEF Next
<1> QED
  BY <1>2, <1>3

(* A client that reads event by event gets well-formed events, under their *)
(* names and one payload each, of a stream that is relayed without stop    *)
(* words: the ones the upstream sent and the ones the guard made up (the   *)
(* closings of internal/sseguard/guard.go), when the stream broke off at   *)
(* the border of an event, or inside one while a block was open, whose     *)
(* made-up stop begins with a newline that ends the unfinished event.      *)
THEOREM StreamRelayedWhole == Spec => []RelayedWhole
<1>1. Init => WholeInv
  <2> SUFFICES ASSUME Init PROVE WholeInv
    OBVIOUS
  <2>1. up.todo = <<>> /\ cl = Client(proto = "anthropic") /\ ended = "no"
    BY DEF Init, Upstream
  <2>2. cl.named = (proto = "anthropic") /\ ~cl.malformed /\ cl.data = <<>>
    BY <2>1 DEF Client
  <2>3. \A l : up.todo # <<l, Blank>>
    BY <2>1
  <2> QED
    BY <2>1, <2>2, <2>3 DEF WholeInv, EventSound
<1>2. StreamInv /\ WholeInv /\ [Next]_vars => WholeInv'
  BY WholeStep
<1>3. WholeInv => RelayedWhole
  BY DEF WholeInv, RelayedWhole, Finished
<1> QED
  BY <1>1, <1>2, <1>3, StreamAlways, PTL DEF Spec
-----------------------------------------------------------------------------
(* Texts joined.                                                           *)

IsFlat(f, T, m) ==
  f = [i \in 1 .. m |-> IF i = 1 THEN T[i] ELSE f[i - 1] \o T[i]]

LEMMA FlatExists ==
  ASSUME NEW T
  PROVE  \A m \in Nat : \E f : IsFlat(f, T, m)
<1> DEFINE A == {m \in Nat : \E f : IsFlat(f, T, m)}
<1>1. 0 \in A
  <2>1. IsFlat([i \in 1 .. 0 |-> <<>>], T, 0)
    BY DEF IsFlat
  <2> QED
    BY <2>1
<1>2. ASSUME NEW m \in Nat, m \in A PROVE m + 1 \in A
  <2>1. PICK f : IsFlat(f, T, m)
    BY <1>2
  <2> DEFINE h == [i \in 1 .. m + 1 |->
                     IF i = m + 1 THEN IF i = 1 THEN T[i] ELSE f[m] \o T[i]
                     ELSE f[i]]
  <2>2. ASSUME NEW i \in 1 .. m + 1
        PROVE  h[i] = IF i = 1 THEN T[i] ELSE h[i - 1] \o T[i]
    <3>1. CASE i = m + 1
      <4>1. h[i] = IF i = 1 THEN T[i] ELSE f[m] \o T[i]
        BY <3>1
      <4>2. i # 1 => h[i - 1] = f[m]
        BY <3>1
      <4> HIDE DEF h
      <4> QED
        BY <4>1, <4>2
    <3>2. CASE i # m + 1
      <4>1. i \in 1 .. m /\ h[i] = f[i] /\ (i # 1 => h[i - 1] = f[i - 1])
        BY <3>2
      <4>2. f[i] = IF i = 1 THEN T[i] ELSE f[i - 1] \o T[i]
        BY <2>1, <4>1 DEF IsFlat
      <4> HIDE DEF h
      <4> QED
        BY <4>1, <4>2
    <3> QED
      BY <3>1, <3>2
  <2>3. IsFlat(h, T, m + 1)
    <3>1. h = [i \in 1 .. m + 1 |-> h[i]]
      OBVIOUS
    <3> HIDE DEF h
    <3> QED
      BY <2>2, <3>1 DEF IsFlat
  <2> HIDE DEF h
  <2> QED
    BY <2>3
<1>3. Nat \subseteq A
  <2> HIDE DEF A
  <2> QED
    BY <1>1, <1>2, SetOfAllNaturals
<1> QED
  BY <1>3

(* What is joined of two lists that begin alike.                           *)
BeginAlike(T, U, n) == \A i \in 1 .. n : U[i] = T[i]

LEMMA FlatAlike ==
  ASSUME NEW T, NEW U, NEW m \in Nat, NEW n \in Nat, n <= m,
         NEW f, IsFlat(f, T, m), NEW h, IsFlat(h, U, n),
         BeginAlike(T, U, n)
  PROVE  BeginAlike(f, h, n)
<1> DEFINE A == {k \in Nat : k \in 1 .. n => h[k] = f[k]}
<1>1. 0 \in A
  OBVIOUS
<1>2. ASSUME NEW k \in Nat, k \in A PROVE k + 1 \in A
  <2> SUFFICES ASSUME k + 1 \in 1 .. n PROVE h[k + 1] = f[k + 1]
    OBVIOUS
  <2>1. k + 1 \in 1 .. m /\ (k + 1) - 1 = k /\ (k + 1 # 1 => k \in 1 .. n)
        /\ U[k + 1] = T[k + 1]
    BY DEF BeginAlike
  <2>2. h[k + 1] = IF k + 1 = 1 THEN U[k + 1] ELSE h[k] \o U[k + 1]
    BY <2>1 DEF IsFlat
  <2>3. f[k + 1] = IF k + 1 = 1 THEN T[k + 1] ELSE f[k] \o T[k + 1]
    <3>1. PICK i : i = k + 1 /\ i \in 1 .. m /\ i - 1 = k
      BY <2>1
    <3>2. f[i] = IF i = 1 THEN T[i] ELSE f[i - 1] \o T[i]
      BY <3>1 DEF IsFlat
    <3> QED
      BY <3>1, <3>2
  <2> QED
    BY <1>2, <2>1, <2>2, <2>3
<1>3. Nat \subseteq A
  <2> HIDE DEF A
  <2> QED
    BY <1>1, <1>2, SetOfAllNaturals
<1> QED
  BY <1>3 DEF BeginAlike

Upto(T, n) == FlattenSeq(SubSeq(T, 1, n))

LEMMA UptoNone ==
  ASSUME NEW T \in Seq(Seq(Chars))
  PROVE  Upto(T, 0) = <<>>
<1>1. PICK s, e : s = SubSeq(T, 1, 0) /\ e = <<>>
  OBVIOUS
<1>2. s = e /\ Len(e) = 0
  BY <1>1
<1>3. FlattenSeq(e) = e
  BY <1>2 DEF FlattenSeq
<1>4. Upto(T, 0) = FlattenSeq(s)
  BY <1>1 DEF Upto
<1> QED
  BY <1>1, <1>2, <1>3, <1>4

LEMMA UptoIs ==
  ASSUME NEW T \in Seq(Seq(Chars)), NEW f, IsFlat(f, T, Len(T)), NEW n \in 1 .. Len(T)
  PROVE  Upto(T, n) = f[n]
<1>1. PICK U : U = SubSeq(T, 1, n)
  OBVIOUS
<1>2. n \in Nat /\ n <= Len(T) /\ Len(T) \in Nat /\ n # 0
  OBVIOUS
<1>3. Len(U) = n /\ \A i \in 1 .. n : U[i] = T[i]
  BY <1>1, <1>2, Begins
<1>4. PICK h : h = CHOOSE y : IsFlat(y, U, n)
  OBVIOUS
<1>5. IsFlat(h, U, n)
  BY <1>2, <1>4, FlatExists
<1>6. FlattenSeq(U) = h[n]
  BY <1>2, <1>3, <1>4 DEF FlattenSeq, IsFlat
<1>7. h[n] = f[n]
  <2>1. PICK m : m = Len(T)
    OBVIOUS
  <2>2. m \in Nat /\ n <= m /\ IsFlat(f, T, m)
    BY <1>2, <2>1
  <2>3. BeginAlike(T, U, n)
    BY <1>3 DEF BeginAlike
  <2>4. BeginAlike(f, h, n)
    BY <1>2, <1>5, <2>2, <2>3, FlatAlike
  <2> QED
    BY <1>2, <2>4 DEF BeginAlike
<1>8. Upto(T, n) = FlattenSeq(U)
  BY <1>1 DEF Upto
<1> QED
  BY <1>6, <1>7, <1>8

LEMMA UptoNext ==
  ASSUME NEW T \in Seq(Seq(Chars)), NEW n \in 1 .. Len(T), Upto(T, n - 1) \in Seq(Chars)
  PROVE  /\ Upto(T, n) = Upto(T, n - 1) \o T[n]
         /\ Upto(T, n) \in Seq(Chars) /\ T[n] \in Seq(Chars)
<1>0. T[n] \in Seq(Chars) /\ Len(T) \in Nat
  OBVIOUS
<1>1. PICK f : IsFlat(f, T, Len(T))
  BY <1>0, FlatExists
<1>2. f[n] = IF n = 1 THEN T[n] ELSE f[n - 1] \o T[n]
  BY <1>1 DEF IsFlat
<1>3. Upto(T, n) = f[n]
  BY <1>1, UptoIs
<1>4. PICK y, z, e : y = Upto(T, n - 1) /\ z = T[n] /\ e = <<>>
  OBVIOUS
<1>5. y \in Seq(Chars) /\ z \in Seq(Chars) /\ y \o z \in Seq(Chars) /\ e \o z = z
  BY <1>0, <1>4
<1>6. n = 1 => y = e
  BY <1>4, UptoNone
<1>7. n # 1 => y = f[n - 1]
  <2>1. n # 1 => n - 1 \in 1 .. Len(T)
    BY <1>0
  <2> QED
    BY <1>1, <1>4, <2>1, UptoIs
<1>8. f[n] = y \o z
  BY <1>2, <1>4, <1>5, <1>6, <1>7
<1> QED
  BY <1>3, <1>4, <1>5, <1>8

LEMMA UptoTyped ==
  ASSUME NEW T \in Seq(Seq(Chars))
  PROVE  \A n \in 0 .. Len(T) : Upto(T, n) \in Seq(Chars)
<1> DEFINE A == {n \in Nat : n <= Len(T) => Upto(T, n) \in Seq(Chars)}
<1>1. 0 \in A
  <2>1. PICK e : e = <<>>
    OBVIOUS
  <2>2. e \in Seq(Chars) /\ Upto(T, 0) = e
    BY <2>1, UptoNone
  <2> QED
    BY <2>2
<1>2. ASSUME NEW n \in Nat, n \in A PROVE n + 1 \in A
  <2> SUFFICES ASSUME n + 1 <= Len(T) PROVE Upto(T, n + 1) \in Seq(Chars)
    OBVIOUS
  <2>1. n + 1 \in 1 .. Len(T) /\ (n + 1) - 1 = n /\ Upto(T, n) \in Seq(Chars)
    BY <1>2
  <2> QED
    BY <2>1, UptoNext
<1>3. Nat \subseteq A
  <2> HIDE DEF A
  <2> QED
    BY <1>1, <1>2, SetOfAllNaturals
<1> QED
  BY <1>3

(* All of the texts begin with the first ones.                             *)
Goes(T, n, i) == \E rest \in Seq(Chars) : Upto(T, i) = Upto(T, n) \o rest

LEMMA UptoGoes ==
  ASSUME NEW T \in Seq(Seq(Chars)), NEW n \in 0 .. Len(T)
  PROVE  \A m \in Nat : n + m <= Len(T) => Goes(T, n, n + m)
<1> DEFINE A == {m \in Nat : n + m <= Len(T) => Goes(T, n, n + m)}
<1>0. Upto(T, n) \in Seq(Chars) /\ Len(T) \in Nat /\ n \in Nat
  BY UptoTyped
<1>1. 0 \in A
  <2>1. PICK e, y : e = <<>> /\ y = Upto(T, n)
    OBVIOUS
  <2>2. e \in Seq(Chars) /\ y = y \o e /\ n + 0 = n
    BY <1>0, <2>1
  <2>3. Upto(T, n + 0) = y \o e
    BY <2>1, <2>2
  <2> QED
    BY <2>1, <2>2, <2>3 DEF Goes
<1>2. ASSUME NEW m \in Nat, m \in A PROVE m + 1 \in A
  <2> SUFFICES ASSUME n + (m + 1) <= Len(T)
               PROVE  Goes(T, n, n + (m + 1))
    OBVIOUS
  <2>0. Goes(T, n, n + m)
    BY <1>0, <1>2
  <2>1. PICK rest \in Seq(Chars) : Upto(T, n + m) = Upto(T, n) \o rest
    BY <2>0 DEF Goes
  <2>2. PICK i : i = n + (m + 1) /\ i \in 1 .. Len(T) /\ i - 1 = n + m
    BY <1>0
  <2>3. Upto(T, i - 1) \in Seq(Chars)
    BY <2>2, UptoTyped
  <2>4. Upto(T, i) = Upto(T, i - 1) \o T[i] /\ T[i] \in Seq(Chars)
    BY <2>2, <2>3, UptoNext
  <2>5. PICK y, z : y = Upto(T, n) /\ z = T[i]
    OBVIOUS
  <2>6. y \in Seq(Chars) /\ z \in Seq(Chars) /\ rest \o z \in Seq(Chars)
    BY <1>0, <2>4, <2>5
  <2>7. (y \o rest) \o z = y \o (rest \o z)
    BY <2>6, Associates, SMTT(30)
  <2> QED
    BY <2>1, <2>2, <2>4, <2>5, <2>6, <2>7 DEF Goes
<1>3. Nat \subseteq A
  <2> HIDE DEF A
  <2> QED
    BY <1>1, <1>2, SetOfAllNaturals
<1> QED
  BY <1>3

LEMMA UptoAll ==
  ASSUME NEW T \in Seq(Seq(Chars))
  PROVE  /\ Upto(T, Len(T)) = FlattenSeq(T) /\ FlattenSeq(T) \in Seq(Chars)
         /\ Len(T) \in Nat
<1>1. SubSeq(T, 1, Len(T)) = T /\ Len(T) \in Nat
  OBVIOUS
<1>2. PICK s : s = SubSeq(T, 1, Len(T))
  OBVIOUS
<1>3. Upto(T, Len(T)) = FlattenSeq(s)
  BY <1>2 DEF Upto
<1>4. s = T
  BY <1>1, <1>2
<1>5. Len(T) \in 0 .. Len(T)
  BY <1>1
<1>6. Upto(T, Len(T)) \in Seq(Chars)
  BY <1>5, UptoTyped
<1> QED
  BY <1>1, <1>3, <1>4, <1>6

(* Where a text lies among the others.                                     *)
LEMMA StartIs ==
  ASSUME NEW T \in Seq(Seq(Chars)), NEW i \in 1 .. Len(T)
  PROVE  /\ StartOf(T, i) = Len(Upto(T, i - 1)) /\ StartOf(T, i) \in Nat
         /\ StartOf(T, i) + Len(T[i]) = Len(Upto(T, i))
         /\ T[i] \in Seq(Chars) /\ Upto(T, i - 1) \in Seq(Chars)
         /\ Len(T[i]) \in Nat
         /\ Upto(T, i) = Upto(T, i - 1) \o T[i]
<1>1. StartOf(T, i) = Len(Upto(T, i - 1))
  BY DEF StartOf, Upto
<1>2. i - 1 \in 0 .. Len(T)
  OBVIOUS
<1>3. Upto(T, i - 1) \in Seq(Chars)
  BY <1>2, UptoTyped
<1>4. Upto(T, i) = Upto(T, i - 1) \o T[i] /\ T[i] \in Seq(Chars)
  BY <1>3, UptoNext
<1>5. PICK y, z : y = Upto(T, i - 1) /\ z = T[i]
  OBVIOUS
<1>6. Len(y \o z) = Len(y) + Len(z) /\ Len(y) \in Nat /\ Len(z) \in Nat
  BY <1>3, <1>4, <1>5
<1> QED
  BY <1>1, <1>3, <1>4, <1>5, <1>6

LEMMA StartsLater ==
  ASSUME NEW T \in Seq(Seq(Chars)), NEW i \in 1 .. Len(T), NEW j \in 1 .. Len(T), j < i
  PROVE  StartOf(T, j) + Len(T[j]) <= StartOf(T, i)
<1>1. PICK m \in Nat : j + m = i - 1
  <2>1. i - 1 - j \in Nat /\ j + (i - 1 - j) = i - 1
    OBVIOUS
  <2> QED
    BY <2>1
<1>2. j \in 0 .. Len(T) /\ j + m <= Len(T) /\ i - 1 \in 0 .. Len(T)
  BY <1>1
<1>3. Goes(T, j, j + m)
  BY <1>2, UptoGoes
<1>4. PICK rest \in Seq(Chars) : Upto(T, j + m) = Upto(T, j) \o rest
  BY <1>3 DEF Goes
<1>5. PICK y : y = Upto(T, j)
  OBVIOUS
<1>6. y \in Seq(Chars)
  BY <1>2, <1>5, UptoTyped
<1>7. Len(y \o rest) = Len(y) + Len(rest) /\ Len(y) \in Nat /\ Len(rest) \in Nat
  BY <1>6
<1>8. StartOf(T, i) = Len(y \o rest)
  <2>1. StartOf(T, i) = Len(Upto(T, i - 1))
    BY StartIs
  <2>2. Upto(T, i - 1) = y \o rest
    BY <1>1, <1>4, <1>5
  <2> QED
    BY <2>1, <2>2
<1>9. StartOf(T, j) + Len(T[j]) = Len(y)
  BY <1>5, StartIs
<1> QED
  BY <1>7, <1>8, <1>9

(* A word in one of the texts is a word in all of them joined.             *)
LEMMA HitOfText ==
  ASSUME NEW T \in Seq(Seq(Chars)), NEW i \in 1 .. Len(T), NEW m \in Hits(T[i])
  PROVE  StartOf(T, i) + m \in Hits(FlattenSeq(T)) /\ m \in Nat /\ m < Len(T[i])
<1>1. PICK y, z : y = Upto(T, i - 1) /\ z = T[i]
  OBVIOUS
<1>2. /\ y \in Seq(Chars) /\ z \in Seq(Chars) /\ StartOf(T, i) = Len(y)
      /\ Upto(T, i) = y \o z /\ m \in Hits(z)
  BY <1>1, StartIs
<1>3. PICK k \in DOMAIN Stops : m \in Nat /\ Occurs(z, m, k)
  BY <1>2, HitsAre
<1>4. m < Len(z)
  BY <1>2, <1>3 DEF Hits
<1>5. Occurs(y \o z, Len(y) + m, k) /\ Len(y) + m \in Nat
  BY <1>2, <1>3, OccursJoined
<1>6. PICK n \in Nat : i + n = Len(T)
  <2>1. Len(T) - i \in Nat /\ i + (Len(T) - i) = Len(T)
    BY UptoAll
  <2> QED
    BY <2>1
<1>7. i \in 0 .. Len(T) /\ i + n <= Len(T)
  BY <1>6, UptoAll
<1>8. Goes(T, i, i + n)
  BY <1>7, UptoGoes
<1>9. PICK rest \in Seq(Chars) : FlattenSeq(T) = (y \o z) \o rest
  <2>1. PICK rest \in Seq(Chars) : Upto(T, i + n) = Upto(T, i) \o rest
    BY <1>8 DEF Goes
  <2> QED
    BY <1>2, <1>6, <2>1, UptoAll
<1>10. PICK a, w : a = Len(y) + m /\ w = y \o z
  OBVIOUS
<1>11. a \in Nat /\ w \in Seq(Chars) /\ Occurs(w, a, k)
  BY <1>2, <1>5, <1>10
<1>12. Occurs(w \o rest, a, k) /\ w \o rest \in Seq(Chars)
  BY <1>11, OccursJoined
<1>13. a \in Hits(w \o rest)
  BY <1>11, <1>12, HitsAre
<1> QED
  BY <1>1, <1>2, <1>3, <1>4, <1>9, <1>10, <1>13

(* What is left of texts that are cut as one.                              *)
CutIn(T, i) ==
  /\ i \in 1 .. Len(T) /\ HasStop(T[i])
  /\ \A j \in 1 .. Len(T) : j < i => ~HasStop(T[j])
  /\ TrimBlocks(T) = Append(SubSeq(T, 1, i - 1), Clean(T[i]))

LEMMA BlocksCut ==
  ASSUME NEW T \in Seq(Seq(Chars)), ~Straddles(T)
  PROVE  \/ TrimBlocks(T) = T /\ \A j \in 1 .. Len(T) : ~HasStop(T[j])
         \/ \E i : CutIn(T, i)
<1>0. Len(T) \in Nat /\ FlattenSeq(T) \in Seq(Chars) /\ DOMAIN T = 1 .. Len(T)
  BY UptoAll
<1>1. CASE ~HasStop(FlattenSeq(T))
  <2>1. TrimBlocks(T) = T
    BY <1>1 DEF TrimBlocks
  <2>2. ASSUME NEW j \in 1 .. Len(T) PROVE ~HasStop(T[j])
    BY <1>1, HitOfText DEF HasStop
  <2> QED
    BY <2>1, <2>2
<1>2. CASE HasStop(FlattenSeq(T))
  <2>1. PICK all, pos : all = FlattenSeq(T) /\ pos = Min(Hits(all))
    OBVIOUS
  <2>2. pos \in Hits(all) /\ pos \in Nat /\ \A n \in Hits(all) : n \in Nat /\ pos <= n
    BY <1>0, <1>2, <2>1, HitsAre, MinOf DEF HasStop
  <2>3. PICK i \in 1 .. Len(T) :
          HasStop(T[i]) /\ StartOf(T, i) + Min(Hits(T[i])) = pos
    BY <1>0, <1>2, <2>1 DEF Straddles
  <2>4. PICK m : m = Min(Hits(T[i]))
    OBVIOUS
  <2>5. T[i] \in Seq(Chars) /\ StartOf(T, i) \in Nat
    BY StartIs
  <2>6. m \in Hits(T[i]) /\ m \in Nat /\ m < Len(T[i])
    BY <2>3, <2>4, <2>5, HitsAre, HitOfText, MinOf DEF HasStop
  <2>7. StartOf(T, i) <= pos /\ pos < StartOf(T, i) + Len(T[i])
    BY <2>3, <2>4, <2>5, <2>6
  <2>8. ASSUME NEW j \in 1 .. Len(T), StartOf(T, j) <= pos, pos < StartOf(T, j) + Len(T[j])
        PROVE  j = i
    <3>1. /\ StartOf(T, j) \in Nat /\ Len(T[j]) \in Nat /\ Len(T[i]) \in Nat
          /\ j \in Int /\ i \in Int
      <4>1. StartOf(T, j) \in Nat /\ Len(T[j]) \in Nat
        BY StartIs
      <4>2. Len(T[i]) \in Nat
        BY StartIs
      <4> QED
        BY <1>0, <4>1, <4>2
    <3>2. ~(j < i)
      <4>1. j < i => StartOf(T, j) + Len(T[j]) <= StartOf(T, i)
        BY StartsLater
      <4> QED
        BY <2>2, <2>5, <2>7, <2>8, <3>1, <4>1
    <3>3. ~(i < j)
      <4>1. i < j => StartOf(T, i) + Len(T[i]) <= StartOf(T, j)
        BY StartsLater
      <4> QED
        BY <2>2, <2>5, <2>7, <2>8, <3>1, <4>1
    <3> QED
      BY <3>1, <3>2, <3>3
  <2>9. ASSUME NEW j \in 1 .. Len(T), j < i PROVE ~HasStop(T[j])
    <3> SUFFICES ASSUME HasStop(T[j]) PROVE FALSE
      OBVIOUS
    <3>1. PICK h : h \in Hits(T[j])
      BY DEF HasStop
    <3>2. StartOf(T, j) + h \in Hits(all) /\ h \in Nat /\ h < Len(T[j])
      BY <2>1, <3>1, HitOfText
    <3>3. StartOf(T, j) + Len(T[j]) <= StartOf(T, i)
      BY <2>9, StartsLater
    <3>4. StartOf(T, j) \in Nat /\ Len(T[j]) \in Nat
      BY StartIs
    <3> QED
      BY <2>2, <2>5, <2>7, <3>2, <3>3, <3>4
  <2>10. TrimBlocks(T) = Append(SubSeq(T, 1, i - 1), SubSeq(T[i], 1, pos - StartOf(T, i)))
    <3>1. i = CHOOSE j \in DOMAIN T : /\ StartOf(T, j) <= pos
                                      /\ pos < StartOf(T, j) + Len(T[j])
      BY <1>0, <2>7, <2>8
    <3> QED
      BY <1>2, <2>1, <3>1 DEF TrimBlocks
  <2>11. pos - StartOf(T, i) = m
    BY <2>3, <2>4, <2>5, <2>6
  <2>12. Clean(T[i]) = SubSeq(T[i], 1, m)
    BY <2>3, <2>4 DEF Clean
  <2>13. CutIn(T, i)
    BY <2>3, <2>9, <2>10, <2>11, <2>12 DEF CutIn
  <2> QED
    BY <2>13
<1> QED
  BY <1>1, <1>2

-----------------------------------------------------------------------------
(* Streams and buffered bodies.                                            *)

(* A stream of the other protocol speaks of its first choice only.         *)
OneChoice == proto = "openai" => \A b \in Blocks : b # 0 => sent[b] = <<>>

LEMMA OneChoiceStep ==
  ASSUME StreamInv, TextInv, TextInv', OneChoice, [Next]_vars
  PROVE  OneChoice'
<1>1. proto' = proto
  BY DEF Next, vars, Send, ReadLine, ReadHalf, Flood, End, Disconnect
<1> SUFFICES ASSUME proto = "openai"
             PROVE  \A b \in Blocks : b # 0 => sent'[b] = <<>>
  BY <1>1 DEF OneChoice
<1>2. ASSUME ended' = "no" PROVE \A b \in Blocks : b # 0 => sent'[b] = <<>>
  BY <1>1, <1>2 DEF TextInv, Fresh
<1>3. ASSUME sent' = sent PROVE \A b \in Blocks : b # 0 => sent'[b] = <<>>
  BY <1>3 DEF OneChoice
<1>4. ASSUME End PROVE \A b \in Blocks : b # 0 => sent'[b] = <<>>
  <2>1. ended = "no" /\ sent' = IF trim /\ g.buffer # <<>> THEN Heard(sent, g.buffer[1])
                                ELSE sent
    BY <1>4 DEF End
  <2>2. CASE trim /\ g.buffer # <<>>
    <3>1. PICK l : l = g.buffer[1]
      OBVIOUS
    <3>2. /\ Running /\ up.todo # <<>> /\ ~g.done /\ StreamLine(l)
          /\ (l.whole => l = Head(up.todo)) /\ LineOK(l)
      <4>1. /\ proto \in {"anthropic", "openai"} /\ Running /\ UpOK
            /\ up.todo # <<>> /\ l \in Halves(Head(up.todo))
        BY <2>1, <2>2, <3>1 DEF StreamInv, Running, HalfOK
      <4>2. StreamLine(l) /\ ~g.done
        BY <2>2, <3>1, <4>1, UnderWay
      <4> QED
        BY <4>1, <4>2, WholeInHand DEF StreamLine, GoodLines
    <3>3. Speaks(l) => l.idx \in Growing(up)
      BY <2>1, <3>2, LineFits
    <3>4. UpTypeOK /\ sent \in BlockTexts /\ Fresh(up, sent)
      BY <2>1, <3>2 DEF Running, UpOK, TextInv
    <3>5. Fresh(up, Heard(sent, l))
      BY <3>2, <3>3, <3>4, HeardFresh
    <3> QED
      BY <2>1, <2>2, <3>1, <3>5 DEF Fresh
  <2>3. CASE ~(trim /\ g.buffer # <<>>)
    BY <1>3, <2>1, <2>3
  <2> QED
    BY <2>2, <2>3
<1>5. Send \/ ReadLine \/ ReadHalf \/ Flood => ended' = "no"
  BY DEF Send, ReadLine, ReadHalf, Flood
<1>6. Disconnect \/ UNCHANGED vars => sent' = sent
  BY DEF Disconnect, vars
<1> QED
  BY <1>2, <1>3, <1>4, <1>5, <1>6 DEF Next

(* Everything that is due of a list of texts.                              *)
LEMMA DueIs ==
  ASSUME NEW s, NEW b \in Blocks
  PROVE  /\ (\A a \in Blocks : a < b => ~HasStop(s[a])) => Due(s, b) = Clean(s[b])
         /\ (\E a \in Blocks : a < b /\ HasStop(s[a])) => Due(s, b) = <<>>
         /\ ~HasStop(s[b]) => Clean(s[b]) = s[b]
BY DEF Due, Clean

LEMMA NothingClean == Clean(<<>>) = <<>>
<1>1. PICK e : e = <<>>
  OBVIOUS
<1>2. Len(e) = 0
  BY <1>1
<1>3. Hits(e) = {}
  BY <1>2 DEF Hits
<1>4. Clean(e) = e
  BY <1>3 DEF Clean, HasStop
<1> QED
  BY <1>1, <1>4

LEMMA TrimmedAlikeKept ==
  ASSUME WordsApart, StreamInv, TextInv, OneChoice
  PROVE  TrimmedAlike
<1> DEFINE N == Cardinality(Blocks)
           T == [i \in 1 .. N |-> sent[i - 1]]
           cutT == IF proto = "anthropic" THEN TrimBlocks(T) ELSE TrimChoices(T)
<1> SUFFICES ASSUME Finished, trim, cut # "line", ~Straddles(T), NEW i \in DOMAIN T
             PROVE  cl.text[i - 1] = IF i \in DOMAIN cutT THEN cutT[i] ELSE <<>>
  BY DEF TrimmedAlike
<1>0. N \in Nat /\ Blocks = 0 .. N - 1
  BY StreamAssumption, FS_CardinalityType
<1>1. sent \in [Blocks -> Seq(Chars)]
  BY DEF TextInv, BlockTexts
<1> HIDE DEF N
<1>2. /\ T \in Seq(Seq(Chars)) /\ Len(T) = N /\ DOMAIN T = 1 .. N
      /\ \A j \in 1 .. N : T[j] = sent[j - 1] /\ j - 1 \in Blocks
  <2>1. \A j \in 1 .. N : j - 1 \in Blocks
    BY <1>0
  <2>2. T \in [1 .. N -> Seq(Chars)]
    BY <1>1, <2>1
  <2> QED
    BY <1>0, <2>1, <2>2
<1>3. PICK b \in Blocks : b = i - 1 /\ i \in 1 .. N /\ T[i] = sent[b]
  BY <1>2
<1>4. cl.text[b] = Due(sent, b)
  BY TextInvKept DEF TextKept, Due
<1>5. \A a \in Blocks : a + 1 \in 1 .. N /\ (a + 1) - 1 = a /\ (a < b <=> a + 1 < i)
  BY <1>0, <1>3
<1>6. \A a \in Blocks : T[a + 1] = sent[a]
  BY <1>2, <1>5
<1> HIDE DEF T
<1>7. CASE proto = "anthropic"
  <2>1. ASSUME TrimBlocks(T) = T, \A j \in 1 .. N : ~HasStop(T[j])
        PROVE  cl.text[b] = IF i \in DOMAIN cutT THEN cutT[i] ELSE <<>>
    <3>1. \A a \in Blocks : ~HasStop(sent[a])
      BY <1>5, <1>6, <2>1
    <3>2. Due(sent, b) = sent[b]
      BY <3>1, DueIs
    <3> QED
      BY <1>2, <1>3, <1>4, <1>7, <2>1, <3>2
  <2>2. ASSUME NEW h, CutIn(T, h)
        PROVE  cl.text[b] = IF i \in DOMAIN cutT THEN cutT[i] ELSE <<>>
    <3>1. /\ h \in 1 .. N /\ HasStop(T[h]) /\ h \in Int /\ i \in Int
          /\ \A j \in 1 .. N : j < h => ~HasStop(T[j])
      BY <1>0, <1>2, <1>3, <2>2 DEF CutIn
    <3>2. PICK p, y : p = SubSeq(T, 1, h - 1) /\ y = Clean(T[h])
      OBVIOUS
    <3>3. /\ p \in Seq(Seq(Chars)) /\ Len(p) = h - 1
          /\ \A j \in 1 .. h - 1 : p[j] = T[j]
      <4>1. h - 1 \in Nat /\ h - 1 <= Len(T)
        BY <1>0, <1>2, <3>1
      <4> QED
        BY <1>2, <3>2, <4>1, Begins
    <3>4. cutT = Append(p, y)
      BY <1>7, <2>2, <3>2 DEF CutIn
    <3>5. DOMAIN cutT = 1 .. h /\ cutT[h] = y /\ \A j \in 1 .. h - 1 : cutT[j] = T[j]
      <4>1. PICK c : c = cutT
        OBVIOUS
      <4>2. c = Append(p, y) /\ y \in Seq(Chars)
        <5>1. T[h] \in Seq(Chars)
          BY <1>2, <3>1
        <5> QED
          BY <3>2, <3>4, <4>1, <5>1, TextsStayTexts
      <4>3. /\ Len(c) = Len(p) + 1 /\ DOMAIN c = 1 .. Len(p) + 1
            /\ c[Len(p) + 1] = y /\ \A j \in 1 .. Len(p) : c[j] = p[j]
        BY <3>3, <4>2
      <4> QED
        BY <3>1, <3>3, <4>1, <4>3
    <3> HIDE DEF cutT
    <3>6. ASSUME i <= h PROVE \A a \in Blocks : a < b => ~HasStop(sent[a])
      BY <1>5, <1>6, <3>1, <3>6
    <3>7. CASE i < h
      <4>1. ~HasStop(sent[b])
        BY <1>3, <3>1, <3>7
      <4>2. Due(sent, b) = sent[b]
        BY <3>1, <3>6, <3>7, <4>1, DueIs
      <4>3. i \in DOMAIN cutT /\ cutT[i] = T[i]
        BY <1>3, <3>1, <3>5, <3>7
      <4> QED
        BY <1>3, <1>4, <4>2, <4>3
    <3>8. CASE i = h
      <4>1. Due(sent, b) = Clean(sent[b])
        BY <3>1, <3>6, <3>8, DueIs
      <4>2. i \in DOMAIN cutT /\ cutT[i] = y
        BY <3>1, <3>5, <3>8
      <4> QED
        BY <1>3, <1>4, <3>2, <3>8, <4>1, <4>2
    <3>9. CASE i > h
      <4>1. PICK a \in Blocks : a = h - 1 /\ sent[a] = T[h]
        BY <1>2, <3>1
      <4>2. a < b
        BY <1>3, <3>1, <3>9, <4>1
      <4>3. Due(sent, b) = <<>>
        BY <3>1, <4>1, <4>2, DueIs
      <4>4. i \notin DOMAIN cutT
        BY <3>1, <3>5, <3>9
      <4> QED
        BY <1>4, <4>3, <4>4
    <3> QED
      BY <3>1, <3>7, <3>8, <3>9
  <2> QED
    BY <1>2, <1>3, <2>1, <2>2, BlocksCut
<1>8. CASE proto = "openai"
  <2>1. i \in DOMAIN cutT /\ cutT[i] = Clean(sent[b])
    BY <1>2, <1>3, <1>8 DEF TrimChoices
  <2>2. CASE b = 0
    <3>1. \A a \in Blocks : ~(a < b)
      BY <1>0, <2>2
    <3> QED
      BY <1>3, <1>4, <2>1, <3>1, DueIs
  <2>3. CASE b # 0
    <3>1. sent[b] = <<>>
      BY <1>8, <2>3 DEF OneChoice
    <3>2. Clean(sent[b]) = <<>>
      BY <3>1, NothingClean
    <3>3. Due(sent, b) = <<>>
      BY <3>2 DEF Due
    <3> QED
      BY <1>3, <1>4, <2>1, <3>2, <3>3
  <2> QED
    BY <2>2, <2>3
<1> QED
  BY <1>3, <1>7, <1>8 DEF StreamInv

(* Whatever the stop words are, as long as they are apart: a stream that   *)
(* is over, and did not break off inside a line, shows of each block what  *)
(* the buffered path would have left of it, for any blocks and texts,      *)
(* unless a word begins in one block and ends in another                   *)
(* (synthStopSeq and emitHit of internal/sseguard/guard.go,                *)
(* trimAnthropicStops and trimOpenAIStops of internal/proxy/stoptrim.go).  *)
THEOREM StreamTrimmedAlike ==
  ASSUME WordsApart
  PROVE  Spec => []TrimmedAlike
<1>1. Init => TextInv /\ OneChoice
  BY TextInit DEF Init, OneChoice
<1>2. StreamInv /\ TextInv /\ OneChoice /\ [Next]_vars => (TextInv /\ OneChoice)'
  BY TextStep, OneChoiceStep
<1>3. StreamInv /\ TextInv /\ OneChoice => TrimmedAlike
  BY TrimmedAlikeKept
<1> QED
  BY <1>1, <1>2, <1>3, StreamAlways, PTL DEF Spec
====
