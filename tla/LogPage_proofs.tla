--------------------------- MODULE LogPage_proofs ---------------------------
(***************************************************************************)
(* Proofs about the ring of finished requests and the page that reads it,  *)
(* for any capacity, grain and limit of the page, and any number of        *)
(* requests, restarts and loads.                                           *)
(***************************************************************************)
EXTENDS LogPage, SequenceTheorems, NaturalOrder

(* Where the i-th newest entry is, without the modulus.                    *)
At(i) == IF i < head THEN head - 1 - i ELSE head - 1 - i + Capacity

(* The ring holds the end of the log, the newest entry just behind head.   *)
RingMirrorsLog ==
  /\ count = IF Len(log) < Capacity THEN Len(log) ELSE Capacity
  /\ \A i \in 0 .. count - 1 : ring[At(i)] = log[Len(log) - i]

(* The sequence numbers of one process have no gaps.                       *)
Consecutive ==
  \A i \in 1 .. Len(log) : log[i].seq = seq - (Len(log) - i)

SeqBounded == seq <= 2 * Grain - 1 + pushes + restarts

LogIInv == LogTypeOK /\ SeqBounded /\ RingMirrorsLog /\ Consecutive

-----------------------------------------------------------------------------
(* The wrapping index.                                                     *)

LEMMA Modulus ==
  \A c \in Nat \ {0} : \A x \in 0 .. 3 * c - 1 :
    x % c = IF x < c THEN x ELSE IF x < 2 * c THEN x - c ELSE x - 2 * c
OBVIOUS

LEMMA NextHead ==
  ASSUME head \in 0 .. Capacity - 1
  PROVE  (head + 1) % Capacity = IF head + 1 = Capacity THEN 0 ELSE head + 1
<1> DEFINE x == head + 1
<1>1. x \in 0 .. 3 * Capacity - 1
  BY CapacityAssumption
<1>2. x % Capacity = IF x < Capacity THEN x
                     ELSE IF x < 2 * Capacity THEN x - Capacity
                     ELSE x - 2 * Capacity
  <2> HIDE DEF x
  <2> QED BY <1>1, CapacityAssumption, Modulus
<1> QED BY <1>2, CapacityAssumption

LEMMA NewestAt ==
  ASSUME head \in 0 .. Capacity - 1, NEW i \in 0 .. Capacity - 1
  PROVE  Newest(i) = ring[At(i)] /\ At(i) \in 0 .. Capacity - 1
<1> DEFINE x == head - 1 - i + 2 * Capacity
<1>1. x \in 0 .. 3 * Capacity - 1
  BY CapacityAssumption
<1>2. x % Capacity = IF x < Capacity THEN x
                     ELSE IF x < 2 * Capacity THEN x - Capacity
                     ELSE x - 2 * Capacity
  <2> HIDE DEF x
  <2> QED BY <1>1, CapacityAssumption, Modulus
<1>3. x % Capacity = At(i)
  BY <1>2, CapacityAssumption DEF At
<1> QED BY <1>3, CapacityAssumption DEF Newest, At
-----------------------------------------------------------------------------
(* Each step keeps the invariant.                                          *)

LEMMA LogInitial == LogInit => LogIInv
<1> SUFFICES ASSUME LogInit PROVE LogIInv
  OBVIOUS
<1>1. LogTypeOK
  BY CapacityAssumption, GrainAssumption, LogBoundsAssumption
     DEF LogInit, LogTypeOK, Empty, MaxSeq
<1>2. SeqBounded
  BY GrainAssumption DEF LogInit, SeqBounded
<1>3. RingMirrorsLog /\ Consecutive
  BY CapacityAssumption DEF LogInit, RingMirrorsLog, Consecutive
<1> QED BY <1>1, <1>2, <1>3 DEF LogIInv

LEMMA PushKeeps ==
  ASSUME LogIInv, NEW k \in Kinds, Push(k)
  PROVE  LogIInv'
<1> DEFINE e == [seq |-> seq + 1, kind |-> k]
<1> USE CapacityAssumption, GrainAssumption, LogBoundsAssumption
<1>t. LogTypeOK /\ SeqBounded /\ RingMirrorsLog /\ Consecutive
  BY DEF LogIInv
<1>p. /\ seq' = seq + 1 /\ ring' = [ring EXCEPT ![head] = e]
      /\ head' = IF head + 1 = Capacity THEN 0 ELSE head + 1
      /\ count' = IF count < Capacity THEN count + 1 ELSE count
      /\ log' = Append(log, e)
      /\ pushes' = pushes + 1 /\ restarts' = restarts /\ pushes < MaxPushes
  BY <1>t, NextHead DEF Push, LogTypeOK
<1>1. SeqBounded'
  BY <1>t, <1>p DEF SeqBounded, LogTypeOK
<1>2. e \in Entry
  BY <1>t, <1>p DEF SeqBounded, LogTypeOK, Entry, MaxSeq
<1>3. /\ log' \in Seq(Entry) /\ Len(log') = Len(log) + 1
      /\ \A i \in 1 .. Len(log) : log'[i] = log[i]
      /\ log'[Len(log')] = e
  BY <1>t, <1>p, <1>2, AppendProperties DEF LogTypeOK
<1>n. Len(log) \in Nat
  BY <1>t DEF LogTypeOK
<1>4. LogTypeOK'
  <2>1. seq' \in Grain .. MaxSeq
    BY <1>t, <1>p DEF LogTypeOK, SeqBounded, MaxSeq
  <2>2. ring' \in [0 .. Capacity - 1 -> Entry \cup {NoEntry}]
    BY <1>t, <1>p, <1>2 DEF LogTypeOK
  <2> QED BY <1>t, <1>p, <1>3, <2>1, <2>2 DEF LogTypeOK
<1>5. Consecutive'
  <2> SUFFICES ASSUME NEW i \in 1 .. Len(log')
               PROVE  log'[i].seq = seq' - (Len(log') - i)
    BY DEF Consecutive
  <2>1. CASE i = Len(log')
    BY <2>1, <1>3, <1>p, <1>t DEF LogTypeOK
  <2>2. CASE i \in 1 .. Len(log)
    BY <2>2, <1>3, <1>p, <1>t, <1>n DEF LogTypeOK, Consecutive
  <2> QED BY <2>1, <2>2, <1>3, <1>n
<1>6. RingMirrorsLog'
  <2>1. count' = IF Len(log') < Capacity THEN Len(log') ELSE Capacity
    BY <1>t, <1>p, <1>3, <1>n DEF RingMirrorsLog
  <2>2. ASSUME NEW i \in 0 .. count' - 1
        PROVE  ring'[At(i)'] = log'[Len(log') - i]
    <3>1. CASE i = 0
      <4>1. At(i)' = head
        BY <3>1, <1>p, <1>t DEF At, LogTypeOK
      <4>2. ring'[head] = e
        BY <1>p, <1>t DEF LogTypeOK
      <4> QED BY <3>1, <4>1, <4>2, <1>3
    <3>2. CASE i # 0
      <4>1. i - 1 \in 0 .. count - 1 /\ i < Capacity
        BY <3>2, <1>p, <1>t DEF LogTypeOK
      <4>2. At(i)' = At(i - 1) /\ At(i)' # head
            /\ At(i)' \in 0 .. Capacity - 1
        BY <4>1, <3>2, <1>p, <1>t DEF At, LogTypeOK
      <4>3. ring'[At(i)'] = ring[At(i - 1)]
        BY <4>2, <1>p, <1>t DEF LogTypeOK
      <4>4. ring[At(i - 1)] = log[Len(log) - (i - 1)]
        BY <4>1, <1>t DEF RingMirrorsLog
      <4>5. Len(log) - (i - 1) \in 1 .. Len(log)
            /\ Len(log) - (i - 1) = Len(log') - i
        BY <4>1, <1>n, <1>3, <1>t DEF RingMirrorsLog
      <4> QED BY <4>3, <4>4, <4>5, <1>3
    <3> QED BY <3>1, <3>2
  <2> QED BY <2>1, <2>2 DEF RingMirrorsLog
<1> QED BY <1>1, <1>4, <1>5, <1>6 DEF LogIInv

LEMMA RestartKeeps ==
  ASSUME LogIInv, Restart
  PROVE  LogIInv'
<1> USE CapacityAssumption, GrainAssumption, LogBoundsAssumption
<1>1. seq' \in Grain .. MaxSeq /\ SeqBounded'
  BY DEF LogIInv, LogTypeOK, Restart, FirstSeq, SeqBounded, MaxSeq
<1>2. LogTypeOK'
  BY <1>1 DEF LogIInv, LogTypeOK, Restart, Empty
<1>3. RingMirrorsLog' /\ Consecutive'
  BY DEF Restart, RingMirrorsLog, Consecutive
<1> QED BY <1>1, <1>2, <1>3 DEF LogIInv

LEMMA LogStutterKeeps ==
  ASSUME LogIInv, UNCHANGED logVars
  PROVE  LogIInv'
BY DEF LogIInv, LogTypeOK, SeqBounded, RingMirrorsLog, Consecutive, At,
       logVars

(* The page and its fetches leave the ring alone.                          *)
LEMMA LogNext == LogIInv /\ [Next]_vars => LogIInv'
<1> SUFFICES ASSUME LogIInv, [Next]_vars PROVE LogIInv'
  OBVIOUS
<1>1. CASE \E k \in Kinds : Push(k)
  BY <1>1, PushKeeps
<1>2. CASE ServerRestarts
  BY <1>2, RestartKeeps DEF ServerRestarts
<1>3. CASE UNCHANGED logVars
  BY <1>3, LogStutterKeeps
<1>4. User \/ Poll => UNCHANGED logVars
  BY DEF User, Poll, Mount, ChangeFilter, Retry
<1>5. ASSUME NEW f \in fetches, Serve(f) \/ Deliver(f) \/ FetchFails(f)
      PROVE  UNCHANGED logVars
  BY <1>5 DEF Serve, Deliver, FetchFails
<1>6. UNCHANGED vars => UNCHANGED logVars
  BY DEF vars
<1> QED BY <1>1, <1>2, <1>3, <1>4, <1>5, <1>6 DEF Next

LEMMA LogIInvAlways == Spec => []LogIInv
<1>1. Init => LogIInv
  BY LogInitial DEF Init
<1> QED BY <1>1, LogNext, PTL DEF Spec
-----------------------------------------------------------------------------
(* Snapshots.                                                              *)

(* How many entries of the log, cut to the capacity, are above a cursor.   *)
Above(since) == IF seq <= since THEN 0
                ELSE IF seq - since < count THEN seq - since ELSE count

LEMMA NewestEntries ==
  ASSUME LogIInv, NEW i \in 0 .. count - 1
  PROVE  /\ Newest(i) = log[Len(log) - i]
         /\ Len(log) - i \in 1 .. Len(log)
         /\ Newest(i).seq = seq - i
<1>1. /\ i \in 0 .. Capacity - 1
      /\ count \in Nat /\ count <= Len(log) /\ Len(log) \in Nat
  BY CapacityAssumption DEF LogIInv, LogTypeOK, RingMirrorsLog
<1>2. Newest(i) = log[Len(log) - i]
  BY <1>1, NewestAt DEF LogIInv, LogTypeOK, RingMirrorsLog
<1>3. Len(log) - i \in 1 .. Len(log)
  BY <1>1
<1>4. log[Len(log) - i].seq = seq - (Len(log) - (Len(log) - i))
  BY <1>3 DEF LogIInv, Consecutive
<1>5. Len(log) - (Len(log) - i) = i
  BY <1>1
<1> QED BY <1>2, <1>3, <1>4, <1>5

(* What the loop of Snapshot collects.                                     *)
LEMMA SnapshotIs ==
  ASSUME LogIInv, NEW limit \in Nat \ {0}, NEW since \in Int
  PROVE  LET size == IF Above(since) < limit THEN Above(since) ELSE limit
         IN  Snapshot(limit, since) = [n \in 1 .. size |-> log[Len(log) + 1 - n]]
<1> DEFINE size == IF Above(since) < limit THEN Above(since) ELSE limit
           cap == IF limit <= 0 \/ limit > Capacity THEN Capacity ELSE limit
           new == {i \in 0 .. count - 1 :
                     i < cap /\ \A j \in 0 .. i : Beyond(Newest(j), since)}
<1>t. /\ count \in 0 .. Capacity /\ seq \in Int /\ Len(log) \in Nat
      /\ count <= Len(log)
  BY CapacityAssumption, GrainAssumption
     DEF LogIInv, LogTypeOK, RingMirrorsLog
<1>1. Above(since) \in 0 .. count /\ size \in 0 .. count
  BY <1>t DEF Above
<1>2. ASSUME NEW i \in 0 .. count - 1
      PROVE  i \in new <=> i < size
  <2>1. \A j \in 0 .. i : Beyond(Newest(j), since) <=> seq - j > since
    BY <1>t, NewestEntries DEF Beyond
  <2>2. (\A j \in 0 .. i : Beyond(Newest(j), since)) <=> seq - i > since
    BY <1>t, <2>1
  <2>3. seq - i > since <=> i < Above(since)
    BY <1>t DEF Above
  <2>4. i < cap <=> i < limit
    BY <1>t, CapacityAssumption
  <2> QED BY <1>1, <2>2, <2>3, <2>4
<1>3. {i + 1 : i \in new} = 1 .. size
  <2>1. new = 0 .. size - 1
    BY <1>1, <1>2, <1>t
  <2> HIDE DEF new
  <2>2. \A n \in 1 .. size : n - 1 \in new /\ n = (n - 1) + 1
    BY <2>1, <1>1
  <2>3. \A i \in new : i + 1 \in 1 .. size
    BY <2>1, <1>1
  <2> QED BY <2>2, <2>3
<1>4. ASSUME NEW n \in 1 .. size
      PROVE  Newest(n - 1) = log[Len(log) + 1 - n]
  <2>1. n - 1 \in 0 .. count - 1 /\ Len(log) - (n - 1) = Len(log) + 1 - n
    BY <1>1, <1>t
  <2> QED BY <2>1, NewestEntries
<1>5. Snapshot(limit, since) = [n \in {i + 1 : i \in new} |-> Newest(n - 1)]
  BY DEF Snapshot
<1> HIDE DEF new, size
<1> QED BY <1>3, <1>4, <1>5 DEF size

(* What the log itself says.                                               *)
LEMMA RecentIs ==
  ASSUME LogIInv, NEW limit \in 1 .. Capacity + 1, NEW since \in Int
  PROVE  LET size == IF Above(since) < limit THEN Above(since) ELSE limit
         IN  Recent(limit, since) = [n \in 1 .. size |-> log[Len(log) + 1 - n]]
<1> DEFINE low == Len(log) - Capacity
           above == {i \in 1 .. Len(log) : i > low /\ log[i].seq > since}
           first == IF above = {} THEN Len(log) + 1
                    ELSE CHOOSE i \in above : \A j \in above : i <= j
<1>t. /\ count \in 0 .. Capacity /\ seq \in Int /\ Len(log) \in Nat
      /\ count = IF Len(log) < Capacity THEN Len(log) ELSE Capacity
      /\ Capacity \in Nat
  BY CapacityAssumption, GrainAssumption
     DEF LogIInv, LogTypeOK, RingMirrorsLog
<1>1. Above(since) \in 0 .. count
  BY <1>t DEF Above
<1>2. above = Len(log) + 1 - Above(since) .. Len(log)
  <2>1. \A i \in 1 .. Len(log) : log[i].seq = seq - (Len(log) - i)
    BY DEF LogIInv, Consecutive
  <2>2. \A i \in 1 .. Len(log) :
          i > low /\ log[i].seq > since <=> i >= Len(log) + 1 - Above(since)
    BY <1>t, <2>1 DEF Above
  <2> QED BY <1>1, <1>t, <2>2
<1>3. first = Len(log) + 1 - Above(since)
  <2> HIDE DEF above
  <2>1. CASE Above(since) = 0
    BY <2>1, <1>2, <1>t
  <2>2. CASE Above(since) # 0
    <3>1. /\ Len(log) + 1 - Above(since) \in above
          /\ \A j \in above : Len(log) + 1 - Above(since) <= j
          /\ \A j \in above : j \in Int
      BY <2>2, <1>1, <1>2, <1>t
    <3> QED BY <3>1, <1>t, <1>1
  <2> QED BY <2>1, <2>2
<1>4. Len(log) + 1 - first = Above(since)
  <2> HIDE DEF first
  <2> QED BY <1>1, <1>3, <1>t
<1> HIDE DEF first
<1> QED BY <1>4 DEF Recent, first

(* The ring with its wrapping index and its early stop gives exactly what  *)
(* the log of the process says, whatever the capacity, the page's limit    *)
(* and its cursor, and however often the process was restarted             *)
(* (reqlog.go:86-116).                                                     *)
THEOREM SnapshotsExact == Spec => []SnapshotExact
<1>1. LogIInv => SnapshotExact
  <2> SUFFICES ASSUME LogIInv, NEW limit \in 1 .. Capacity + 1,
                      NEW since \in 0 .. MaxSeq
               PROVE  Snapshot(limit, since) = Recent(limit, since)
    BY DEF SnapshotExact
  <2>1. since \in Int /\ limit \in Nat \ {0}
    OBVIOUS
  <2> DEFINE size == IF Above(since) < limit THEN Above(since) ELSE limit
             newest == [n \in 1 .. size |-> log[Len(log) + 1 - n]]
  <2>2. Snapshot(limit, since) = newest
    BY <2>1, SnapshotIs
  <2>3. Recent(limit, since) = newest
    BY <2>1, RecentIs
  <2> QED BY <2>2, <2>3
<1> QED BY <1>1, LogIInvAlways, PTL
-----------------------------------------------------------------------------
(* Rounding.                                                               *)

LEMMA Division ==
  \A s \in Nat, g \in Nat \ {0} :
    /\ s = ((s \div g) * g) + (s % g)
    /\ s % g \in 0 .. g - 1 /\ s \div g \in Nat
OBVIOUS

LEMMA NextMultiple ==
  \A k, m, g \in Nat : k < m => (k * g) + g <= m * g
<1> SUFFICES ASSUME NEW k \in Nat, NEW m \in Nat, NEW g \in Nat, k < m
             PROVE  (k * g) + g <= m * g
  OBVIOUS
<1>1. \A a, b, c \in Nat : a <= b => a * c <= b * c
  OBVIOUS
<1>2. (k + 1) * g = (k * g) + g
  OBVIOUS
<1>3. (k + 1) * g <= m * g
  BY <1>1
<1> QED BY <1>2, <1>3

(* A double is a multiple of the grain at most half a grain away.          *)
LEMMA NumberNear ==
  ASSUME NEW s \in Nat
  PROVE  /\ \E k \in Nat : Number(s) = k * Grain
         /\ Number(s) \in Nat
         /\ 2 * Number(s) <= 2 * s + Grain /\ 2 * s <= 2 * Number(s) + Grain
<1> DEFINE q == s \div Grain
           r == s % Grain
           up == 2 * r > Grain \/ (2 * r = Grain /\ q % 2 = 1)
<1>1. s = (q * Grain) + r /\ r \in 0 .. Grain - 1 /\ q \in Nat /\ Grain \in Nat
  BY Division, GrainAssumption
<1>2. Number(s) = (IF up THEN q + 1 ELSE q) * Grain
  BY DEF Number
<1>3. up => 2 * r >= Grain
  <2> HIDE DEF q, r
  <2> QED BY <1>1
<1>4. ~up => 2 * r <= Grain
  <2> HIDE DEF q, r
  <2> QED BY <1>1
<1> HIDE DEF q, r, up
<1>5. PICK k \in Nat : Number(s) = k * Grain /\ k = IF up THEN q + 1 ELSE q
  BY <1>1, <1>2
<1>6. PICK z \in Nat : z = q * Grain /\ (q + 1) * Grain = z + Grain
  BY <1>1
<1>7. s = z + r /\ Number(s) = IF up THEN z + Grain ELSE z
  BY <1>1, <1>2, <1>6
<1>8. ASSUME NEW n, n = Number(s)
      PROVE  n \in Nat /\ 2 * n <= 2 * s + Grain /\ 2 * s <= 2 * n + Grain
  <2>1. n = IF up THEN z + Grain ELSE z
    BY <1>7, <1>8
  <2>2. s = z + r /\ r \in 0 .. Grain - 1 /\ Grain \in Nat
    BY <1>1, <1>7
  <2>3. (up => 2 * r >= Grain) /\ (~up => 2 * r <= Grain)
    BY <1>3, <1>4
  <2> QED BY <2>1, <2>2, <2>3
<1> QED BY <1>5, <1>8

(* A later sequence number is no smaller a double.                         *)
LEMMA NumberGrows ==
  ASSUME NEW s \in Nat, NEW t \in Nat, s <= t
  PROVE  Number(s) <= Number(t)
<1> SUFFICES ASSUME Number(t) < Number(s) PROVE FALSE
  BY NumberNear
<1>1. PICK k \in Nat : Number(s) = k * Grain
  BY NumberNear
<1>2. PICK m \in Nat : Number(t) = m * Grain
  BY NumberNear
<1>3. m < k
  <2> SUFFICES ASSUME k <= m PROVE FALSE
    OBVIOUS
  <2>1. \A a, b, c \in Nat : a <= b => a * c <= b * c
    OBVIOUS
  <2>2. k * Grain <= m * Grain
    BY <2>1, GrainAssumption
  <2>3. k * Grain \in Nat /\ m * Grain \in Nat
    BY GrainAssumption
  <2> QED BY <1>1, <1>2, <2>2, <2>3
<1>4. Number(t) + Grain <= Number(s)
  BY <1>1, <1>2, <1>3, NextMultiple, GrainAssumption
<1>5. s = t
  <2>1. 2 * Number(s) <= 2 * s + Grain /\ 2 * t <= 2 * Number(t) + Grain
        /\ Number(s) \in Nat /\ Number(t) \in Nat
    BY NumberNear
  <2> QED BY <1>4, <2>1, GrainAssumption
<1> QED BY <1>5, NumberNear

LEMMA PrintedNear ==
  ASSUME NEW n \in Nat
  PROVE  Printed(n) \in Nat /\ 2 * Printed(n) <= 2 * n + DecimalUnit
<1> DEFINE x == 2 * n + DecimalUnit
           g == 2 * DecimalUnit
           q == x \div g
<1>1. DecimalUnit \in Nat \ {0}
  BY PrintAssumption, GrainAssumption
<1>2. x \in Nat /\ g \in Nat \ {0}
  BY <1>1
<1>3. x = (q * g) + (x % g) /\ x % g \in 0 .. g - 1 /\ q \in Nat
  <2> HIDE DEF x, g
  <2> QED BY <1>2, Division
<1>4. Printed(n) = q * DecimalUnit
  BY DEF Printed
<1> HIDE DEF q
<1>5. q * g = 2 * (q * DecimalUnit) /\ q * DecimalUnit \in Nat
  BY <1>1, <1>3
<1> QED BY <1>1, <1>2, <1>3, <1>4, <1>5
-----------------------------------------------------------------------------
(* The entries that pass the filter.                                       *)

(* f is what is shown of the first entries of an answer, up to the m-th.   *)
NextShown(a, n, rows) ==
  IF kindFilter \in {AnyKind, a[n].kind} THEN Append(rows, a[n]) ELSE rows

IsShown(f, a, m) ==
  f = [n \in 0 .. m |-> IF n = 0 THEN <<>> ELSE NextShown(a, n, f[n - 1])]

LEMMA ShownExists == \A a : \A m \in Nat : \E f : IsShown(f, a, m)
<1> SUFFICES ASSUME NEW a
             PROVE  \A m \in Nat : \E f : IsShown(f, a, m)
  OBVIOUS
<1> DEFINE A == {m \in Nat : \E f : IsShown(f, a, m)}
<1>1. 0 \in A
  <2>1. IsShown([n \in 0 .. 0 |-> <<>>], a, 0)
    BY DEF IsShown
  <2> QED BY <2>1
<1>2. ASSUME NEW m \in Nat, m \in A PROVE m + 1 \in A
  <2>1. PICK f : IsShown(f, a, m)
    BY <1>2
  <2> DEFINE h == [n \in 0 .. m + 1 |->
                     IF n = m + 1 THEN NextShown(a, n, f[m]) ELSE f[n]]
  <2>2. ASSUME NEW n \in 0 .. m + 1
        PROVE  h[n] = IF n = 0 THEN <<>> ELSE NextShown(a, n, h[n - 1])
    <3>1. CASE n = 0
      BY <2>1, <3>1 DEF IsShown
    <3>2. CASE n = m + 1
      <4>1. h[n] = NextShown(a, n, f[m])
        BY <3>2
      <4>2. h[n - 1] = f[m] /\ n # 0
        BY <3>2
      <4> HIDE DEF h
      <4> QED BY <4>1, <4>2
    <3>3. CASE n \in 1 .. m
      <4>1. h[n] = f[n] /\ h[n - 1] = f[n - 1] /\ n # 0 /\ n \in 0 .. m
        BY <3>3
      <4> HIDE DEF h
      <4>2. f[n] = NextShown(a, n, f[n - 1])
        BY <2>1, <4>1 DEF IsShown
      <4> QED BY <4>1, <4>2
    <3> QED BY <3>1, <3>2, <3>3
  <2>3. IsShown(h, a, m + 1)
    <3>1. h = [n \in 0 .. m + 1 |-> h[n]]
      OBVIOUS
    <3> HIDE DEF h
    <3> QED BY <2>2, <3>1 DEF IsShown
  <2> HIDE DEF h
  <2> QED BY <2>3
<1>3. Nat \subseteq A
  <2> HIDE DEF A
  <2> QED BY <1>1, <1>2, SetOfAllNaturals
<1> QED BY <1>3

(* What is shown of an answer is a sequence of entries.                    *)
LEMMA ShownTyped ==
  ASSUME NEW a \in Seq(Entry)
  PROVE  Shown(a) \in Seq(Entry)
<1> DEFINE upTo == CHOOSE f : IsShown(f, a, Len(a))
<1>1. Shown(a) = upTo[Len(a)]
  BY DEF Shown, IsShown, NextShown
<1>2. IsShown(upTo, a, Len(a))
  BY ShownExists
<1> HIDE DEF upTo
<1> DEFINE A == {n \in Nat : n <= Len(a) => upTo[n] \in Seq(Entry)}
<1>3. 0 \in A
  BY <1>2 DEF IsShown
<1>4. ASSUME NEW n \in Nat, n \in A PROVE n + 1 \in A
  <2> SUFFICES ASSUME n + 1 <= Len(a) PROVE upTo[n + 1] \in Seq(Entry)
    OBVIOUS
  <2>1. n + 1 \in 0 .. Len(a) /\ n + 1 \in 1 .. Len(a) /\ n + 1 # 0
        /\ (n + 1) - 1 = n
    OBVIOUS
  <2>2. upTo[n + 1] = NextShown(a, n + 1, upTo[n])
    BY <1>2, <2>1 DEF IsShown
  <2>3. upTo[n] \in Seq(Entry) /\ a[n + 1] \in Entry
    BY <1>4, <2>1
  <2> QED BY <2>2, <2>3, AppendProperties DEF NextShown
<1>5. Nat \subseteq A
  <2> HIDE DEF A
  <2> QED BY <1>3, <1>4, SetOfAllNaturals
<1> QED BY <1>1, <1>5
-----------------------------------------------------------------------------
(* What the page keeps.                                                    *)

Answers == Seq(Entry) \cup {NoAnswer}
Fetch == [since : NoCursor .. MaxSeq + Grain, waiting : Nat, answer : Answers]

(* No answer is ahead of what the server gave out.                         *)
NotAhead(a) == \A i \in DOMAIN a : a[i].seq <= seq

OnePerPath(fs) == \A f, g \in fs : f.since = g.since => f = g

FetchInv(fs) ==
  /\ fs \subseteq Fetch
  /\ \A f \in fs : f.answer # NoAnswer => NotAhead(f.answer)
  /\ OnePerPath(fs)

Views == {v \in Seq(Entry) : Len(v) <= PageLimit}
Pages == [lastSeq : 0 .. Number(seq), view : Views, full : BOOLEAN]

PageInv ==
  /\ kindFilter \in Filters
  /\ lastSeq \in 0 .. Number(seq)
  /\ fullReload \in BOOLEAN
  /\ view \in Views
  /\ FetchInv(fetches)
  /\ failed \in BOOLEAN
  /\ events \in 0 .. MaxEvents

LEMMA SeqNatural == LogTypeOK => seq \in Nat /\ Number(seq) \in Nat
<1> SUFFICES ASSUME LogTypeOK PROVE seq \in Nat /\ Number(seq) \in Nat
  OBVIOUS
<1>1. seq \in Nat
  BY GrainAssumption DEF LogTypeOK
<1> QED BY <1>1, NumberNear

(* The cursor the page sends is in the range of the types.                 *)
LEMMA CursorTyped ==
  ASSUME LogTypeOK, lastSeq \in 0 .. Number(seq)
  PROVE  Cursor \in NoCursor .. MaxSeq + Grain
<1>1. seq \in Nat /\ MaxSeq \in Nat /\ seq <= MaxSeq
  BY GrainAssumption, LogBoundsAssumption DEF LogTypeOK, MaxSeq
<1>2. Number(seq) \in Nat /\ 2 * Number(seq) <= 2 * seq + Grain
  BY <1>1, NumberNear
<1>3. lastSeq \in Nat /\ lastSeq <= Number(seq)
  BY <1>2
<1>4. Printed(lastSeq) \in Nat
      /\ 2 * Printed(lastSeq) <= 2 * lastSeq + DecimalUnit
  BY <1>3, PrintedNear
<1>5. Printed(lastSeq) \in NoCursor .. MaxSeq + Grain
  BY <1>1, <1>2, <1>3, <1>4, PrintAssumption, GrainAssumption DEF NoCursor
<1>6. NoCursor \in NoCursor .. MaxSeq + Grain
  BY <1>1, GrainAssumption DEF NoCursor
<1> QED BY <1>5, <1>6 DEF Cursor

(* Another load leaves one fetch per path.                                 *)
LEMMA StartedKeeps ==
  ASSUME NEW fs, FetchInv(fs), NEW n \in Nat,
         NEW since \in NoCursor .. MaxSeq + Grain
  PROVE  FetchInv(Started(fs, since, n))
<1> DEFINE same == {f \in fs : f.since = since}
           new == [since |-> since, waiting |-> n, answer |-> NoAnswer]
           more(f) == [f EXCEPT !.waiting = @ + n]
<1>1. CASE same = {}
  <2>1. Started(fs, since, n) = fs \cup {new}
    BY <1>1 DEF Started
  <2>2. new \in Fetch
    BY DEF Fetch, Answers
  <2>3. \A f \in fs : f.since # new.since
    BY <1>1
  <2>4. new.answer = NoAnswer
    OBVIOUS
  <2> HIDE DEF new
  <2>5. OnePerPath(fs \cup {new})
    BY <2>3 DEF FetchInv, OnePerPath
  <2> QED BY <2>1, <2>2, <2>4, <2>5 DEF FetchInv
<1>2. CASE same # {}
  <2>1. PICK f \in fs : f.since = since
    BY <1>2
  <2>2. same = {f}
    BY <2>1 DEF FetchInv, OnePerPath
  <2>3. Started(fs, since, n) = (fs \ {f}) \cup {more(f)}
    BY <2>2 DEF Started
  <2>4. f \in Fetch
    BY <2>1 DEF FetchInv
  <2>5. more(f) \in Fetch /\ more(f).since = f.since
        /\ more(f).answer = f.answer
    BY <2>4 DEF Fetch
  <2> HIDE DEF more
  <2>6. OnePerPath((fs \ {f}) \cup {more(f)})
    BY <2>1, <2>5 DEF FetchInv, OnePerPath
  <2>7. \A g \in (fs \ {f}) \cup {more(f)} :
          g \in Fetch /\ (g.answer # NoAnswer => NotAhead(g.answer))
    BY <2>1, <2>5 DEF FetchInv
  <2> QED BY <2>3, <2>6, <2>7 DEF FetchInv
<1> QED BY <1>1, <1>2

(* What Snapshot answers is ahead of nothing.                              *)
LEMMA SnapshotTyped ==
  ASSUME LogIInv, NEW since \in Int
  PROVE  Snapshot(PageLimit, since) \in Seq(Entry)
         /\ NotAhead(Snapshot(PageLimit, since))
<1> DEFINE size == IF Above(since) < PageLimit THEN Above(since) ELSE PageLimit
<1>t. /\ count \in 0 .. Capacity /\ seq \in Int /\ Len(log) \in Nat
      /\ count <= Len(log) /\ log \in Seq(Entry)
  BY CapacityAssumption, GrainAssumption
     DEF LogIInv, LogTypeOK, RingMirrorsLog
<1>1. size \in 0 .. count
  BY <1>t, PageAssumption DEF Above
<1>2. Snapshot(PageLimit, since) = [n \in 1 .. size |-> log[Len(log) + 1 - n]]
  BY PageAssumption, SnapshotIs
<1>3. ASSUME NEW n \in 1 .. size
      PROVE  log[Len(log) + 1 - n] \in Entry
             /\ log[Len(log) + 1 - n].seq <= seq
  <2>1. PICK i : i = Len(log) + 1 - n /\ i \in 1 .. Len(log)
    BY <1>1, <1>t
  <2>2. log[i].seq = seq - (Len(log) - i)
    BY <2>1 DEF LogIInv, Consecutive
  <2>3. log[i] \in Entry
    BY <2>1, <1>t
  <2> QED BY <2>1, <2>2, <2>3, <1>t
<1> HIDE DEF size
<1> QED BY <1>1, <1>2, <1>3, <1>t DEF NotAhead
-----------------------------------------------------------------------------
(* The second half of load().                                              *)

LEMMA CutTyped ==
  ASSUME NEW rows \in Seq(Entry)
  PROVE  Cut(rows) \in Views
<1> DEFINE m == IF Len(rows) < PageLimit THEN Len(rows) ELSE PageLimit
<1>1. m \in 0 .. Len(rows) /\ m <= PageLimit
  BY PageAssumption
<1>2. Cut(rows) = SubSeq(rows, 1, m)
  BY DEF Cut
<1> HIDE DEF m
<1>3. SubSeq(rows, 1, m) \in Seq(Entry) /\ Len(SubSeq(rows, 1, m)) = m
  BY <1>1, SubSeqProperties
<1> QED BY <1>1, <1>2, <1>3 DEF Views

LEMMA ReceivedTyped ==
  ASSUME LogTypeOK, NEW p \in Pages, NEW a \in Seq(Entry), NotAhead(a)
  PROVE  Received(p, a) \in Pages
<1> DEFINE last == IF a # <<>> /\ Number(a[1].seq) > p.lastSeq
                   THEN Number(a[1].seq) ELSE p.lastSeq
           rows == Shown(a)
           seen == IF p.full THEN rows ELSE rows \o p.view
<1>1. p.lastSeq \in 0 .. Number(seq) /\ p.view \in Seq(Entry)
  BY DEF Pages, Views
<1>2. last \in 0 .. Number(seq)
  <2>1. CASE a = <<>>
    BY <2>1, <1>1
  <2>2. CASE a # <<>>
    <3>1. 1 \in DOMAIN a /\ a[1] \in Entry
      BY <2>2
    <3>2. a[1].seq \in Nat /\ a[1].seq <= seq /\ seq \in Nat
      BY <3>1, GrainAssumption DEF NotAhead, Entry, LogTypeOK
    <3>3. PICK s \in Nat : s = a[1].seq
      BY <3>2
    <3>4. Number(s) <= Number(seq) /\ Number(s) \in Nat /\ Number(seq) \in Nat
      BY <3>2, <3>3, NumberGrows, NumberNear
    <3>5. last = IF Number(s) > p.lastSeq THEN Number(s) ELSE p.lastSeq
      BY <2>2, <3>3
    <3> HIDE DEF last
    <3> QED BY <1>1, <3>4, <3>5
  <2> QED BY <2>1, <2>2
<1>3. seen \in Seq(Entry)
  <2>1. rows \in Seq(Entry)
    BY ShownTyped
  <2> HIDE DEF rows
  <2>2. rows \o p.view \in Seq(Entry)
    BY <1>1, <2>1, ConcatProperties
  <2> QED BY <2>1, <2>2
<1>4. Received(p, a) = [lastSeq |-> last, view |-> Cut(seen), full |-> FALSE]
  BY DEF Received
<1> HIDE DEF last, seen
<1>5. Cut(seen) \in Views
  BY <1>3, CutTyped
<1> QED BY <1>2, <1>4, <1>5 DEF Pages

(* The second halves that wait for one fetch, one after the other.         *)
AfterAll(h, x, a) ==
  h = [n \in Nat |-> IF n = 0 THEN x ELSE Received(h[n - 1], a)]

LEMMA PageIteration ==
  ASSUME NEW x \in Pages, NEW G \in [Pages -> Pages]
  PROVE  \E h \in [Nat -> Pages] :
            \A n \in Nat : h[n] = IF n = 0 THEN x ELSE G[h[n - 1]]
BY Iteration

LEMMA AfterAllTyped ==
  ASSUME LogTypeOK, NEW x \in Pages, NEW a \in Seq(Entry), NotAhead(a)
  PROVE  \A n \in Nat : (CHOOSE h : AfterAll(h, x, a))[n] \in Pages
<1> DEFINE G == [p \in Pages |-> Received(p, a)]
           after == CHOOSE h : AfterAll(h, x, a)
<1>1. G \in [Pages -> Pages]
  BY ReceivedTyped
<1>2. PICK h \in [Nat -> Pages] :
        \A n \in Nat : h[n] = IF n = 0 THEN x ELSE G[h[n - 1]]
  <2> HIDE DEF G
  <2> QED BY <1>1, PageIteration
<1>3. AfterAll(h, x, a)
  <2>1. ASSUME NEW n \in Nat, n # 0
        PROVE  G[h[n - 1]] = Received(h[n - 1], a)
    <3>1. n - 1 \in Nat
      BY <2>1
    <3>2. h[n - 1] \in Pages
      BY <3>1, <1>2
    <3> QED BY <3>2
  <2> HIDE DEF G
  <2>2. \A n \in Nat : h[n] = IF n = 0 THEN x ELSE Received(h[n - 1], a)
    BY <1>2, <2>1
  <2>3. h = [n \in Nat |-> h[n]]
    BY <1>2
  <2> QED BY <2>2, <2>3 DEF AfterAll
<1>4. AfterAll(after, x, a)
  BY <1>3
<1> HIDE DEF after
<1> DEFINE A == {n \in Nat : after[n] \in Pages}
<1>5. 0 \in A
  BY <1>4 DEF AfterAll
<1>6. ASSUME NEW n \in Nat, n \in A PROVE n + 1 \in A
  <2>1. n + 1 \in Nat /\ n + 1 # 0 /\ (n + 1) - 1 = n
    OBVIOUS
  <2>2. after[n + 1] = Received(after[n], a)
    BY <1>4, <2>1 DEF AfterAll
  <2> QED BY <1>6, <2>2, ReceivedTyped
<1>7. Nat \subseteq A
  <2> HIDE DEF A
  <2> QED BY <1>5, <1>6, SetOfAllNaturals
<1> QED BY <1>7 DEF after
-----------------------------------------------------------------------------
(* Each step keeps what the page keeps.                                    *)

LEMMA PageInitial == Init /\ LogIInv => PageInv
<1> SUFFICES ASSUME Init, LogIInv PROVE PageInv
  OBVIOUS
<1>1. seq \in Nat /\ Number(seq) \in Nat
  BY SeqNatural DEF LogIInv
<1>2. NoCursor \in NoCursor .. MaxSeq + Grain
  BY GrainAssumption, LogBoundsAssumption DEF NoCursor, MaxSeq
<1>3. FetchInv({})
  BY DEF FetchInv, OnePerPath
<1>4. FetchInv(fetches)
  BY <1>2, <1>3, StartedKeeps DEF Init
<1>5. <<>> \in Views
  BY PageAssumption DEF Views
<1>6. 0 \in 0 .. Number(seq) /\ MaxEvents \in 0 .. MaxEvents
  BY <1>1, PageAssumption
<1>7. /\ kindFilter = AnyKind /\ lastSeq = 0 /\ fullReload = TRUE
      /\ view = <<>> /\ failed = FALSE /\ events = MaxEvents
  BY DEF Init
<1> QED BY <1>4, <1>5, <1>6, <1>7 DEF PageInv, Filters

(* Numbers given out and rings that start over disturb nothing.            *)
LEMMA LaterKeeps ==
  ASSUME LogIInv, PageInv, LogIInv', seq <= seq',
         UNCHANGED <<kindFilter, lastSeq, fullReload, view, events>>,
         fetches' \subseteq fetches, failed' \in BOOLEAN
  PROVE  PageInv'
<1>1. seq \in Nat /\ seq' \in Nat /\ LogTypeOK
  BY GrainAssumption DEF LogIInv, LogTypeOK
<1>2. lastSeq' \in 0 .. Number(seq')
  <2>1. Number(seq) <= Number(seq')
        /\ Number(seq) \in Nat /\ Number(seq') \in Nat
    BY <1>1, NumberGrows, NumberNear
  <2>2. lastSeq \in 0 .. Number(seq) /\ lastSeq' = lastSeq
    BY DEF PageInv
  <2> QED BY <2>1, <2>2
<1>3. FetchInv(fetches)'
  <2>1. /\ fetches' \subseteq Fetch
        /\ OnePerPath(fetches)
        /\ \A f \in fetches : f.answer # NoAnswer => NotAhead(f.answer)
    BY DEF PageInv, FetchInv
  <2>2. OnePerPath(fetches')
    BY <2>1 DEF OnePerPath
  <2>3. ASSUME NEW f \in fetches', f.answer # NoAnswer
        PROVE  \A i \in DOMAIN f.answer : f.answer[i].seq <= seq'
    <3>1. f \in Fetch /\ f.answer \in Seq(Entry)
      BY <2>1, <2>3 DEF Fetch, Answers
    <3>2. \A i \in DOMAIN f.answer : f.answer[i].seq <= seq
      BY <2>1, <2>3 DEF NotAhead
    <3>3. \A i \in DOMAIN f.answer : f.answer[i].seq \in Nat
      <4>1. \A i \in DOMAIN f.answer : f.answer[i] \in Entry
        BY <3>1
      <4>2. \A e \in Entry : e.seq \in Nat
        BY GrainAssumption DEF Entry
      <4> QED BY <4>1, <4>2
    <3> QED BY <1>1, <3>2, <3>3
  <2> QED BY <2>1, <2>2, <2>3
          DEF FetchInv, OnePerPath, NotAhead, Fetch, Answers, MaxSeq, Entry
<1> QED BY <1>2, <1>3 DEF PageInv, Views, Filters

(* Loads that are started, when the numbers given out stay.                *)
LEMMA LoadsKeep ==
  ASSUME LogIInv, PageInv, UNCHANGED logVars,
         NEW fs, FetchInv(fs), NEW n \in Nat,
         NEW since \in NoCursor .. MaxSeq + Grain,
         fetches' = Started(fs, since, n)
  PROVE  FetchInv(fetches)'
<1>1. FetchInv(fetches')
  BY StartedKeeps
<1> QED BY <1>1 DEF FetchInv, NotAhead, OnePerPath, Fetch, Answers, logVars

LEMMA MountKeeps == LogIInv /\ PageInv /\ Mount => PageInv'
<1> SUFFICES ASSUME LogIInv, PageInv, Mount PROVE PageInv'
  OBVIOUS
<1> DEFINE old == {[f EXCEPT !.waiting = 0] : f \in fetches}
<1>1. UNCHANGED logVars /\ seq \in Nat /\ Number(seq) \in Nat /\ seq' = seq
  BY SeqNatural DEF Mount, LogIInv, logVars
<1>2. NoCursor \in NoCursor .. MaxSeq + Grain
  BY GrainAssumption, LogBoundsAssumption DEF NoCursor, MaxSeq
<1>3. FetchInv(old)
  <2>1. FetchInv(fetches)
    BY DEF PageInv
  <2>2. ASSUME NEW f \in fetches
        PROVE  /\ [f EXCEPT !.waiting = 0] \in Fetch
               /\ [f EXCEPT !.waiting = 0].since = f.since
               /\ [f EXCEPT !.waiting = 0].answer = f.answer
    BY <2>1 DEF FetchInv, Fetch
  <2>3. old \subseteq Fetch
        /\ \A f \in old : f.answer # NoAnswer => NotAhead(f.answer)
    BY <2>1, <2>2 DEF FetchInv
  <2>4. OnePerPath(old)
    <3> SUFFICES ASSUME NEW f \in fetches, NEW g \in fetches,
                        [f EXCEPT !.waiting = 0].since
                        = [g EXCEPT !.waiting = 0].since
                 PROVE  [f EXCEPT !.waiting = 0] = [g EXCEPT !.waiting = 0]
      BY DEF OnePerPath
    <3>1. f.since = g.since
      BY <2>2
    <3>2. f = g
      BY <2>1, <3>1 DEF FetchInv, OnePerPath
    <3> QED BY <3>2
  <2> HIDE DEF old
  <2> QED BY <2>3, <2>4 DEF FetchInv
<1>4. fetches' = Started(old, NoCursor, 2)
  BY DEF Mount
<1> HIDE DEF old
<1>5. FetchInv(fetches)'
  BY <1>1, <1>2, <1>3, <1>4, LoadsKeep
<1>6. <<>> \in Views
  BY PageAssumption DEF Views
<1>7. /\ kindFilter' \in Filters /\ lastSeq' = 0 /\ fullReload' = TRUE
      /\ view' = <<>> /\ failed' = FALSE /\ events' \in 0 .. MaxEvents
  BY PageAssumption DEF Mount, UserActs, PageInv, Filters
<1>8. 0 \in 0 .. Number(seq')
  BY <1>1
<1> QED BY <1>5, <1>6, <1>7, <1>8 DEF PageInv, Filters, Views

LEMMA FilterKeeps ==
  ASSUME LogIInv, PageInv, NEW k \in Filters, ChangeFilter(k)
  PROVE  PageInv'
<1>1. UNCHANGED logVars /\ seq \in Nat /\ Number(seq) \in Nat /\ seq' = seq
  BY SeqNatural DEF ChangeFilter, LogIInv, logVars
<1>2. NoCursor \in NoCursor .. MaxSeq + Grain
  BY GrainAssumption, LogBoundsAssumption DEF NoCursor, MaxSeq
<1>3. FetchInv(fetches)'
  BY <1>1, <1>2, LoadsKeep DEF ChangeFilter, PageInv
<1>4. <<>> \in Views
  BY PageAssumption DEF Views
<1>5. /\ kindFilter' \in Filters /\ lastSeq' = 0 /\ fullReload' = TRUE
      /\ view' = <<>> /\ failed' \in BOOLEAN /\ events' \in 0 .. MaxEvents
  BY PageAssumption DEF ChangeFilter, UserActs, PageInv
<1>6. 0 \in 0 .. Number(seq')
  BY <1>1
<1> QED BY <1>3, <1>4, <1>5, <1>6 DEF PageInv, Filters, Views

LEMMA RetryKeeps == LogIInv /\ PageInv /\ Retry => PageInv'
<1> SUFFICES ASSUME LogIInv, PageInv, Retry PROVE PageInv'
  OBVIOUS
<1>1. UNCHANGED logVars /\ seq' = seq
  BY DEF Retry, logVars
<1>2. NoCursor \in NoCursor .. MaxSeq + Grain
  BY GrainAssumption, LogBoundsAssumption DEF NoCursor, MaxSeq
<1>3. FetchInv(fetches)'
  BY <1>1, <1>2, LoadsKeep DEF Retry, PageInv
<1>4. /\ kindFilter' \in Filters /\ fullReload' = TRUE /\ view' \in Views
      /\ failed' \in BOOLEAN /\ events' \in 0 .. MaxEvents
  BY PageAssumption DEF Retry, UserActs, PageInv
<1>5. lastSeq' \in 0 .. Number(seq')
  BY <1>1 DEF Retry, PageInv
<1> QED BY <1>3, <1>4, <1>5 DEF PageInv, Filters, Views

LEMMA PollKeeps == LogIInv /\ PageInv /\ Poll => PageInv'
<1> SUFFICES ASSUME LogIInv, PageInv, Poll PROVE PageInv'
  OBVIOUS
<1>1. UNCHANGED logVars /\ seq' = seq
  BY DEF Poll, logVars
<1>2. Cursor \in NoCursor .. MaxSeq + Grain
  BY CursorTyped DEF LogIInv, PageInv
<1>3. FetchInv(fetches)'
  BY <1>1, <1>2, LoadsKeep DEF Poll, PageInv
<1>4. lastSeq' \in 0 .. Number(seq')
  BY <1>1 DEF Poll, PageInv
<1> QED BY <1>3, <1>4 DEF Poll, PageInv, Filters, Views

LEMMA ServeKeeps ==
  ASSUME LogIInv, PageInv, NEW f \in fetches, Serve(f)
  PROVE  PageInv'
<1> DEFINE a == Snapshot(PageLimit, f.since)
           new == [f EXCEPT !.answer = a]
<1>1. UNCHANGED logVars /\ seq' = seq
  BY DEF Serve, logVars
<1>2. f \in Fetch /\ FetchInv(fetches)
  BY DEF PageInv, FetchInv
<1>3. f.since \in Int
  BY <1>2, GrainAssumption, LogBoundsAssumption DEF Fetch, NoCursor, MaxSeq
<1>4. a \in Seq(Entry) /\ NotAhead(a)
  BY <1>3, SnapshotTyped
<1>5. fetches' = (fetches \ {f}) \cup {new}
  BY DEF Serve
<1> HIDE DEF a
<1>6. new \in Fetch /\ new.since = f.since /\ new.answer = a
  BY <1>2, <1>4 DEF Fetch, Answers
<1> HIDE DEF new
<1>7. FetchInv(fetches')
  <2>1. OnePerPath((fetches \ {f}) \cup {new})
    BY <1>2, <1>6 DEF FetchInv, OnePerPath
  <2>2. \A g \in (fetches \ {f}) \cup {new} :
          g \in Fetch /\ (g.answer # NoAnswer => NotAhead(g.answer))
    BY <1>2, <1>4, <1>6 DEF FetchInv
  <2> QED BY <1>5, <2>1, <2>2 DEF FetchInv
<1>8. FetchInv(fetches)'
  BY <1>1, <1>7 DEF FetchInv, NotAhead, OnePerPath, Fetch, Answers
<1>9. lastSeq' \in 0 .. Number(seq')
  BY <1>1 DEF Serve, PageInv
<1> QED BY <1>8, <1>9 DEF Serve, PageInv, Filters, Views

LEMMA DeliverKeeps ==
  ASSUME LogIInv, PageInv, NEW f \in fetches, Deliver(f)
  PROVE  PageInv'
<1> DEFINE x == [lastSeq |-> lastSeq, view |-> view, full |-> fullReload]
           after == CHOOSE h : AfterAll(h, x, f.answer)
           p == after[f.waiting]
<1>1. f \in Fetch /\ FetchInv(fetches)
  BY DEF PageInv, FetchInv
<1>2. f.answer \in Seq(Entry) /\ NotAhead(f.answer) /\ f.waiting \in Nat
  BY <1>1 DEF Deliver, FetchInv, Fetch, Answers
<1>3. x \in Pages
  BY DEF PageInv, Pages
<1>4. /\ lastSeq' = p.lastSeq /\ view' = p.view /\ fullReload' = p.full
      /\ fetches' = fetches \ {f}
      /\ failed' = (failed /\ f.waiting = 0)
      /\ UNCHANGED <<logVars, kindFilter, events>>
  BY DEF Deliver, AfterAll
<1>5. p \in Pages
  <2> HIDE DEF x
  <2> QED BY <1>2, <1>3, AfterAllTyped DEF LogIInv
<1> HIDE DEF p
<1>6. seq' = seq
  BY <1>4 DEF logVars
<1>7. /\ lastSeq' \in 0 .. Number(seq') /\ view' \in Views
      /\ fullReload' \in BOOLEAN
  BY <1>4, <1>5, <1>6 DEF Pages
<1>8. FetchInv(fetches)'
  BY <1>1, <1>4, <1>6 DEF FetchInv, NotAhead, OnePerPath, Fetch, Answers
<1>9. failed' \in BOOLEAN
  BY <1>4
<1> QED BY <1>4, <1>7, <1>8, <1>9 DEF PageInv, Filters, Views

LEMMA FailureKeeps ==
  ASSUME LogIInv, PageInv, NEW f \in fetches, FetchFails(f)
  PROVE  PageInv'
<1>1. UNCHANGED logVars /\ seq' = seq
  BY DEF FetchFails, logVars
<1>2. FetchInv(fetches)
  BY DEF PageInv
<1>3. fetches' \subseteq fetches
  BY DEF FetchFails
<1>4. FetchInv(fetches)'
  BY <1>1, <1>2, <1>3
     DEF FetchInv, NotAhead, OnePerPath, Fetch, Answers
<1>5. lastSeq' \in 0 .. Number(seq')
  BY <1>1 DEF FetchFails, PageInv
<1>6. events' \in 0 .. MaxEvents /\ failed' \in BOOLEAN
  BY PageAssumption DEF FetchFails, UserActs, PageInv
<1> QED BY <1>4, <1>5, <1>6 DEF FetchFails, PageInv, Filters, Views

LEMMA PageNext == LogIInv /\ PageInv /\ [Next]_vars /\ LogIInv' => PageInv'
<1> SUFFICES ASSUME LogIInv, PageInv, [Next]_vars, LogIInv' PROVE PageInv'
  OBVIOUS
<1>t. seq \in Nat
  BY GrainAssumption DEF LogIInv, LogTypeOK
<1>1. ASSUME NEW k \in Kinds, Push(k), UNCHANGED pageVars PROVE PageInv'
  <2>1. seq <= seq'
    BY <1>t, <1>1 DEF Push
  <2>2. /\ UNCHANGED <<kindFilter, lastSeq, fullReload, view, events>>
        /\ fetches' \subseteq fetches /\ failed' \in BOOLEAN
    BY <1>1 DEF pageVars, PageInv
  <2> QED BY <2>1, <2>2, LaterKeeps
<1>2. ASSUME ServerRestarts PROVE PageInv'
  <2>1. seq <= seq'
    BY <1>t, <1>2 DEF ServerRestarts, Restart, FirstSeq
  <2>2. /\ UNCHANGED <<kindFilter, lastSeq, fullReload, view, events>>
        /\ fetches' \subseteq fetches
    BY <1>2 DEF ServerRestarts
  <2>3. failed' \in BOOLEAN
    <3>1. failed' = (failed \/ \E f \in fetches \ fetches' : f.waiting > 0)
      BY <1>2 DEF ServerRestarts
    <3> QED BY <3>1
  <2> QED BY <2>1, <2>2, <2>3, LaterKeeps
<1>3. ASSUME UNCHANGED vars PROVE PageInv'
  <2>1. seq <= seq'
    BY <1>t, <1>3 DEF vars, logVars
  <2>2. /\ UNCHANGED <<kindFilter, lastSeq, fullReload, view, events>>
        /\ fetches' \subseteq fetches /\ failed' \in BOOLEAN
    BY <1>3 DEF vars, pageVars, PageInv
  <2> QED BY <2>1, <2>2, LaterKeeps
<1>4. User => PageInv'
  BY MountKeeps, FilterKeeps, RetryKeeps DEF User
<1>5. Poll => PageInv'
  BY PollKeeps
<1>6. ASSUME NEW f \in fetches, Serve(f) \/ Deliver(f) \/ FetchFails(f)
      PROVE  PageInv'
  BY <1>6, ServeKeeps, DeliverKeeps, FailureKeeps
<1> QED BY <1>1, <1>2, <1>3, <1>4, <1>5, <1>6 DEF Next

(* The page's own state keeps its types whatever the order of answers,     *)
(* filters, failures and restarts: one fetch per path, a merged view that  *)
(* never outgrows the page's limit, however many loads share a fetch, and  *)
(* a cursor that, rounded to a double as it is, never gets ahead of the    *)
(* double nearest to what the server gave out (logs.js:94-123,             *)
(* api.js:18-32).                                                          *)
THEOREM PageTypeCorrect == Spec => []TypeOK
<1>1. Init => LogIInv /\ PageInv
  BY LogInitial, PageInitial DEF Init
<1>2. LogIInv /\ PageInv /\ [Next]_vars => (LogIInv /\ PageInv)'
  BY LogNext, PageNext
<1>3. LogIInv /\ PageInv => TypeOK
  <2> SUFFICES ASSUME LogIInv, PageInv PROVE TypeOK
    OBVIOUS
  <2>1. FetchesOK
    BY DEF PageInv, FetchInv, Fetch, Answers, OnePerPath, FetchesOK
  <2> QED BY <2>1 DEF TypeOK, LogIInv, PageInv, Views
<1> QED BY <1>1, <1>2, <1>3, PTL DEF Spec
====
