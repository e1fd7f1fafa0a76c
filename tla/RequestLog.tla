----------------------------- MODULE RequestLog -----------------------------
(***************************************************************************)
(* The ring of finished requests behind /api/logs                          *)
(* (internal/proxy/reqlog.go): a fixed array, the next position to write,  *)
(* and sequence numbers that a page keeps as its cursor across restarts.   *)
(*                                                                         *)
(* An entry is its sequence number and its kind; the other fields are      *)
(* copied and shown, nothing depends on them.                              *)
(***************************************************************************)
EXTENDS Integers, Sequences

CONSTANTS
  Capacity,     (* requestLogCapacity (256 in the code).                   *)
  Kinds,        (* LogKind values.                                         *)
  NoEntry,      (* An array element that was never written.                *)
  Grain,        (* Distance of neighbouring doubles where the sequence     *)
                (* numbers are (256 in the code: nanoseconds since 1970).  *)
  MaxPushes,    (* Bound: requests that finish.                            *)
  MaxRestarts   (* Bound: restarts of the process.                         *)

ASSUME CapacityAssumption == Capacity \in Nat \ {0}
ASSUME GrainAssumption == Grain \in Nat \ {0}
ASSUME LogBoundsAssumption == MaxPushes \in Nat /\ MaxRestarts \in Nat

VARIABLES
  ring,         (* The array, indexed from 0.                              *)
  head,         (* Where the next entry goes.                              *)
  count,        (* How many entries the array holds.                       *)
  seq,          (* The last sequence number given out.                     *)
  log,          (* History: what this process pushed, oldest first.        *)
  pushes,       (* Pushes so far, in all processes.                        *)
  restarts      (* Restarts so far.                                        *)

logVars == <<ring, head, count, seq, log, pushes, restarts>>

MaxSeq == 2 * Grain + MaxPushes + MaxRestarts
Entry == [seq : Grain .. MaxSeq, kind : Kinds]
ASSUME EntryAssumption == NoEntry \notin Entry

LogTypeOK ==
  /\ ring \in [0 .. Capacity - 1 -> Entry \cup {NoEntry}]
  /\ head \in 0 .. Capacity - 1
  /\ count \in 0 .. Capacity
  /\ seq \in Grain .. MaxSeq
  /\ log \in Seq(Entry)
  /\ pushes \in 0 .. MaxPushes
  /\ restarts \in 0 .. MaxRestarts

Empty == [i \in 0 .. Capacity - 1 |-> NoEntry]

(* The clock is far from 0, and anywhere between two doubles.              *)
LogInit ==
  /\ ring = Empty /\ head = 0 /\ count = 0
  /\ seq \in Grain .. 2 * Grain - 1
  /\ log = <<>> /\ pushes = 0 /\ restarts = 0

(* A request has ended: one critical section of l.mu.                      *)
Push(k) ==
  LET e == [seq |-> seq + 1, kind |-> k]
  IN  /\ pushes < MaxPushes
      /\ seq' = seq + 1
      /\ ring' = [ring EXCEPT ![head] = e]
      /\ head' = (head + 1) % Capacity
      /\ count' = IF count < Capacity THEN count + 1 ELSE count
      /\ log' = Append(log, e)
      /\ pushes' = pushes + 1
      /\ UNCHANGED restarts

(* Mutant of FirstSeq: sequence numbers start over in every process.       *)
FirstSeqOfProcess == {Grain}

(* NewRequestLog counts from the time of day in nanoseconds.  A process    *)
(* finishes fewer requests than nanoseconds go by, so that a later one     *)
(* starts at or above every number given out before.                       *)
FirstSeq == {seq, seq + 1}

Restart ==
  /\ restarts < MaxRestarts
  /\ ring' = Empty /\ head' = 0 /\ count' = 0
  /\ seq' \in FirstSeq
  /\ log' = <<>>
  /\ restarts' = restarts + 1
  /\ UNCHANGED pushes

(* The i-th newest entry, from 0: what Snapshot's loop looks at.           *)
Newest(i) == ring[(head - 1 - i + 2 * Capacity) % Capacity]

(* Mutant of Beyond: the entry at the cursor is sent again.                *)
NotBefore(e, since) == e.seq >= since

Beyond(e, since) == e.seq > since

(* Snapshot: newest first, up to the first entry the reader knows.         *)
Snapshot(limit, since) ==
  LET cap == IF limit <= 0 \/ limit > Capacity THEN Capacity ELSE limit
      new == {i \in 0 .. count - 1 :
                i < cap /\ \A j \in 0 .. i : Beyond(Newest(j), since)}
  IN  [n \in {i + 1 : i \in new} |-> Newest(n - 1)]

-----------------------------------------------------------------------------
(* What the log of this process, cut to the capacity, has above a cursor,  *)
(* newest first, at most as many entries as asked for.                     *)
Recent(limit, since) ==
  LET low == Len(log) - Capacity
      above == {i \in 1 .. Len(log) : i > low /\ log[i].seq > since}
      first == IF above = {} THEN Len(log) + 1
               ELSE CHOOSE i \in above : \A j \in above : i <= j
      have == Len(log) + 1 - first
      size == IF have < limit THEN have ELSE limit
  IN  [n \in 1 .. size |-> log[Len(log) + 1 - n]]

(* The array with its wrapping index and its early stop gives exactly what *)
(* the whole log of this process says.                                     *)
SnapshotExact ==
  \A limit \in 1 .. Capacity + 1, since \in 0 .. MaxSeq :
    Snapshot(limit, since) = Recent(limit, since)
=============================================================================
