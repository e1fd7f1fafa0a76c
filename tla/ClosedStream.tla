---------------------------- MODULE ClosedStream ----------------------------
(***************************************************************************)
(* What a client of the proxy is promised of one event stream, whatever    *)
(* the upstream sends and wherever it breaks off: the stream is ended      *)
(* exactly once, by then every block that was opened is closed, and a      *)
(* failure the client was told of is never dressed up as a normal end.     *)
(* For OpenAI streams there are no blocks and the end is [DONE].           *)
(***************************************************************************)
EXTENDS Naturals

CONSTANT Blocks          \* indices of content blocks

VARIABLES
  open,                  \* blocks the client has seen start and not stop
  ends,                  \* how often the client was told that the stream ends
  failed,                \* it was told of an error
  reason,                \* why generation stopped, as last told
  state                  \* "streaming", "closed", or "gone": nothing is owed

vars == <<open, ends, failed, reason, state>>

Reasons == {"none", "upstream", "stop_sequence", "end_turn"}

Init ==
  /\ open = {} /\ ends = 0 /\ failed = FALSE
  /\ reason = "none" /\ state = "streaming"

Running == state = "streaming" /\ ends = 0

OpenBlock(b) ==
  /\ Running
  /\ open' = open \cup {b}
  /\ UNCHANGED <<ends, failed, reason, state>>

CloseBlock(b) ==
  /\ Running
  /\ open' = open \ {b}
  /\ UNCHANGED <<ends, failed, reason, state>>

Fail ==
  /\ Running
  /\ failed' = TRUE
  /\ UNCHANGED <<open, ends, reason, state>>

TellReason ==
  /\ Running
  /\ reason' = "upstream"
  /\ UNCHANGED <<open, ends, failed, state>>

\* The end as the upstream sends it.
EndMessage ==
  /\ Running /\ open = {}
  /\ ends' = 1
  /\ UNCHANGED <<open, failed, reason, state>>

\* The end the proxy makes when a stop word is met in block b.  OpenAI has
\* one word, "stop", for this and for the upstream's own end.
StopAtWord(b) ==
  /\ Running /\ ~failed
  /\ open \subseteq {b}
  /\ open' = {}
  /\ reason' \in {"stop_sequence", "upstream"}
  /\ ends' = 1
  /\ UNCHANGED <<failed, state>>

\* The upstream is finished with: what the client still lacks is made up.
\* Its last line may still have told of an error, or why generation stopped.
Close ==
  /\ state = "streaming"
  /\ state' = "closed"
  /\ open' = {} /\ ends' = 1
  /\ failed' \in {failed, TRUE} /\ reason' \in Reasons
  /\ ends = 1 => UNCHANGED <<failed, reason>>
  /\ failed' => reason' = reason

\* The client has left, or the upstream broke off inside a line.
Abandon ==
  /\ state = "streaming"
  /\ state' = "gone"
  /\ open' \in SUBSET Blocks
  /\ ends' \in {ends, 1}
  /\ failed' \in {failed, TRUE}
  /\ reason' \in Reasons
  /\ failed => reason' = reason

Next ==
  \/ \E b \in Blocks : OpenBlock(b) \/ CloseBlock(b) \/ StopAtWord(b)
  \/ Fail \/ TellReason \/ EndMessage \/ Close \/ Abandon

Spec == Init /\ [][Next]_vars
=============================================================================
