--------------------------- MODULE TaskDecodeSpec ---------------------------
(***************************************************************************)
(* What the task decoders promise, as one atomic step: a call is made,   *)
(* and later the call returns DecodeTask(event) or DecodeMetadata(tags)  *)
(* of TaskCodecSpec.                                                       *)
(***************************************************************************)
EXTENDS TaskCodecSpec

VARIABLES event, mode, called, result

vars == <<event, mode, called, result>>

NoEvent == [kind |-> "none", content |-> "", tags |-> << >>]

-----------------------------------------------------------------------------
Init ==
  /\ event = NoEvent
  /\ mode = "task"
  /\ called = FALSE
  /\ result = Pending

\* The arguments of the call are whatever the caller passes: this module is
\* used as a property of TaskDecoder, whose Call chooses them.
Call ==
  /\ ~called
  /\ called' = TRUE /\ mode' \in {"task", "metadata"}
  /\ UNCHANGED result

Return ==
  /\ called /\ result = Pending /\ result' # Pending
  /\ result' = Decode(mode, event)
  /\ UNCHANGED <<event, mode, called>>

Next == Call \/ Return

Spec == Init /\ [][Next]_vars

=============================================================================
