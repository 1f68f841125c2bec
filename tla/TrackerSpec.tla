----------------------------- MODULE TrackerSpec -----------------------------
(***************************************************************************)
(* What decoding a tracker promises (spec.md 3, 4.5, 4.6 and 7), stated   *)
(* declaratively from the specification and performed as one atomic      *)
(* step: a call is made, and later it returns DecodeTracker(event).       *)
(*                                                                         *)
(*  - the errors come in a fixed order: WrongKind, MissingIdentifier,     *)
(*    MissingTrackedItem, MissingWorkflow, CannotGetWorkflowSpecificData; *)
(*  - the tracked item is the coordinate of the first tag, in tag order,  *)
(*    that parses as a reference labelled tracked_item, and likewise for  *)
(*    the workflow; a malformed reference does not fail the call.         *)
(***************************************************************************)
EXTENDS NostrTags, SequencesExt

CONSTANT WorkflowSpecificData(_)

VARIABLES event, called, result

vars == <<event, called, result>>

NoEvent == [kind |-> "none", content |-> "", tags |-> << >>]

\* The label of a reference tag: its third value, if any.
LabelOf(t) ==
  IF Len(t) < 3 THEN "None"
  ELSE CASE t[3] = "tracked_item" -> "TrackedItem"
         [] t[3] = "workflow"     -> "Workflow"
         [] OTHER                 -> "Custom"

IsReference(t, label) ==
  Len(t) >= 2 /\ IsSome(CoordinateParse[t[2]]) /\ LabelOf(t) = label

FirstReference(tags, label) == SelectInSeq(tags, LAMBDA t : IsReference(t, label))

DecodeTracker(ev) ==
  LET d == SelectInSeq(ev.tags, LAMBDA t : KindOf(t) = "d")
      ti == FirstReference(ev.tags, "TrackedItem")
      wf == FirstReference(ev.tags, "Workflow")
      data == WorkflowSpecificData(ev)
  IN CASE ev.kind # "Tracker" -> Err([kind |-> "WrongKind", actual |-> ev.kind])
       [] d = 0 \/ Len(ev.tags[d]) < 2 -> Err([kind |-> "MissingIdentifier"])
       [] ti = 0 -> Err([kind |-> "MissingTrackedItem"])
       [] wf = 0 -> Err([kind |-> "MissingWorkflow"])
       [] data.status = "err" -> Err([kind |-> "CannotGetWorkflowSpecificData"])
       [] OTHER -> Ok([id |-> ev.tags[d][2],
                       tracked_item |-> Unwrap(CoordinateParse[ev.tags[ti][2]]),
                       workflow |-> Unwrap(CoordinateParse[ev.tags[wf][2]]),
                       workflow_specific_data |-> data.value])

-----------------------------------------------------------------------------
Init == event = NoEvent /\ called = FALSE /\ result = Pending

\* The event is whatever the caller passes: this module is used as a
\* property of Tracker, whose Call chooses it.
Call == ~called /\ called' = TRUE /\ UNCHANGED result

Return ==
  /\ called /\ result = Pending /\ result' # Pending
  /\ result' = DecodeTracker(event)
  /\ UNCHANGED <<event, called>>

Spec == Init /\ [][Call \/ Return]_vars

=============================================================================
