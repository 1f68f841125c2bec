------------------------------ MODULE Tracker -------------------------------
(***************************************************************************)
(* TryFrom<&Event> for Tracker<WorkflowSpecificData> (nipxxe.rs) as a     *)
(* state machine: the kind check, the identifier, the scan for the first  *)
(* tag labelled tracked_item, a second scan for the first tag labelled    *)
(* workflow (one step per iteration of each `for tag in event.tags`), and *)
(* the conversion of the whole event into the workflow-specific data.     *)
(*                                                                         *)
(* The tracker is generic: WorkflowSpecificData(ev) is the payload's       *)
(* TryFrom<Event>, returning Ok(data) or Err(e).                           *)
(*                                                                         *)
(*   pc = "idle" -> "kind" -> "identifier" -> "tracked_item" ->           *)
(*        "workflow" -> "payload" -> "done"                                *)
(***************************************************************************)
EXTENDS NostrTags, SequencesExt

CONSTANT WorkflowSpecificData(_)

VARIABLES
  event,   \* the &Event
  pc,      \* control state; in a scan, the label being looked for
  j,       \* index of the current scan into event.tags
  id,      \* mutable_identifier
  found,   \* the coordinates found: [tracked_item, workflow] of Option
  result   \* Pending, or the Result returned

vars == <<event, pc, j, id, found, result>>

NoEvent == [kind |-> "none", content |-> "", tags |-> << >>]

(***************************************************************************)
(* CoordinateLabel and its FromStr: never an error, anything that is not *)
(* a known label is Custom.                                               *)
(***************************************************************************)
LabelNone == [variant |-> "None", custom |-> ""]
LabelCustom(s) == [variant |-> "Custom", custom |-> s]

LabelFromStr(s) ==
  CASE s = "tracked_item" -> [variant |-> "TrackedItem", custom |-> ""]
    [] s = "workflow"     -> [variant |-> "Workflow", custom |-> ""]
    [] OTHER              -> LabelCustom(s)

\* CoordinateLabel::to_string: None is the empty string.
LabelToString(l) ==
  CASE l.variant = "TrackedItem" -> "tracked_item"
    [] l.variant = "Workflow"    -> "workflow"
    [] l.variant = "None"        -> ""
    [] l.variant = "Custom"      -> l.custom

(***************************************************************************)
(* parse_a_tag: at least two values, the second a Coordinate, the label   *)
(* from the third.  The tag's kind is not looked at.                       *)
(***************************************************************************)
ParseATag(t) ==
  IF Len(t) >= 2 /\ IsSome(CoordinateParse[t[2]])
  THEN Ok([coordinate |-> Unwrap(CoordinateParse[t[2]]),
           label |-> IF Get(t, 2) = NoValue THEN LabelNone
                     ELSE LabelFromStr(Unwrap(Get(t, 2)))])
  ELSE Err([kind |-> "InvalidATag"])

\* The variants of enum TrackerError.
TrackerErrorKinds ==
  {"WrongKind", "MissingTag", "MissingIdentifier", "InvalidATag", "MissingTrackedItem",
   "MissingWorkflow", "InvalidUrl", "InvalidTimestamp", "CannotGetWorkflowSpecificData",
   "DuplicateTag", "InvalidTagFormat"}

\* The CoordinateLabel variant each scan looks for.
ScanLabel == [tracked_item |-> "TrackedItem", workflow |-> "Workflow"]
ScanError == [tracked_item |-> "MissingTrackedItem", workflow |-> "MissingWorkflow"]

Return(r) == result' = r /\ pc' = "done"

-----------------------------------------------------------------------------
Call(ev) ==
  /\ pc = "idle"
  /\ event' = ev /\ pc' = "kind"
  /\ UNCHANGED <<j, id, found, result>>

\* let Kind::Tracker = event.kind else { return Err(WrongKind(kind)) }
VerifyKind ==
  /\ pc = "kind"
  /\ \/ event.kind # "Tracker" /\ Return(Err([kind |-> "WrongKind", actual |-> event.kind]))
     \/ event.kind = "Tracker" /\ pc' = "identifier" /\ UNCHANGED result
  /\ UNCHANGED <<event, j, id, found>>

\* find_standardized(TagKind::d()): the first "d" tag, which must be a
\* standard Identifier, i.e. carry a value; else MissingIdentifier.
\* Mutant: the scan starts at index 0 (a zero-based index).
GetIdentifierZeroBased ==
  LET k == SelectInSeq(event.tags, LAMBDA t : KindOf(t) = "d")
      d == IF k = 0 THEN NoValue ELSE Content(event.tags[k])
  IN /\ pc = "identifier"
     /\ \/ d = NoValue /\ Return(Err([kind |-> "MissingIdentifier"])) /\ UNCHANGED <<id, j>>
        \/ IsSome(d) /\ id' = Unwrap(d) /\ pc' = "tracked_item" /\ j' = 0
           /\ UNCHANGED result
     /\ UNCHANGED <<event, found>>

GetIdentifier ==
  LET k == SelectInSeq(event.tags, LAMBDA t : KindOf(t) = "d")
      d == IF k = 0 THEN NoValue ELSE Content(event.tags[k])
  IN /\ pc = "identifier"
     /\ \/ d = NoValue /\ Return(Err([kind |-> "MissingIdentifier"])) /\ UNCHANGED <<id, j>>
        \/ IsSome(d) /\ id' = Unwrap(d) /\ pc' = "tracked_item" /\ j' = 1
           /\ UNCHANGED result
     /\ UNCHANGED <<event, found>>

(***************************************************************************)
(* One iteration of either scan: parse_a_tag on tag j; a tag that parses  *)
(* with the label looked for is taken and the loop breaks; any other tag, *)
(* a malformed one included, is passed over.  After the last tag the scan *)
(* fails with MissingTrackedItem or MissingWorkflow.                       *)
(***************************************************************************)
\* Mutant: the workflow scan resumes after the tracked item instead of
\* walking the tags again from the start.
ScanResume ==
  LET r == ParseATag(event.tags[j])
  IN /\ pc \in {"tracked_item", "workflow"} /\ j <= Len(event.tags)
     /\ IF r.status = "ok" /\ r.value.label.variant = ScanLabel[pc]
        THEN /\ found' = [found EXCEPT ![pc] = Some(r.value.coordinate)]
             /\ pc' = IF pc = "tracked_item" THEN "workflow" ELSE "payload"
             /\ j' = j + 1
        ELSE j' = j + 1 /\ UNCHANGED <<found, pc>>
     /\ UNCHANGED <<event, id, result>>

Scan ==
  LET r == ParseATag(event.tags[j])
  IN /\ pc \in {"tracked_item", "workflow"} /\ j <= Len(event.tags)
     /\ IF r.status = "ok" /\ r.value.label.variant = ScanLabel[pc]
        THEN /\ found' = [found EXCEPT ![pc] = Some(r.value.coordinate)]
             /\ pc' = IF pc = "tracked_item" THEN "workflow" ELSE "payload"
             /\ j' = 1
        ELSE j' = j + 1 /\ UNCHANGED <<found, pc>>
     /\ UNCHANGED <<event, id, result>>

ScanExhausted ==
  /\ pc \in {"tracked_item", "workflow"} /\ j > Len(event.tags)
  /\ Return(Err([kind |-> ScanError[pc]]))
  /\ UNCHANGED <<event, j, id, found>>

\* WorkflowSpecificData::try_from(value.clone()), its error replaced by
\* CannotGetWorkflowSpecificData, then Ok(Tracker { .. }).
ConvertPayload ==
  LET r == WorkflowSpecificData(event)
  IN /\ pc = "payload"
     /\ Return(IF r.status = "err"
               THEN Err([kind |-> "CannotGetWorkflowSpecificData"])
               ELSE Ok([id |-> id,
                        tracked_item |-> Unwrap(found.tracked_item),
                        workflow |-> Unwrap(found.workflow),
                        workflow_specific_data |-> r.value]))
     /\ UNCHANGED <<event, j, id, found>>

-----------------------------------------------------------------------------
Init ==
  /\ event = NoEvent
  /\ pc = "idle"
  /\ j = 1
  /\ id = ""
  /\ found = [tracked_item |-> NoValue, workflow |-> NoValue]
  /\ result = Pending

Step == VerifyKind \/ GetIdentifier \/ Scan \/ ScanExhausted \/ ConvertPayload

-----------------------------------------------------------------------------
TypeOK ==
  /\ pc \in {"idle", "kind", "identifier", "tracked_item", "workflow", "payload", "done"}
  /\ j \in 1..Len(event.tags) + 1
  /\ found \in [{"tracked_item", "workflow"} -> Option(Coordinates)]
  /\ result.status \in {"pending", "ok", "err"}
  /\ result.status = "err" => result.error.kind \in TrackerErrorKinds

(***************************************************************************)
(* Refinement: the two scans with their breaks, the identifier check and  *)
(* the payload conversion return exactly DecodeTracker of TrackerSpec:    *)
(* the first reference of each label wins, malformed references are       *)
(* passed over, and the errors come in the order the specification gives. *)
(***************************************************************************)
Abstract == INSTANCE TrackerSpec WITH
  called <- pc # "idle",
  result <- IF pc = "done" THEN result ELSE Pending

TrackerRefinement == Abstract!Spec

(***************************************************************************)
(* A tracker's references come from reference tags: when the decode       *)
(* succeeds, some "a" tag labelled tracked_item names the tracked item    *)
(* and some "a" tag labelled workflow names the workflow (parse_a_tag,    *)
(* InvalidATag: "An invalid `a` tag"; spec.md 3, 4.5).                    *)
(***************************************************************************)
NamedByATag(c, label) ==
  \E k \in 1..Len(event.tags) :
    LET t == event.tags[k] IN
    /\ KindOf(t) = "a" /\ Len(t) >= 3 /\ t[3] = label
    /\ CoordinateParse[t[2]] = Some(c)

ReferencesAreATags ==
  pc = "done" /\ result.status = "ok" =>
    /\ NamedByATag(result.value.tracked_item, "tracked_item")
    /\ NamedByATag(result.value.workflow, "workflow")

=============================================================================
