---------------------------- MODULE KanbanTracker ----------------------------
(***************************************************************************)
(* KanbanTracker = Tracker<KanbanSpecificTrackerData> (nipxxc.rs 11) as   *)
(* the composition of two components: the steps of Tracker::try_from up   *)
(* to the payload, then KanbanSpecificTrackerData::try_from, whose call   *)
(* TaskMetadata::try_from(&event.tags) runs as the TaskDecoder state      *)
(* machine over the same event, one step per tag.  Every tag of the       *)
(* tracker, its "a", "d" and "rank" tags included, passes through both.   *)
(***************************************************************************)
EXTENDS Tracker, KanbanTrackerData

VARIABLES
  data,      \* status and rank, computed before the metadata
  mdEvent, mdMode, mdPc, mdI, mdId, mdMeta, mdResult  \* TaskMetadata::try_from

payloadVars == <<data, mdEvent, mdMode, mdPc, mdI, mdId, mdMeta, mdResult>>
allVars == <<vars, payloadVars>>

TD == INSTANCE TaskDecoder WITH
  event <- mdEvent, mode <- mdMode, pc <- mdPc, i <- mdI, id <- mdId,
  meta <- mdMeta, result <- mdResult

NoData == [status |-> StatusDefer, rank |-> NoValue]

-----------------------------------------------------------------------------
\* The steps of Tracker::try_from before the payload.
TrackerStep ==
  /\ VerifyKind \/ GetIdentifier \/ Scan \/ ScanExhausted
  /\ UNCHANGED payloadVars

\* KanbanSpecificTrackerData::try_from(value.clone()): the status and the
\* rank, then the call TaskMetadata::try_from(&event.tags).
StartPayload ==
  /\ pc = "payload" /\ pc' = "metadata"
  /\ data' = [status |-> KanbanStatus(event), rank |-> Rank(event.tags)]
  /\ TD!Call(event, "metadata")
  /\ UNCHANGED <<event, j, id, found, result>>

\* One iteration of the metadata loop.
PayloadStep ==
  /\ pc = "metadata" /\ TD!Step
  /\ UNCHANGED <<vars, data>>

\* `?` on the metadata, map_err to CannotGetWorkflowSpecificData, and
\* Ok(Tracker { .. }).
FinishPayload ==
  /\ pc = "metadata" /\ mdPc = "done"
  /\ Return(IF mdResult.status = "err"
            THEN Err([kind |-> "CannotGetWorkflowSpecificData"])
            ELSE Ok([id |-> id,
                     tracked_item |-> Unwrap(found.tracked_item),
                     workflow |-> Unwrap(found.workflow),
                     workflow_specific_data |->
                       [status |-> data.status, rank |-> data.rank,
                        task_metadata |-> mdResult.value]]))
  /\ UNCHANGED <<event, j, id, found, payloadVars>>

-----------------------------------------------------------------------------
KTInit == Init /\ TD!Init /\ data = NoData

KTStep == TrackerStep \/ StartPayload \/ PayloadStep \/ FinishPayload

-----------------------------------------------------------------------------
(***************************************************************************)
(* Refinement: the tracker with its payload decoded by the metadata loop  *)
(* returns what TrackerSpec returns with SpecKanbanTrackerData, the       *)
(* declarative payload of spec.md 4.6, as its workflow-specific data:     *)
(* the first labelled references, the errors in order, the first rank    *)
(* tag only, and the metadata of spec.md 4.1 read from all the tags.     *)
(***************************************************************************)
KanbanAbstract == INSTANCE TrackerSpec WITH
  WorkflowSpecificData <- SpecKanbanTrackerData,
  called <- pc # "idle",
  result <- IF pc = "done" THEN result ELSE Pending

KanbanTrackerRefinement == KanbanAbstract!Spec

=============================================================================
