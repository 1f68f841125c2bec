-------------------------- MODULE KanbanTrackerData -------------------------
(***************************************************************************)
(* KanbanSpecificTrackerData (nipxxc.rs), the workflow-specific payload   *)
(* of a KanbanTracker = Tracker<KanbanSpecificTrackerData>, decoded from  *)
(* the whole tracker event by TryFrom<Event>.                              *)
(*                                                                         *)
(* KanbanSpecificTrackerData(ev) takes the metadata part from             *)
(* DecodeMetadata of TaskCodecSpec, which the run task_decoder shows the  *)
(* loop of TaskMetadata::try_from returns exactly; KanbanTracker composes *)
(* KanbanStatus and Rank with that loop itself.                           *)
(***************************************************************************)
EXTENDS TaskCodecSpec

\* KanbanTrackerStatus: Column(String) or Defer.
StatusDefer == [variant |-> "Defer", column |-> ""]
StatusColumn(s) == [variant |-> "Column", column |-> s]

\* Defer for an empty content, else Column(content).
KanbanStatus(ev) == IF ev.content = "" THEN StatusDefer ELSE StatusColumn(ev.content)

\* Mutant: the first "rank" tag whose content parses is taken.
RankFirstValid(tags) ==
  LET k == SelectInSeq(tags, LAMBDA t : KindOf(t) = "rank" /\ IsSome(Content(t))
                                        /\ IsSome(U32Parse[Unwrap(Content(t))]))
  IN IF k = 0 THEN NoValue ELSE U32Parse[Unwrap(Content(tags[k]))]

\* event.tags.find(TagKind::custom("rank")): the first "rank" tag; its
\* content parsed as u32, and None when absent or unparseable.
Rank(tags) ==
  LET k == SelectInSeq(tags, LAMBDA t : KindOf(t) = "rank")
  IN IF k = 0 \/ Content(tags[k]) = NoValue THEN NoValue
     ELSE U32Parse[Unwrap(Content(tags[k]))]

KanbanData(ev, md) == [status |-> KanbanStatus(ev), rank |-> Rank(ev.tags), task_metadata |-> md]

\* impl TryFrom<Event> for KanbanSpecificTrackerData.
KanbanSpecificTrackerData(ev) ==
  LET md == DecodeMetadata(ev.tags)
  IN IF md.status = "err" THEN md ELSE Ok(KanbanData(ev, md.value))

(***************************************************************************)
(* spec.md 3 and 4.6, stated declaratively: the status from the content,  *)
(* the rank from the first "rank" tag only (a later one never replaces an *)
(* unparseable first one), the metadata by spec.md 4.1.                    *)
(***************************************************************************)
SpecRank(tags) ==
  LET ranks == SelectSeq(tags, LAMBDA t : KindOf(t) = "rank")
  IN IF ranks = << >> \/ Len(ranks[1]) < 2 THEN NoValue ELSE U32Parse[ranks[1][2]]

SpecKanbanTrackerData(ev) ==
  LET md == DecodeMetadata(ev.tags)
  IN IF md.status = "err" THEN md
     ELSE Ok([status |-> IF ev.content = "" THEN [variant |-> "Defer", column |-> ""]
                         ELSE [variant |-> "Column", column |-> ev.content],
              rank |-> SpecRank(ev.tags), task_metadata |-> md.value])

=============================================================================
