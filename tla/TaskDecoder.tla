---------------------------- MODULE TaskDecoder -----------------------------
(***************************************************************************)
(* The decoders of nipxxa.rs as a state machine: Task::try_from(&Event)   *)
(* (kind check, identifier lookup, metadata) and TaskMetadata::try_from    *)
(* (&Tags), the single pass over the tag list that dispatches on the tag   *)
(* kind.  One step is one iteration of that loop, so the order in which    *)
(* tags overwrite fields and the early return on the first malformed       *)
(* value are explicit.                                                     *)
(*                                                                         *)
(*   pc = "idle"        no call in progress                                *)
(*        "kind"        Task::try_from, verifying event.kind              *)
(*        "identifier"  Task::try_from, looking up the "d" tag            *)
(*        "metadata"    inside the loop of TaskMetadata::try_from          *)
(*        "done"        returned; result holds the Result                  *)
(***************************************************************************)
EXTENDS TaskMetadata, SequencesExt

VARIABLES
  event,   \* the &Event (or, for a metadata call, the tags in event.tags)
  mode,    \* "task": Task::try_from; "metadata": TaskMetadata::try_from
  pc,      \* control state, see above
  i,       \* loop index into event.tags
  id,      \* the identifier found by Task::try_from
  meta,    \* task_metadata, the accumulator of the loop
  result   \* Pending, or the Result returned

vars == <<event, mode, pc, i, id, meta, result>>

NoEvent == [kind |-> "none", content |-> "", tags |-> << >>]

Tag == event.tags[i]

(***************************************************************************)
(* The call: Task::try_from(&event) or TaskMetadata::try_from(&tags).     *)
(***************************************************************************)
Call(ev, md) ==
  /\ pc = "idle"
  /\ event' = ev
  /\ mode' = md
  /\ pc' = IF md = "task" THEN "kind" ELSE "metadata"
  /\ i' = 1
  /\ meta' = NewMetadata
  /\ UNCHANGED <<id, result>>

Return(r) == result' = r /\ pc' = "done"

\* if event.kind != Kind::Task { return Err(WrongKind(event.kind)) }
VerifyKind ==
  /\ pc = "kind"
  /\ \/ event.kind # "Task" /\ Return(Err([kind |-> "WrongKind", actual |-> event.kind]))
     \/ event.kind = "Task" /\ pc' = "identifier" /\ UNCHANGED result
  /\ UNCHANGED <<event, mode, i, id, meta>>

\* find_map over the tags: the first "d" tag that has a content, else
\* MissingIdentifier; then Task::new(id, content) and the metadata loop.
GetIdentifier ==
  LET k == SelectInSeq(event.tags, LAMBDA t : KindOf(t) = "d" /\ IsSome(Content(t)))
  IN /\ pc = "identifier"
     /\ \/ k = 0 /\ Return(Err([kind |-> "MissingIdentifier"])) /\ UNCHANGED id
        \/ k # 0 /\ id' = Unwrap(Content(event.tags[k])) /\ pc' = "metadata"
           /\ UNCHANGED result
     /\ UNCHANGED <<event, mode, i, meta>>

(***************************************************************************)
(* One iteration of `for tag in value.iter()` in TaskMetadata::try_from.  *)
(* Continue(m) ends the iteration with task_metadata = m; Fail(e) is the   *)
(* early `return Err(e)`.                                                  *)
(***************************************************************************)
\* Mutant: the iterator is advanced twice per iteration.
ContinueTwice(m) == meta' = m /\ i' = i + 2 /\ UNCHANGED <<pc, result>>
Continue(m) == meta' = m /\ i' = i + 1 /\ UNCHANGED <<pc, result>>
\* The variants of enum TaskError.
TaskErrorKinds ==
  {"WrongKind", "MissingIdentifier", "MissingContent", "InvalidUrl", "InvalidTimestamp"}

Fail(e) == Return(Err(e)) /\ UNCHANGED <<meta, i>>
InLoop == pc = "metadata" /\ i <= Len(event.tags)

\* Mutant: a title tag only fills an empty title (first one wins).
DecodeTitleFirstWins ==
  /\ InLoop /\ KindOf(Tag) = "title"
  /\ Continue(IF IsSome(Content(Tag)) /\ meta.title = NoValue
              THEN [meta EXCEPT !.title = Content(Tag)] ELSE meta)
  /\ UNCHANGED <<event, mode, id>>

\* TagKind::Title: a title with content overwrites the previous one.
DecodeTitle ==
  /\ InLoop /\ KindOf(Tag) = "title"
  /\ Continue(IF IsSome(Content(Tag)) THEN [meta EXCEPT !.title = Content(Tag)] ELSE meta)
  /\ UNCHANGED <<event, mode, id>>

\* TagKind::Image: Url::parse of the content, InvalidUrl on failure.
DecodeImage ==
  LET c == Content(Tag) IN
  /\ InLoop /\ KindOf(Tag) = "image"
  /\ \/ c = NoValue /\ Continue(meta)
     \/ IsSome(c) /\ IsSome(UrlParse[Unwrap(c)])
        /\ Continue([meta EXCEPT !.image = UrlParse[Unwrap(c)]])
     \/ IsSome(c) /\ UrlParse[Unwrap(c)] = NoValue
        /\ Fail([kind |-> "InvalidUrl", raw |-> Unwrap(c)])
  /\ UNCHANGED <<event, mode, id>>

\* TagKind::PublishedAt and TagKind::DueAt: parse::<u64>, InvalidTimestamp
\* on failure.  The kind literal is the name of the field it sets.
DecodeTimestamp ==
  LET c == Content(Tag)
      f == KindOf(Tag)
  IN
  /\ InLoop /\ f \in {"published_at", "due_at"}
  /\ \/ c = NoValue /\ Continue(meta)
     \/ IsSome(c) /\ IsSome(U64Parse[Unwrap(c)])
        /\ Continue([meta EXCEPT ![f] = U64Parse[Unwrap(c)]])
     \/ IsSome(c) /\ U64Parse[Unwrap(c)] = NoValue
        /\ Fail([kind |-> "InvalidTimestamp", raw |-> Unwrap(c)])
  /\ UNCHANGED <<event, mode, id>>

\* TagKind::Archived: presence alone sets archived = Some(true).
DecodeArchived ==
  /\ InLoop /\ KindOf(Tag) = "archived"
  /\ Continue([meta EXCEPT !.archived = Some(TRUE)])
  /\ UNCHANGED <<event, mode, id>>

\* TagKind::t(): the content, when present, is appended to tags.
DecodeHashtag ==
  /\ InLoop /\ KindOf(Tag) = "t"
  /\ Continue(IF IsSome(Content(Tag))
              THEN [meta EXCEPT !.tags = Append(@, Unwrap(Content(Tag)))]
              ELSE meta)
  /\ UNCHANGED <<event, mode, id>>

\* TagKind::p(): a content that PublicKey::from_str accepts is appended
\* with the role taken from the third element; any other is dropped.
DecodeUser ==
  LET c == Content(Tag) IN
  /\ InLoop /\ KindOf(Tag) = "p"
  /\ Continue(IF IsSome(c) /\ IsSome(PubKeyParse[Unwrap(c)])
              THEN [meta EXCEPT !.users =
                      Append(@, <<Unwrap(PubKeyParse[Unwrap(c)]), RoleFrom(Get(Tag, 2))>>)]
              ELSE meta)
  /\ UNCHANGED <<event, mode, id>>

\* Any other kind is skipped.
SkipTag ==
  /\ InLoop
  /\ KindOf(Tag) \notin {"title", "image", "published_at", "due_at", "archived", "t", "p"}
  /\ Continue(meta)
  /\ UNCHANGED <<event, mode, id>>

\* End of the loop: Ok(task_metadata), or for Task::try_from Ok(task).
FinishMetadata ==
  /\ pc = "metadata" /\ i > Len(event.tags)
  /\ Return(Ok(IF mode = "task"
               THEN [id |-> id, description |-> event.content, metadata |-> meta]
               ELSE meta))
  /\ UNCHANGED <<event, mode, i, id, meta>>

-----------------------------------------------------------------------------
Init ==
  /\ event = NoEvent
  /\ mode = "task"
  /\ pc = "idle"
  /\ i = 1
  /\ id = ""
  /\ meta = NewMetadata
  /\ result = Pending

Step ==
  \/ VerifyKind \/ GetIdentifier
  \/ DecodeTitle \/ DecodeImage \/ DecodeTimestamp \/ DecodeArchived
  \/ DecodeHashtag \/ DecodeUser \/ SkipTag \/ FinishMetadata

-----------------------------------------------------------------------------
(***************************************************************************)
(* Properties.                                                             *)
(***************************************************************************)
TypeOK ==
  /\ mode \in {"task", "metadata"}
  /\ pc \in {"idle", "kind", "identifier", "metadata", "done"}
  /\ i \in 1..Len(event.tags) + 1
  /\ IsMetadata(meta)
  /\ result.status \in {"pending", "ok", "err"}
  /\ result.status = "err" => result.error.kind \in TaskErrorKinds

(***************************************************************************)
(* Refinement: the loop of TaskMetadata::try_from, with Task::try_from's   *)
(* kind and identifier checks in front of it, returns exactly what the    *)
(* declarative decoder of TaskDecodeSpec returns: last value wins for the *)
(* scalar fields, the first malformed image or timestamp is the error,    *)
(* unknown kinds are skipped, hashtags and users keep tag order.  Until   *)
(* the loop returns, the abstract call is still pending.                  *)
(***************************************************************************)
Abstract == INSTANCE TaskDecodeSpec WITH
  called <- pc # "idle",
  result <- IF pc = "done" THEN result ELSE Pending

DecodeRefinement == Abstract!Spec

=============================================================================
