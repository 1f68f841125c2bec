--------------------------- MODULE TaskLifecycle ----------------------------
(***************************************************************************)
(* The life of a Task (nipxxa.rs): Task::new and the Task builder, or     *)
(* TaskMetadata::new and the TaskMetadata builder, a sequence of builder  *)
(* calls that accumulate fields, then one terminal conversion:            *)
(*   - to_event_builder(), giving the event that Task::try_from decodes,  *)
(*   - or metadata.into() : Tags, that TaskMetadata::try_from decodes     *)
(*     (the path a tracker's workflow data takes, nipxxc.rs).              *)
(* The decoding is the state machine of TaskDecoder, sharing its          *)
(* variables.                                                              *)
(***************************************************************************)
EXTENDS TaskDecoder

CONSTANTS
  Ids,          \* identifiers passed to Task::new
  Descriptions, \* descriptions passed to Task::new
  Titles,       \* arguments of title()
  Hashtags,     \* arguments of add_tag() and elements of add_tags()
  BuilderRoles, \* roles passed to add_user()
  MaxCalls      \* bound on the number of builder calls

ASSUME MaxCalls \in Nat

VARIABLES
  task,   \* the Task under construction
  calls,  \* builder calls made so far
  phase,  \* "build", "rejected" (to_event_builder failed) or "decode"
  builder \* the API building the metadata: "Task" or "TaskMetadata"

lifecycleVars == <<task, calls, phase, builder>>
allVars == <<lifecycleVars, vars>>

(***************************************************************************)
(* Builder methods of Task.  Each consumes self and returns it with one   *)
(* field of the metadata set or extended.                                 *)
(***************************************************************************)
Build(m) ==
  /\ phase = "build" /\ calls < MaxCalls
  /\ task' = [task EXCEPT !.metadata = m]
  /\ calls' = calls + 1
  /\ UNCHANGED <<phase, builder, vars>>

\* A builder method of TaskMetadata, on a metadata built from
\* TaskMetadata::new(); task.metadata holds it.
MetaBuild(m) == builder = "TaskMetadata" /\ Build(m)

TaskBuild(m) == builder = "Task" /\ Build(m)

Title(s) == TaskBuild([task.metadata EXCEPT !.title = Some(s)])
Image(u) == TaskBuild([task.metadata EXCEPT !.image = Some(u)])
PublishedAt(n) == TaskBuild([task.metadata EXCEPT !.published_at = Some(n)])
DueAt(n) == TaskBuild([task.metadata EXCEPT !.due_at = Some(n)])
Archived(b) == TaskBuild([task.metadata EXCEPT !.archived = Some(b)])
AddTag(s) == TaskBuild([task.metadata EXCEPT !.tags = Append(@, s)])
AddTags(ss) == TaskBuild([task.metadata EXCEPT !.tags = @ \o ss])
AddUser(pk, r) == TaskBuild([task.metadata EXCEPT !.users = Append(@, <<pk, r>>)])

(***************************************************************************)
(* Task::to_event_builder: an empty id is rejected; otherwise the event   *)
(* has kind Task, the description as content and the metadata's tags.    *)
(* The event is then decoded by Task::try_from.                           *)
(***************************************************************************)
ToEventBuilder ==
  /\ phase = "build" /\ builder = "Task"
  /\ \/ task.id = "" /\ phase' = "rejected" /\ UNCHANGED vars
     \/ task.id # "" /\ phase' = "decode"
        /\ Call([kind |-> "Task", content |-> task.description,
                 tags |-> EncodeMetadata(task.metadata)], "task")
  /\ UNCHANGED <<task, calls, builder>>

\* metadata.into() : Tags, decoded by TaskMetadata::try_from.
IntoTags ==
  /\ phase = "build" /\ phase' = "decode"
  /\ Call([kind |-> "Task", content |-> "", tags |-> EncodeMetadata(task.metadata)],
          "metadata")
  /\ UNCHANGED <<task, calls, builder>>

LifecycleInit ==
  /\ \E d \in Ids, c \in Descriptions :
       task = [id |-> d, description |-> c, metadata |-> NewMetadata]
  /\ calls = 0
  /\ phase = "build"
  /\ builder \in {"Task", "TaskMetadata"}
  /\ Init

LifecycleNext ==
  \/ \E s \in Titles : Title(s)
  \/ \E u \in Urls : Image(u)
  \/ \E n \in Timestamps : PublishedAt(n) \/ DueAt(n)
  \/ \E b \in BOOLEAN : Archived(b)
  \/ \E s \in Hashtags : AddTag(s)
  \/ \E s, t \in Hashtags : AddTags(<<s, t>>)
  \/ \E pk \in PubKeys, r \in BuilderRoles : AddUser(pk, r)
  \/ \E s \in Titles : MetaBuild(WithTitle(task.metadata, s))
  \/ \E u \in Urls : MetaBuild(WithImage(task.metadata, u))
  \/ \E n \in Timestamps : MetaBuild(WithPublishedAt(task.metadata, n))
                        \/ MetaBuild(WithDueAt(task.metadata, n))
  \/ \E b \in BOOLEAN : MetaBuild(WithArchived(task.metadata, b))
  \/ \E s \in Hashtags : MetaBuild(WithTag(task.metadata, s))
  \/ \E s, t \in Hashtags : MetaBuild(WithTags(task.metadata, <<s, t>>))
  \/ \E pk \in PubKeys, r \in BuilderRoles : MetaBuild(WithUser(task.metadata, pk, r))
  \/ ToEventBuilder
  \/ IntoTags
  \/ Step /\ UNCHANGED lifecycleVars

LifecycleSpec == LifecycleInit /\ [][LifecycleNext]_allVars

-----------------------------------------------------------------------------
Decoded(md) == phase = "decode" /\ pc = "done" /\ mode = md

(***************************************************************************)
(* What spec.md 3 says a built value reads back as.  archived: an         *)
(* explicit false is never emitted, so it reads back as absent.  Roles:  *)
(* None is a bare reference and the empty role string reads as None, the *)
(* strings "assignee" and "client" are the presets, any other non-empty *)
(* string is Custom.  Hashtags are kept to those Tag::hashtag leaves as  *)
(* they are (see HashtagRoundTrip).                                      *)
(***************************************************************************)
ExpectedRole(r) ==
  CASE r = RoleCustom("")         -> RoleNone
    [] r = RoleCustom("assignee") -> RoleAssignee
    [] r = RoleCustom("client")   -> RoleClient
    [] OTHER                      -> r

Expected(m) ==
  [m EXCEPT !.archived = IF @ = Some(FALSE) THEN NoValue ELSE @,
            !.users = [k \in DOMAIN @ |-> <<@[k][1], ExpectedRole(@[k][2])>>]]

HashtagsKept(m) == \A k \in 1..Len(m.tags) : HashtagFormat[m.tags[k]] = m.tags[k]

(***************************************************************************)
(* Metadata round trip (spec.md 8, with the encodings spec.md 3 makes     *)
(* lossy): whatever sequence of builder calls, of either builder,         *)
(* produced the metadata, decoding its tags (Into<Tags> then              *)
(* TaskMetadata::try_from) gives back the metadata field for field, order *)
(* of hashtags and users included, up to what spec.md 3 says is lost:     *)
(* archived(false) reads as absent, never as true; an empty or preset-    *)
(* named custom role reads as None or the preset.                         *)
(***************************************************************************)
MetadataRoundTrip ==
  Decoded("metadata") /\ HashtagsKept(task.metadata)
  => result = Ok(Expected(task.metadata))

(***************************************************************************)
(* Task round trip (spec.md 4.2 and 8, test_task and test_try_from_event): *)
(* a task with an identifier, turned into an event by to_event_builder    *)
(* and decoded by Task::try_from, is the task again.                      *)
(***************************************************************************)
TaskRoundTrip ==
  Decoded("task") /\ HashtagsKept(task.metadata)
  => result = Ok([task EXCEPT !.metadata = Expected(@)])

(***************************************************************************)
(* Hashtag round trip (spec.md 8 puts no restriction on hashtags): the    *)
(* hashtags add_tag() and add_tags() stored are the ones the decoder      *)
(* reads back from the t tags that Into<Tags> built with Tag::hashtag.    *)
(***************************************************************************)
HashtagRoundTrip ==
  Decoded("metadata") /\ result.status = "ok" => result.value.tags = task.metadata.tags

=============================================================================
