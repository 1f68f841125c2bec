----------------------------- MODULE TaskTests ------------------------------
(***************************************************************************)
(* The encoding unit tests of nipxxa.rs (mod tests) replayed on the      *)
(* model.  A test is a record: Task::new(id, description), the builder    *)
(* calls in `calls`, then to_event_builder, and the tags it asserts the   *)
(* event carries.                                                          *)
(* The calls are replayed one at a time through the builder actions of    *)
(* TaskLifecycle and the event is decoded by the TaskDecoder steps, so a  *)
(* test exercises exactly the model's actions.  Each test is a set of    *)
(* records: the test with its literals drawn from small sets.            *)
(***************************************************************************)
EXTENDS TaskLifecycle

CONSTANT Tests   \* the tests of mod tests: test name -> set of test records

VARIABLES
  test,  \* the test being run, with its literals
  next   \* index of its next builder call

testVars == <<test, next>>

T == test

\* One builder call of a test: the Task method named by c.method.
Perform(c) ==
  CASE c.method = "title"        -> Title(c.arg)
    [] c.method = "image"        -> Image(c.arg)
    [] c.method = "published_at" -> PublishedAt(c.arg)
    [] c.method = "due_at"       -> DueAt(c.arg)
    [] c.method = "archived"     -> Archived(c.arg)
    [] c.method = "add_tag"      -> AddTag(c.arg)
    [] c.method = "add_tags"     -> AddTags(c.arg)
    [] c.method = "add_user"     -> AddUser(c.arg[1], c.arg[2])

TestsInit ==
  /\ \E n \in DOMAIN Tests : test \in Tests[n]
  /\ task = [id |-> T.id, description |-> T.description, metadata |-> NewMetadata]
  /\ calls = 0
  /\ phase = "build"
  /\ builder = "Task"
  /\ next = 1
  /\ Init

\* The next call of the builder chain.
ReplayCall ==
  /\ next <= Len(T.calls)
  /\ Perform(T.calls[next])
  /\ next' = next + 1
  /\ UNCHANGED test

\* .to_event_builder().unwrap() at the end of the chain.
ReplayConvert ==
  /\ next > Len(T.calls)
  /\ ToEventBuilder
  /\ UNCHANGED testVars

TestsNext ==
  \/ ReplayCall
  \/ ReplayConvert
  \/ Step /\ UNCHANGED <<lifecycleVars, testVars>>

TestsSpec == TestsInit /\ [][TestsNext]_<<allVars, testVars>>

-----------------------------------------------------------------------------
\* assert_eq!(event.kind, Kind::Task) and assert_eq!(event.content, ...)
EventAsserted(t) == event.kind = "Task" /\ event.content = t.description

\* The tags of a list other than the identifier ("d") tags.
NonIdentifierTags(tags) == SelectSeq(tags, LAMBDA t : KindOf(t) # "d")

(***************************************************************************)
(* The encoding tests (test_task, test_task_with_archived, _multiple_     *)
(* users, _image, _multiple_tags): the event to_event_builder builds has  *)
(* kind Task, the description as content, and, apart from identifier     *)
(* tags, exactly the tags the test lists, in its order: the order         *)
(* Into<Tags> emits fields in, hashtags and users in call order, and a p *)
(* tag without a role for TaskUserRole::None.  (The identifier tag the    *)
(* tests also expect is what TaskRoundTrip is about.)                     *)
(***************************************************************************)
EncodeTestsHold ==
  phase = "decode" => EventAsserted(T) /\ NonIdentifierTags(event.tags) = NonIdentifierTags(T.tags)

=============================================================================
