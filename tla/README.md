# TLA+ models of the nostr task, kanban and tracker codecs

This directory holds TLA+ models of the three source files of the repository:

| file | what it does |
|---|---|
| `src/crates/nostr/src/nips/nipxxa.rs` | `Task`, `TaskMetadata`, `TaskUserRole`: builders, encoding to tags, decoding from an event |
| `src/crates/nostr/src/nips/nipxxc.rs` | `KanbanBoard`, `KanbanColumnDefinition`, `Color`, `KanbanSpecificTrackerData`: decoding only |
| `src/crates/nostr/src/nips/nipxxe.rs` | `Tracker<T>`, `CoordinateLabel`, `parse_a_tag`: decoding a tracker event |

## 1. Inventory

The system is a pure, single-threaded encode/decode library. Nothing runs
concurrently and nothing is stored, so there are no threads, messages,
crashes or timeouts to model. The hard part is control flow over data:
the order tags are walked in, which tag wins when a kind repeats, when a
malformed value is skipped and when it aborts the call, and whether encoding
then decoding gives back what was built. Each decoder is modelled as a state
machine that takes one step per loop iteration, so the tag order and the early
returns are explicit. Each decoder is checked against a declarative statement
of what it should return.

### Components

* **External primitives** (not in this repository): `Tag` (`to_vec`,
  `kind`, `content`), `Event`, `EventBuilder`, `Url::parse`/`to_string`,
  `u64`/`u32` parsing, `Timestamp`, `PublicKey::from_str`/`from_hex`/`to_string`
  and `Coordinate::from_str`. They are stated in `NostrTags.tla` as CONSTANT
  tables with their laws as ASSUMEs. `MCPrimitives.tla` gives them values.
* **TaskUserRole** (`nipxxa.rs` 58-107). No state. Operations: `to_string`
  maps `None` to no value and the others to their name. `From<Option<String>>`
  maps no value and `""` to `None`, `"assignee"` and `"client"` to the presets,
  and anything else to `Custom`.
* **TaskMetadata** (`nipxxa.rs` 37-56, 109-237, 344-407). State: the
  optional title, image, published_at, due_at and archived, plus the hashtag and
  user sequences. Operations:
  * the builder setters;
  * `Into<Tags>`, which emits in a fixed order and writes archived only
    when it is `Some(true)`;
  * `TryFrom<&Tags>`, one pass that dispatches on the tag kind. Repeated
    scalars are overwritten. The first malformed URL or timestamp returns an
    error. Unknown kinds and unparseable keys are skipped.
* **Task** (`nipxxa.rs` 24-35, 239-315, 409-438). State: the id, the
  description and the metadata. Operations:
  * `Task::new` and the builder methods;
  * `to_event_builder`, which rejects an empty id and builds an event of kind
    Task;
  * `TryFrom<&Event>`, which checks the kind, takes the first `d` tag with
    content, then decodes the metadata.
* **KanbanBoard / KanbanColumnDefinition** (`nipxxc.rs` 13-45, 84-179). Decode
  only:
  * the kind check;
  * the first `d` tag, which must have content;
  * the first title, description and alt;
  * every `col` tag decoded strictly, so a single malformed one fails the board;
  * at least one column required;
  * maintainers taken from the `p` tags that parse as hex keys, falling back
    to the event author when none do.
* **Color** (`nipxxc.rs` 62-82, 206-237). `from_str` matches the presets
  ignoring case, maps a string starting with `#` to Hex, and maps anything else
  to None. `to_string` is the inverse.
* **KanbanSpecificTrackerData** (`nipxxc.rs` 47-60, 181-204). The status comes
  from the content (`Defer` when it is empty). The rank is the first `rank` tag
  parsed as u32, or None. The metadata comes from `TaskMetadata::try_from`.
* **CoordinateLabel / parse_a_tag** (`nipxxe.rs` 43-82, 129-143).
  `parse_a_tag` needs at least two values, parses the second as a Coordinate,
  and takes the label from the third. `to_string` writes None as the empty
  string, which `from_str` reads as `Custom("")`.
* **Tracker\<T\>** (`nipxxe.rs` 19-41, 145-191). The steps run in this order:
  1. the kind check;
  2. the standardized `d` identifier;
  3. a scan for the first tag whose label parses as `tracked_item`;
  4. a separate scan for the first `workflow` tag;
  5. `T::try_from(event)`, whose error is replaced by
     `CannotGetWorkflowSpecificData`.
* **Error Display impls**. These only format messages and are not modelled.

### How the components interact

Each decoder receives an `Event` and walks its tags, so they share nothing but
the input. Three call paths connect them:

* `Task::try_from` delegates to `TaskMetadata::try_from`.
* `Tracker<KanbanSpecificTrackerData>::try_from` calls
  `KanbanSpecificTrackerData::try_from` on the whole event. That call decodes
  `TaskMetadata` from the tracker's tags, so the tracker's `a`, `d` and
  `rank` tags also pass through the metadata decoder.
* `KanbanBoard::try_from` calls `KanbanColumnDefinition::try_from` for each
  `col` tag, and `Color::from_str` for the column's colour.

### What makes each component correct

* Metadata decoding matches spec.md 4.1: the last value wins, the first
  malformed value is the error, unknown kinds are skipped, and order and
  duplicates are kept.
* Encoding then decoding gives back the metadata, up to the losses spec.md 3
  prescribes (`archived(false)` is not written, and a custom role named
  `""`, `"assignee"` or `"client"` reads back as the preset), and a task's
  event decodes to the task.
* A board decodes only with at least one column, fails on any malformed
  column, and falls back to the author exactly when no maintainer is declared.
* A tracker picks the first tracked_item and the first workflow reference,
  skipping malformed references, and reports its errors in a fixed order.

## 2. Plan

Modules, in order of importance:

1. `NostrTags`: the external interface (done).
2. `TaskMetadata`: the roles, the record and the encoder as operators (done).
3. `TaskCodecSpec` and `TaskDecodeSpec`: the abstract decoder, one atomic
   step that returns the declarative result of spec.md 4.1/4.2 (done).
4. `TaskDecoder`: the step-by-step decoder of `Task::try_from` and
   `TaskMetadata::try_from`, refining `TaskDecodeSpec` (done).
5. `TaskLifecycle`: composes the builder calls, the two encoders and
   `TaskDecoder` (done).
6. `Tracker`, `TrackerSpec`, `KanbanTrackerData`: `parse_a_tag`,
   `CoordinateLabel`, the tracker's steps and the `KanbanSpecificTrackerData`
   payload, with a refinement check (done).
7. `KanbanBoard`, `KanbanBoardSpec`: the board decoder with `Color` and the
   column decoder as operators, with a refinement check (done).
8. `KanbanTracker`: the tracker composed with its kanban payload, whose
   metadata is decoded by the `TaskDecoder` state machine, checked against
   `TrackerSpec` with the declarative payload of spec.md 4.6 (done).
9. (Termination is not checked: see Fairness below.)
10. `CoordinateLabel::to_string`, the hashtag normalisation of `Tag::hashtag`
    and the error enums' variants (done).
11. `TaskTests`: the unit tests of `nipxxa.rs` replayed on the model (done).

## 3. Modules and how they map to the code

* `NostrTags.tla` is not code of the repository. A tag is its `to_vec()`: a
  sequence whose first element is the kind. `Content(t)` is `tag.content()`
  and `Get(t, n)` is `to_vec().get(n)`, indexed from zero. An option is a
  sequence of length 0 or 1, and a `Result` is a record with a `status`. A URL
  value is its serialization, so `Url::to_string` returns the value itself,
  while `Url::parse` may normalise (in the model `https://h` parses to
  `https://h/`). Timestamps are formatted by a table, and `"05"` parses to 5.
* `TaskMetadata.tla` contains the roles, `IsMetadata`, `NewMetadata`
  (`TaskMetadata::new`), the `TaskMetadata` builder methods (`WithTitle`
  through `WithUser`) and `EncodeMetadata` (`Into<Tags>`).
* `TaskDecoder.tla` has these variables:
  * `event`, the input;
  * `mode`, which is `task` or `metadata`;
  * `pc`, which is `idle`, `kind`, `identifier`, `metadata` or `done`;
  * `i`, the loop index;
  * `id`, the identifier found;
  * `meta`, the `task_metadata` accumulator;
  * `result`, the value returned.

  Its actions are:
  * `Call` starts a call.
  * `VerifyKind` and `GetIdentifier` model the two checks at the start of
    `Task::try_from`.
  * `DecodeTitle`, `DecodeImage`, `DecodeTimestamp`, `DecodeArchived`,
    `DecodeHashtag`, `DecodeUser` and `SkipTag` are the match arms of the
    loop body.
  * `FinishMetadata` returns `Ok`.
* `TaskCodecSpec.tla` holds the declarative decoder operators
  (`DecodeMetadata`, `DecodeTask`), written from spec.md, not from the code.
  `TaskDecodeSpec.tla` wraps them as the abstract call/return machine. Its role grammar (`SpecRole`) is also written
  from spec.md 3, independently of `RoleFrom`.
* `TaskLifecycle.tla` adds four variables:
  * `task`, the task being built;
  * `calls`, the number of builder calls made so far;
  * `phase`, which is `build`, `rejected` or `decode`;
  * `builder`, which is `Task` or `TaskMetadata`, the API in use.

  Its actions are:
  * the `Task` builder methods (`TaskBuild`);
  * the `TaskMetadata` builder methods (`MetaBuild` of `WithTitle` and the
    others);
  * `ToEventBuilder`, which exists only for a `Task`;
  * `IntoTags`.

  The decoder's steps run with these four variables unchanged.
* `Tracker.tla` models `Tracker::try_from` (`nipxxe.rs` 145-191). Its
  variables are `event`, `pc`, `j` (the index of the current scan), `id`
  (`mutable_identifier`), `found` (the coordinates found) and `result`.
  `VerifyKind`, `GetIdentifier`, `Scan` (one iteration of either `for` loop,
  with its `break`), `ScanExhausted` (the `ok_or` after the loop) and
  `ConvertPayload` follow the code in order. `ParseATag` and `LabelFromStr`
  are `parse_a_tag` and `CoordinateLabel::from_str`, `LabelToString` is
  `CoordinateLabel::to_string`, and `TrackerErrorKinds` is the enum
  `TrackerError` (`TaskErrorKinds` in `TaskDecoder` is `TaskError`); each
  decoder's `TypeOK` keeps its errors among them. The payload decoder is
  the operator constant `WorkflowSpecificData(_)`.
* `TaskTests.tla` replays the unit tests of `nipxxa.rs` (`mod tests`,
  lines 439-697). A test is a record: the builder chain, replayed call by
  call through the `TaskLifecycle` builder actions (`ReplayCall`), then
  `to_event_builder` (`ReplayConvert`). Only the five encoding tests are
  replayed. `EventAsserted` is their `assert_eq!` on kind and content, and
  `EncodeTestsHold` compares the tags other than `d` tags. The two error
  tests are not replayed, because `DecodeRefinement` checks their decode
  for every tag list. `test_try_from_event` is left out too: its `unwrap()`
  fails for the reason `TaskRoundTrip` shows. `MCTaskTests.tla` writes the
  five tests down, each as the set of its variants with the literals drawn
  from the small MC sets.
* `TrackerSpec.tla` states spec.md 4.5/4.6 declaratively: the first tag that
  parses as a reference with the right label, and the errors in order.
* `KanbanTrackerData.tla` is `KanbanSpecificTrackerData::try_from`
  (`nipxxc.rs` 181-204). Its metadata part is `DecodeMetadata`, which the
  `task_decoder` run shows the metadata loop refines.
* `KanbanBoard.tla` models `KanbanBoard::try_from` (`nipxxc.rs` 106-178):
  `VerifyKind`, `GetIdentifier`, `GetOptionalFields` (the three `find`
  passes), `CollectColumn` (one element of the `filter`/`map`/`collect`
  pass, which returns at the first error), `ColumnsDone` and
  `GetMaintainers`. `ColumnFromTag`, `ColorFromStr` and `ColorToString` are
  `KanbanColumnDefinition::try_from`, `Color::from_str` and
  `Color::to_string`. `str::to_lowercase`, `starts_with('#')` and
  `PublicKey::from_hex` are the constants `LowerCase`, `HashPrefixed` and
  `PubKeyFromHex`.
* `KanbanBoardSpec.tla` states spec.md 4.3/4.4 declaratively.
* `KanbanTracker.tla` composes `Tracker` with the kanban payload. The steps
  of `Tracker::try_from` run up to the payload. `StartPayload` then computes
  the status and the rank and calls `TaskMetadata::try_from`. That call is
  an instance `TD` of `TaskDecoder` over variables of its own (`mdEvent`,
  `mdPc`, ...). `PayloadStep` is one iteration of its loop, and
  `FinishPayload` maps its error to `CannotGetWorkflowSpecificData` or builds
  the tracker. `SpecKanbanTrackerData` (in `KanbanTrackerData.tla`) is
  spec.md 4.6 written declaratively, with `SpecRank` taking the first `rank`
  tag only.

## 4. Runs

| run | cfg | checks | result |
|---|---|---|---|
| task_decoder | `MCTaskDecoder.cfg` | `TypeOK`, `DecodeRefinement` | pass, 110,599 states |
| metadata_round_trip | `MCTaskLifecycle.cfg` | `MetadataRoundTrip` | pass, 375,008 states |
| task_round_trip | `MCTaskRoundTrip.cfg` | `TaskRoundTrip` | violation (code bug) |
| tracker_decoder | `MCTracker.cfg` | `TypeOK`, `TrackerRefinement` | pass, 201,413 states |
| tracker_a_tags | `MCTrackerATag.cfg` | `ReferencesAreATags` | violation (divergence) |
| board_decoder | `MCKanbanBoard.cfg` | `TypeOK`, `ColorRoundTrip`, `BoardRefinement` | pass, 226,807 states |
| kanban_tracker | `MCKanbanTracker.cfg` | `KanbanTrackerRefinement` | pass, 831,769 states |
| unit_tests | `MCTaskTests.cfg` | `EncodeTestsHold` | pass, 394 states |
| hashtag_round_trip | `MCHashtagRoundTrip.cfg` | `HashtagRoundTrip` | violation (spec gap) |

`kanban_tracker` is the composed check. It covers the tracker's steps, the
payload's status and first-rank rule, and the metadata loop reading all of
the tracker's tags. They are checked against the declarative decoders of
spec.md 4.1, 4.5 and 4.6.

**Bounds.** `MCTaskDecoder` decodes every tag list of up to 3 tags drawn from
22 tags, one for each branch of the loop body, plus:

* repeated kinds (two titles);
* a URL that normalises;
* a timestamp with a leading zero;
* a bech32 key;
* empty and custom roles;
* a key that does not parse;
* `d` tags with and without content;
* an unknown kind.

This gives 22,310 events, decoded both by `Task::try_from` and by
`TaskMetadata::try_from`. Three tags are enough for the orderings the
properties distinguish: two tags of the same kind with a third around them,
or a malformed value before or after a valid one.

`MCTaskLifecycle` makes up to 3 builder calls with two values per argument
and six roles. The roles are the three presets, `Custom("x")`,
`Custom("client")` and `Custom("")`. Three calls are enough to repeat a
setter, mix hashtags and users, and reach every value that spec.md 3 says
reads back differently. `MetadataRoundTrip` compares the decoded metadata
with `Expected`, which is what spec.md 3 says the encoding reads back as:
`archived(false)` reads back as absent, and a custom role named `""`,
`"assignee"` or `"client"` reads back as None, Assignee or Client. A mutant
that reads `"client"` as Assignee is caught.

`MCTracker` decodes every tracker event of up to 4 tags drawn from 12 tags:
* references labelled `tracked_item` (two of them) and `workflow`;
* a malformed reference and an unlabelled one;
* a `t` tag shaped like a reference;
* `d` tags with and without a value;
* a rank that parses, and one past `u32::MAX`;
* a malformed image, which makes the payload fail;
* a `p` tag.

Contents are empty (`Defer`) or a column id, and one event has the wrong
kind. Four tags are enough to put a workflow reference before the tracked
item, a malformed reference before a good one, and an identifier around
them.

`MCKanbanBoard` decodes every board event of up to 4 tags drawn from 15
tags:
* identifiers with and without a value;
* repeated titles;
* columns with an upper-case preset, a hex colour, an unknown colour and no
  colour;
* columns without a label or without content;
* hex, bech32 and malformed `p` keys.

`MCKanbanTracker` decodes every tracker event of up to 5 tags drawn from
9 tags:
* an identifier;
* a tracked item, a workflow and a malformed workflow reference;
* a rank past `u32::MAX`, one that parses and one without a value;
* a malformed image;
* a user.

Five tags are needed to hold the three tags every successful tracker needs
plus two ranks. With two ranks the first one can be invalid and the second
valid, which is where "first match" and "first valid match" differ.

`MCTaskTests` runs the five encoding tests with every title, hashtag,
timestamp and key of the MC sets in place of the test's literal (five
builder calls at most). `unit_tests` checks the tag layout
the round trip cannot see: a mutant that pushes `""` as the role of
`TaskUserRole::None` passes `MetadataRoundTrip` (the decoder reads `""`
back as None) but fails `EncodeTestsHold`.

`MCHashtagRoundTrip` runs the same model with the hashtags `"a"` and
`"B"`. `MetadataRoundTrip` only covers metadata whose hashtags
`Tag::hashtag` leaves unchanged (`HashtagsKept`).

`MCTaskLifecycle` starts from either `Task::new` with the `Task` builder,
or `TaskMetadata::new` with the `TaskMetadata` builder.

**Findings.**

* `Task::to_event_builder` (nipxxa.rs:305-314) never adds the `d` tag. Every
  event it builds therefore fails `Task::try_from` with `MissingIdentifier`.
  The five encoding unit tests all expect `["d", id]` as the first tag,
  and `test_try_from_event` unwraps `Task::try_from` of such an event, so
  these six tests fail against the code. Apart from the identifier tag,
  every tag list the tests assert is what the encoder emits (`unit_tests`).
* `parse_a_tag` (nipxxe.rs:129) never checks the tag kind. A hashtag
  `["t", "1:k1:x", "workflow"]` becomes the tracker's workflow, and the same
  tag is also read as a hashtag of the payload's metadata.
* `Into<Tags>` (nipxxa.rs:220) emits hashtags through `Tag::hashtag`, which
  in the nostr crate writes them in lower case. The model takes this
  external behaviour as the table `HashtagFormat` (`MCHashtagFormat` is
  lowercasing). `add_tag("B")` is stored as `"B"` and decodes as `"b"`,
  while spec.md 8 puts no restriction on hashtags.

**Fairness.** None is assumed, and no liveness property is checked. Each
decoder is a synchronous function made of loops over the event's finite tag
list, so every call returns whatever the loop bodies do. A termination
property would hold by the shape of the code and say nothing about it.

The final states of a call have no successor, which is why the configs say
`CHECK_DEADLOCK FALSE`.

## 5. Not modelled

* The Display impls, because they only format messages. The error enums
  are modelled as sets of variants.
* Signing and `EventBuilder` internals, which are external.
* How `Tag::hashtag` lowercases, which is external. The model takes it as
  the table `HashtagFormat`.
* Integer widths of u64 timestamps. Overflowing strings are modelled as
  strings that do not parse.
