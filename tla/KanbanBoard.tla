----------------------------- MODULE KanbanBoard -----------------------------
(***************************************************************************)
(* KanbanBoard::try_from(&Event) (nipxxc.rs) as a state machine, with     *)
(* KanbanColumnDefinition::try_from(&Tag) and Color::from_str/to_string   *)
(* as operators.  The decoder is a chain of independent passes over the   *)
(* tags; the column pass (filter, map, collect into Result) stops at the  *)
(* first malformed column and takes one step per tag, the others are one  *)
(* step each.                                                              *)
(*                                                                         *)
(*   pc = "idle" -> "kind" -> "identifier" -> "optional" -> "columns" ->   *)
(*        "maintainers" -> "done"                                          *)
(***************************************************************************)
EXTENDS NostrTags, SequencesExt

CONSTANTS
  LowerCase,     \* str::to_lowercase     : [Str -> Str]
  HashPrefixed,  \* the strings s with s.starts_with('#')
  PubKeyFromHex  \* PublicKey::from_hex   : [Str -> Option(PubKeys)]

ASSUME LowerCase \in [Str -> Str]
ASSUME HashPrefixed \subseteq Str
ASSUME PubKeyFromHex \in [Str -> Option(PubKeys)]

VARIABLES
  event,    \* the &Event: kind, pubkey (the author) and tags
  pc,       \* control state, see above
  k,        \* index of the column pass into event.tags
  board,    \* the fields decoded so far
  result    \* Pending, or the Result returned

vars == <<event, pc, k, board, result>>

(***************************************************************************)
(* Color: eight presets and Hex(String).                                   *)
(***************************************************************************)
Presets == {"red", "orange", "yellow", "green", "cyan", "blue", "purple", "gray"}
Preset(name) == [variant |-> name, hex |-> ""]
Hex(s) == [variant |-> "hex", hex |-> s]

\* Color::from_str: the lowercased string against the preset names, then a
\* string starting with '#' as Hex of the original string, else None.
ColorFromStr(s) ==
  CASE LowerCase[s] \in Presets -> Some(Preset(LowerCase[s]))
    [] s \in HashPrefixed       -> Some(Hex(s))
    [] OTHER                    -> NoValue

\* Mutant: Color::Gray is written "grey".
ColorToStringGrey(c) ==
  CASE c.variant = "hex"  -> c.hex
    [] c.variant = "gray" -> "grey"
    [] OTHER              -> c.variant

\* Color::to_string: the preset's name, or the stored hex string.
ColorToString(c) == IF c.variant = "hex" THEN c.hex ELSE c.variant

(***************************************************************************)
(* KanbanColumnDefinition::try_from(&Tag): the kind must be "col"; the    *)
(* content is the id ("missing tag content"), index 2 the label ("No      *)
(* label"), index 3, if present, a Color (unparseable: None).              *)
(***************************************************************************)
ColumnFromTag(t) ==
  CASE KindOf(t) # "col"   -> Err("not color tag")
    [] Content(t) = NoValue -> Err("missing tag content")
    [] Get(t, 2) = NoValue  -> Err("No label")
    [] OTHER -> Ok([id |-> Unwrap(Content(t)), label |-> Unwrap(Get(t, 2)),
                    color |-> IF Get(t, 3) = NoValue THEN NoValue
                              ELSE ColorFromStr(Unwrap(Get(t, 3)))])

\* tags.iter().find(kind == kind).and_then(content): the content of the
\* first tag of that kind, if it has one.
FirstContent(tags, kind) ==
  LET f == SelectInSeq(tags, LAMBDA t : KindOf(t) = kind)
  IN IF f = 0 THEN NoValue ELSE Content(tags[f])

\* The p tags' contents that PublicKey::from_hex accepts, in tag order.
HexMaintainers(tags) ==
  LET ps == SelectSeq(tags, LAMBDA t : KindOf(t) = "p" /\ IsSome(Content(t))
                                       /\ IsSome(PubKeyFromHex[Unwrap(Content(t))]))
  IN [n \in 1..Len(ps) |-> Unwrap(PubKeyFromHex[Unwrap(Content(ps[n]))])]

NoEvent == [kind |-> "none", pubkey |-> "none", tags |-> << >>]
NoBoard == [id |-> "", title |-> NoValue, description |-> NoValue, alt |-> NoValue,
            columns |-> << >>, pubkey |-> << >>]

Return(r) == result' = r /\ pc' = "done"

-----------------------------------------------------------------------------
\* Mutant: the column pass starts at index 0 (a zero-based index).
CallZeroBased(ev) ==
  /\ pc = "idle"
  /\ event' = ev /\ pc' = "kind" /\ k' = 0 /\ board' = NoBoard
  /\ UNCHANGED result

Call(ev) ==
  /\ pc = "idle"
  /\ event' = ev /\ pc' = "kind" /\ k' = 1 /\ board' = NoBoard
  /\ UNCHANGED result

\* if value.kind != Kind::KanbanBoard { return Err(..) }
VerifyKind ==
  /\ pc = "kind"
  /\ \/ event.kind # "KanbanBoard" /\ Return(Err("not a kanban board"))
     \/ event.kind = "KanbanBoard" /\ pc' = "identifier" /\ UNCHANGED result
  /\ UNCHANGED <<event, k, board>>

\* The first "d" tag's content, or the missing 'd' tag error.
GetIdentifier ==
  LET d == FirstContent(event.tags, "d") IN
  /\ pc = "identifier"
  /\ \/ d = NoValue /\ Return(Err("missing d tag")) /\ UNCHANGED board
     \/ IsSome(d) /\ board' = [board EXCEPT !.id = Unwrap(d)] /\ pc' = "optional"
        /\ UNCHANGED result
  /\ UNCHANGED <<event, k>>

\* title, description and alt: each the content of the first tag of its kind.
GetOptionalFields ==
  /\ pc = "optional"
  /\ board' = [board EXCEPT !.title = FirstContent(event.tags, "title"),
                            !.description = FirstContent(event.tags, "description"),
                            !.alt = FirstContent(event.tags, "alt")]
  /\ pc' = "columns"
  /\ UNCHANGED <<event, k, result>>

\* Mutant: a malformed column is skipped instead of failing the board.
CollectColumnSkipMalformed ==
  LET t == event.tags[k]
      c == ColumnFromTag(t)
  IN /\ pc = "columns" /\ k <= Len(event.tags)
     /\ \/ (KindOf(t) # "col" \/ c.status = "err") /\ k' = k + 1
           /\ UNCHANGED <<board, pc, result>>
        \/ KindOf(t) = "col" /\ c.status = "ok"
           /\ board' = [board EXCEPT !.columns = Append(@, c.value)]
           /\ k' = k + 1 /\ UNCHANGED <<pc, result>>
     /\ UNCHANGED event

\* One element of the column pass: a non-"col" tag is filtered out; a
\* "col" tag is decoded, and collect() returns its error at once.
CollectColumn ==
  LET t == event.tags[k]
      c == ColumnFromTag(t)
  IN /\ pc = "columns" /\ k <= Len(event.tags)
     /\ \/ KindOf(t) # "col" /\ k' = k + 1 /\ UNCHANGED <<board, pc, result>>
        \/ KindOf(t) = "col" /\ c.status = "ok"
           /\ board' = [board EXCEPT !.columns = Append(@, c.value)]
           /\ k' = k + 1 /\ UNCHANGED <<pc, result>>
        \/ KindOf(t) = "col" /\ c.status = "err" /\ Return(c) /\ UNCHANGED <<k, board>>
     /\ UNCHANGED event

\* After the pass: at least one column is required.
ColumnsDone ==
  /\ pc = "columns" /\ k > Len(event.tags)
  /\ \/ board.columns = << >> /\ Return(Err("must have at least one column"))
     \/ board.columns # << >> /\ pc' = "maintainers" /\ UNCHANGED result
  /\ UNCHANGED <<event, k, board>>

\* The maintainers, defaulting to the author, and Ok(board).
GetMaintainers ==
  LET pks == HexMaintainers(event.tags) IN
  /\ pc = "maintainers"
  /\ board' = [board EXCEPT !.pubkey = IF pks = << >> THEN <<event.pubkey>> ELSE pks]
  /\ Return(Ok(board'))
  /\ UNCHANGED <<event, k>>

-----------------------------------------------------------------------------
Init ==
  /\ event = NoEvent
  /\ pc = "idle"
  /\ k = 1
  /\ board = NoBoard
  /\ result = Pending

Step ==
  \/ VerifyKind \/ GetIdentifier \/ GetOptionalFields
  \/ CollectColumn \/ ColumnsDone \/ GetMaintainers

-----------------------------------------------------------------------------
TypeOK ==
  /\ pc \in {"idle", "kind", "identifier", "optional", "columns", "maintainers", "done"}
  /\ k \in 1..Len(event.tags) + 1
  /\ board.columns \in Seq([id : Str, label : Str, color : Option([variant : Presets \cup {"hex"}, hex : Str])])
  /\ result.status \in {"pending", "ok", "err"}

(***************************************************************************)
(* Refinement: the passes of KanbanBoard::try_from, the column pass with  *)
(* its early return included, return exactly DecodeBoard of               *)
(* KanbanBoardSpec: at least one column, a single malformed column fails  *)
(* the board with the first column error, the author is a maintainer     *)
(* exactly when no hex key is declared.                                   *)
(***************************************************************************)
Abstract == INSTANCE KanbanBoardSpec WITH
  called <- pc # "idle",
  result <- IF pc = "done" THEN result ELSE Pending

BoardRefinement == Abstract!Spec

(***************************************************************************)
(* Every colour of a decoded board survives Color::to_string followed by  *)
(* Color::from_str (spec.md 4.4: encode is the exact inverse for presets, *)
(* Hex keeps its stored string).                                          *)
(***************************************************************************)
ColorRoundTrip ==
  pc = "done" /\ result.status = "ok" =>
    \A n \in 1..Len(result.value.columns) :
      LET c == result.value.columns[n].color
      IN IsSome(c) => ColorFromStr(ColorToString(Unwrap(c))) = c

=============================================================================
