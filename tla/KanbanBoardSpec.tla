--------------------------- MODULE KanbanBoardSpec ---------------------------
(***************************************************************************)
(* What decoding a kanban board promises (spec.md 3, 4.3, 4.4 and 7),     *)
(* stated declaratively and performed as one atomic step.                 *)
(*                                                                         *)
(*  - errors in order: wrong kind, missing identifier, the first malformed *)
(*    column in tag order, no column at all;                              *)
(*  - title, description and alt from the first tag of their kind;       *)
(*  - every "col" tag is a column, in tag order;                           *)
(*  - the maintainers are the hex keys of the "p" tags, or the author     *)
(*    alone when there is none.                                           *)
(***************************************************************************)
EXTENDS NostrTags, SequencesExt

CONSTANTS LowerCase, HashPrefixed, PubKeyFromHex

VARIABLES event, called, result

vars == <<event, called, result>>

NoEvent == [kind |-> "none", pubkey |-> "none", tags |-> << >>]

\* spec.md 4.4: case-insensitive preset names, else '#...' as Hex, else none.
SpecColor(s) ==
  IF LowerCase[s] \in {"red", "orange", "yellow", "green", "cyan", "blue", "purple", "gray"}
  THEN Some([variant |-> LowerCase[s], hex |-> ""])
  ELSE IF s \in HashPrefixed THEN Some([variant |-> "hex", hex |-> s]) ELSE NoValue

\* spec.md 4.3, column decode: content is the id, the second positional
\* value the label, the third, if present, a colour.
ColumnError(t) ==
  IF Len(t) < 2 THEN "missing tag content" ELSE "No label"

WellFormedColumn(t) == Len(t) >= 3

SpecColumn(t) ==
  [id |-> t[2], label |-> t[3],
   color |-> IF Len(t) >= 4 THEN SpecColor(t[4]) ELSE NoValue]

FirstOf(tags, kind) ==
  LET f == SelectInSeq(tags, LAMBDA t : KindOf(t) = kind)
  IN IF f = 0 \/ Len(tags[f]) < 2 THEN NoValue ELSE Some(tags[f][2])

DecodeBoard(ev) ==
  LET cols == SelectSeq(ev.tags, LAMBDA t : KindOf(t) = "col")
      bad == SelectInSeq(cols, LAMBDA t : ~WellFormedColumn(t))
      ps == SelectSeq(ev.tags, LAMBDA t : Len(t) >= 2 /\ KindOf(t) = "p"
                                           /\ IsSome(PubKeyFromHex[t[2]]))
      keys == [n \in 1..Len(ps) |-> Unwrap(PubKeyFromHex[ps[n][2]])]
  IN CASE ev.kind # "KanbanBoard" -> Err("not a kanban board")
       [] FirstOf(ev.tags, "d") = NoValue -> Err("missing d tag")
       [] bad # 0 -> Err(ColumnError(cols[bad]))
       [] cols = << >> -> Err("must have at least one column")
       [] OTHER ->
            Ok([id |-> Unwrap(FirstOf(ev.tags, "d")),
                title |-> FirstOf(ev.tags, "title"),
                description |-> FirstOf(ev.tags, "description"),
                alt |-> FirstOf(ev.tags, "alt"),
                columns |-> [n \in 1..Len(cols) |-> SpecColumn(cols[n])],
                pubkey |-> IF keys = << >> THEN <<ev.pubkey>> ELSE keys])

-----------------------------------------------------------------------------
Init == event = NoEvent /\ called = FALSE /\ result = Pending

Call == ~called /\ called' = TRUE /\ UNCHANGED result

Return ==
  /\ called /\ result = Pending /\ result' # Pending
  /\ result' = DecodeBoard(event)
  /\ UNCHANGED <<event, called>>

Spec == Init /\ [][Call \/ Return]_vars

=============================================================================
