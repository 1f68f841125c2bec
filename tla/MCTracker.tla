------------------------------ MODULE MCTracker ------------------------------
(***************************************************************************)
(* Model of Tracker for TLC as KanbanTracker = Tracker<KanbanSpecific-     *)
(* TrackerData>: every tracker event with at most MaxTags tags drawn from *)
(* TagAlphabet and a content that is empty (Defer) or a column id, and   *)
(* one event of another kind.                                              *)
(***************************************************************************)
EXTENDS Tracker, KanbanTrackerData, MCPrimitives

MaxTags == 4       \* bound on the length of a tag list

\* References with each label, a second tracked_item, a malformed and an
\* unlabelled reference, a non-"a" tag whose second value is a
\* coordinate, identifiers with and without a value, ranks that parse and
\* one past u32::MAX, and a malformed image for the metadata part.
TagAlphabet ==
  { <<"a", "1:k1:x", "tracked_item">>, <<"a", "1:k2:y", "tracked_item">>,
    <<"a", "1:k2:y", "workflow">>, <<"a", "bad", "workflow">>, <<"a", "1:k1:x">>,
    <<"t", "1:k1:x", "workflow">>,
    <<"d", "a">>, <<"d">>,
    <<"rank", "03">>, <<"rank", "4294967296">>,
    <<"image", "bad">>, <<"p", "k1hex">> }

Events ==
  [kind : {"Tracker"}, content : {"", "todo"}, tags : SeqOf(TagAlphabet, MaxTags)]
  \cup {[kind |-> "Task", content |-> "", tags |-> << >>]}

MCNext ==
  \/ pc = "idle" /\ \E ev \in Events : Call(ev)
  \/ Step

MCSpec == Init /\ [][MCNext]_vars

=============================================================================
