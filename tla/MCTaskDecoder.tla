--------------------------- MODULE MCTaskDecoder ----------------------------
(***************************************************************************)
(* Model of TaskDecoder for TLC: every event whose tag list has at most   *)
(* MaxTags tags drawn from TagAlphabet, of kind Task or TextNote, decoded  *)
(* by Task::try_from and by TaskMetadata::try_from.                        *)
(***************************************************************************)
EXTENDS TaskDecoder, MCPrimitives

MaxTags == 3       \* bound on the length of a tag list

\* One tag for every branch of the loop body.
TagAlphabet ==
  { <<"title", "a">>, <<"title", "b">>, <<"title">>,
    <<"image", "https://h">>, <<"image", "bad">>, <<"image">>,
    <<"published_at", "05">>, <<"published_at", "-1">>, <<"due_at", "7">>, <<"due_at">>,
    <<"archived">>, <<"archived", "false">>,
    <<"t", "a">>, <<"t">>,
    <<"p", "k1hex">>, <<"p", "npub1k1", "assignee">>, <<"p", "k2hex", "">>,
    <<"p", "k2hex", "x">>, <<"p", "bad", "client">>,
    <<"d", "a">>, <<"d">>, <<"x", "a">> }

Events == [kind : {"Task", "TextNote"}, content : {"c"}, tags : SeqOf(TagAlphabet, MaxTags)]

MCNext ==
  \/ pc = "idle" /\ \E ev \in Events : Call(ev, "task")
  \* the kind of the event plays no part in TaskMetadata::try_from
  \/ pc = "idle" /\ \E ev \in Events : ev.kind = "Task" /\ Call(ev, "metadata")
  \/ Step

MCSpec == Init /\ [][MCNext]_vars

=============================================================================
