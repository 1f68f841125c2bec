--------------------------- MODULE MCKanbanTracker ---------------------------
(***************************************************************************)
(* Model of KanbanTracker for TLC, with the fairness of a call that runs  *)
(* to its return.  The tags are those that reach the payload: an          *)
(* identifier and the two references, so that both scans succeed, and    *)
(* then ranks and metadata tags for the payload; five tags hold the       *)
(* three a tracker needs and two ranks.                                   *)
(***************************************************************************)
EXTENDS KanbanTracker, MCPrimitives

MaxTags == 5       \* bound on the length of a tag list

\* An identifier, references of each label and a malformed one, a rank
\* past u32::MAX, one that parses and one without a value, a malformed
\* image and a user.
TagAlphabet ==
  { <<"d", "a">>, <<"a", "1:k1:x", "tracked_item">>, <<"a", "1:k2:y", "workflow">>,
    <<"a", "bad", "workflow">>,
    <<"rank", "4294967296">>, <<"rank", "03">>, <<"rank">>,
    <<"image", "bad">>, <<"p", "k1hex">> }

Events ==
  [kind : {"Tracker"}, content : {"", "todo"}, tags : SeqOf(TagAlphabet, MaxTags)]

KTNext ==
  \/ pc = "idle" /\ \E ev \in Events : Call(ev) /\ UNCHANGED payloadVars
  \/ KTStep

KTSpec == KTInit /\ [][KTNext]_allVars

=============================================================================
