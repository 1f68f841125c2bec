---------------------------- MODULE MCKanbanBoard ----------------------------
(***************************************************************************)
(* Model of KanbanBoard for TLC: every board event of at most MaxTags      *)
(* tags drawn from TagAlphabet, authored by K2, and one event of another  *)
(* kind.                                                                   *)
(***************************************************************************)
EXTENDS KanbanBoard, MCPrimitives

MaxTags == 4       \* bound on the length of a tag list

MCHashPrefixed == {"#FF0000", "#ff0000"}
\* PublicKey::from_hex: hex keys only, bech32 rejected.
MCPubKeyFromHex == [s \in MCStr |-> CASE s = "k1hex" -> Some(K1)
                                      [] s = "k2hex" -> Some(K2)
                                      [] OTHER -> NoValue]

\* Identifiers with and without a value, repeated titles, columns with a
\* preset in upper case, a hex colour, an unknown colour, no colour, and
\* without label or content, hex, bech32 and malformed keys.
TagAlphabet ==
  { <<"d", "a">>, <<"d">>, <<"title", "a">>, <<"title", "b">>, <<"alt", "x">>,
    <<"col", "a", "b", "Red">>, <<"col", "b", "x", "#FF0000">>, <<"col", "a", "b", "x">>,
    <<"col", "b", "a", "GRAY">>, <<"col", "a", "b">>, <<"col", "a">>, <<"col">>,
    <<"p", "k1hex">>, <<"p", "npub1k1">>, <<"p", "bad">> }

Events ==
  [kind : {"KanbanBoard"}, pubkey : {K2}, tags : SeqOf(TagAlphabet, MaxTags)]
  \cup {[kind |-> "Task", pubkey |-> K2, tags |-> << >>]}

MCNext ==
  \/ pc = "idle" /\ \E ev \in Events : Call(ev)
  \/ Step

MCSpec == Init /\ [][MCNext]_vars

=============================================================================
