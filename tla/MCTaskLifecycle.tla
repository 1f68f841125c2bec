-------------------------- MODULE MCTaskLifecycle ---------------------------
(***************************************************************************)
(* Model of TaskLifecycle for TLC: up to MaxCalls builder calls on a task *)
(* with or without an identifier, then either terminal conversion.        *)
(***************************************************************************)
EXTENDS TaskLifecycle, MCPrimitives

MCIds == {"", "T1"}
MCDescriptions == {"", "d"}
MCTitles == {"a", "b"}
MCHashtags == {"a", "b"}
\* a hashtag with an upper-case letter, as a client may pass it
MCMixedCaseHashtags == {"a", "B"}
\* the presets, a custom role, and custom strings that collide with a
\* preset name or with the empty string
MCBuilderRoles == {RoleNone, RoleAssignee, RoleClient,
                   RoleCustom("x"), RoleCustom("client"), RoleCustom("")}
MCMaxCalls == 3

=============================================================================
