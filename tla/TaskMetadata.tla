---------------------------- MODULE TaskMetadata ----------------------------
(***************************************************************************)
(* The TaskMetadata record, the TaskUserRole enum with its string          *)
(* conversions, and the encoder TaskMetadata -> Tags (nipxxa.rs).          *)
(* These are pure functions of their input and are modelled as operators.  *)
(***************************************************************************)
EXTENDS NostrTags

(***************************************************************************)
(* TaskUserRole: three named variants and Custom(String).                  *)
(***************************************************************************)
RoleNone == [variant |-> "None", custom |-> ""]
RoleAssignee == [variant |-> "Assignee", custom |-> ""]
RoleClient == [variant |-> "Client", custom |-> ""]
RoleCustom(s) == [variant |-> "Custom", custom |-> s]
Roles == {RoleNone, RoleAssignee, RoleClient} \cup {RoleCustom(s) : s \in Str}

\* TaskUserRole::to_string: None for the None variant, the name otherwise.
RoleToString(r) ==
  CASE r.variant = "None"     -> NoValue
    [] r.variant = "Assignee" -> Some("assignee")
    [] r.variant = "Client"   -> Some("client")
    [] r.variant = "Custom"   -> Some(r.custom)

\* Mutant: "client" is mapped to Assignee (a copied match arm).
RoleFromClientAsAssignee(o) ==
  IF o = NoValue THEN RoleNone
  ELSE CASE Unwrap(o) = "assignee" -> RoleAssignee
         [] Unwrap(o) = "client"   -> RoleAssignee
         [] Unwrap(o) = ""         -> RoleNone
         [] OTHER                  -> RoleCustom(Unwrap(o))

\* impl From<Option<String>> for TaskUserRole.
RoleFrom(o) ==
  IF o = NoValue THEN RoleNone
  ELSE CASE Unwrap(o) = "assignee" -> RoleAssignee
         [] Unwrap(o) = "client"   -> RoleClient
         [] Unwrap(o) = ""         -> RoleNone
         [] OTHER                  -> RoleCustom(Unwrap(o))

(***************************************************************************)
(* TaskMetadata and TaskMetadata::new().                                   *)
(***************************************************************************)
IsMetadata(m) ==
  /\ m.title \in Option(Str)
  /\ m.image \in Option(Urls)
  /\ m.published_at \in Option(Timestamps)
  /\ m.due_at \in Option(Timestamps)
  /\ m.archived \in Option(BOOLEAN)
  /\ m.tags \in Seq(Str)
  /\ m.users \in Seq(PubKeys \X Roles)

NewMetadata ==
  [title |-> NoValue, image |-> NoValue, published_at |-> NoValue,
   due_at |-> NoValue, archived |-> NoValue, tags |-> <<>>, users |-> <<>>]

\* The builder methods of TaskMetadata: each consumes self and returns it
\* with one field set or extended.
WithTitle(m, s) == [m EXCEPT !.title = Some(s)]
WithImage(m, u) == [m EXCEPT !.image = Some(u)]
WithPublishedAt(m, n) == [m EXCEPT !.published_at = Some(n)]
WithDueAt(m, n) == [m EXCEPT !.due_at = Some(n)]
WithArchived(m, b) == [m EXCEPT !.archived = Some(b)]
WithTag(m, s) == [m EXCEPT !.tags = Append(@, s)]
WithTags(m, ss) == [m EXCEPT !.tags = @ \o ss]
WithUser(m, pk, r) == [m EXCEPT !.users = Append(@, <<pk, r>>)]

(***************************************************************************)
(* impl Into<Tags> for TaskMetadata: the fixed field order title, image,   *)
(* published_at, due_at, archived (only when Some(true)), one "t" tag per  *)
(* hashtag, one "p" tag per user, carrying the role string unless it is    *)
(* empty (unwrap_or_default of to_string).                                 *)
(***************************************************************************)
\* The optional tag <<kind, v>> for the (already formatted) option o.
OptionalTag(kind, o) == [k \in DOMAIN o |-> <<kind, o[k]>>]

\* o mapped through the function F (Option::map).
MapOption(o, F) == [k \in DOMAIN o |-> F[o[k]]]

\* Mutant: the role string is always pushed, "" for None.
UserTagEmptyRole(user) ==
  LET pk == PubKeyFormat[user[1]]
      roleStr == IF RoleToString(user[2]) = NoValue THEN ""
                 ELSE Unwrap(RoleToString(user[2]))
  IN <<"p", pk, roleStr>>

UserTag(user) ==
  LET pk == PubKeyFormat[user[1]]
      roleStr == IF RoleToString(user[2]) = NoValue THEN ""
                 ELSE Unwrap(RoleToString(user[2]))
  IN IF roleStr = "" THEN <<"p", pk>> ELSE <<"p", pk, roleStr>>

EncodeMetadata(m) ==
  OptionalTag("title", m.title)
  \o OptionalTag("image", m.image)   \* a Url value is its serialization
  \o OptionalTag("published_at", MapOption(m.published_at, U64Format))
  \o OptionalTag("due_at", MapOption(m.due_at, U64Format))
  \o (IF m.archived = Some(TRUE) THEN << <<"archived", "true">> >> ELSE << >>)
  \o [k \in 1..Len(m.tags) |-> <<"t", HashtagFormat[m.tags[k]]>>]
  \o [k \in 1..Len(m.users) |-> UserTag(m.users[k])]

=============================================================================
