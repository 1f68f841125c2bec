---------------------------- MODULE TaskCodecSpec ---------------------------
(***************************************************************************)
(* The results the task decoders must produce (spec.md 3, 4.1, 4.2, 7),    *)
(* written declaratively from the specification, not from the code:       *)
(*                                                                         *)
(*  - unrecognised tag kinds are ignored;                                 *)
(*  - title, image, published_at, due_at: the last tag carrying a value   *)
(*    wins;                                                                *)
(*  - the first malformed image or timestamp, in tag order, is the error, *)
(*    carrying the raw string;                                             *)
(*  - archived is Some(true) iff an "archived" tag is present;             *)
(*  - hashtags and users keep tag order and duplicates; users whose key   *)
(*    does not parse are dropped; the third value is the role.            *)
(***************************************************************************)
EXTENDS TaskMetadata, SequencesExt

HasValue(k, t) == KindOf(t) = k /\ IsSome(Content(t))

\* The value of the last tag of kind k that carries one, parsed by P.
LastValue(tags, k, P(_)) ==
  LET n == SelectLastInSeq(tags, LAMBDA t : HasValue(k, t))
  IN IF n = 0 THEN NoValue ELSE P(Unwrap(Content(tags[n])))

Malformed(t) ==
  /\ IsSome(Content(t))
  /\ \/ KindOf(t) = "image" /\ UrlParse[Unwrap(Content(t))] = NoValue
     \/ KindOf(t) \in {"published_at", "due_at"} /\ U64Parse[Unwrap(Content(t))] = NoValue

MalformedError(t) ==
  [kind |-> IF KindOf(t) = "image" THEN "InvalidUrl" ELSE "InvalidTimestamp",
   raw |-> Unwrap(Content(t))]

\* The role grammar of spec.md 3: absent or empty is None, the two preset
\* names map to their variants, anything else is Custom.
SpecRole(o) ==
  LET s == IF o = NoValue THEN "" ELSE Unwrap(o)
  IN IF s = "" THEN RoleNone
     ELSE IF s \in {"assignee", "client"}
          THEN [variant |-> IF s = "assignee" THEN "Assignee" ELSE "Client", custom |-> ""]
          ELSE RoleCustom(s)

IsUserTag(t) == HasValue("p", t) /\ IsSome(PubKeyParse[Unwrap(Content(t))])

DecodeMetadata(tags) ==
  LET bad == SelectInSeq(tags, Malformed)
      hashtags == SelectSeq(tags, LAMBDA t : HasValue("t", t))
      users == SelectSeq(tags, IsUserTag)
  IN IF bad # 0 THEN Err(MalformedError(tags[bad]))
     ELSE Ok([title |-> LastValue(tags, "title", Some),
              image |-> LastValue(tags, "image", LAMBDA s : UrlParse[s]),
              published_at |-> LastValue(tags, "published_at", LAMBDA s : U64Parse[s]),
              due_at |-> LastValue(tags, "due_at", LAMBDA s : U64Parse[s]),
              archived |-> IF \E n \in 1..Len(tags) : KindOf(tags[n]) = "archived"
                           THEN Some(TRUE) ELSE NoValue,
              tags |-> [n \in 1..Len(hashtags) |-> Unwrap(Content(hashtags[n]))],
              users |-> [n \in 1..Len(users) |->
                           <<Unwrap(PubKeyParse[Unwrap(Content(users[n]))]),
                             SpecRole(Get(users[n], 2))>>]])

\* A task event: the right kind, an identifier, then the metadata.
DecodeTask(ev) ==
  LET d == SelectInSeq(ev.tags, LAMBDA t : HasValue("d", t))
      md == DecodeMetadata(ev.tags)
  IN CASE ev.kind # "Task" -> Err([kind |-> "WrongKind", actual |-> ev.kind])
       [] d = 0 -> Err([kind |-> "MissingIdentifier"])
       [] md.status = "err" -> md
       [] OTHER -> Ok([id |-> Unwrap(Content(ev.tags[d])),
                       description |-> ev.content,
                       metadata |-> md.value])

Decode(md, ev) == IF md = "task" THEN DecodeTask(ev) ELSE DecodeMetadata(ev.tags)

=============================================================================
