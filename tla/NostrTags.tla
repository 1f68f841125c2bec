----------------------------- MODULE NostrTags -----------------------------
(***************************************************************************)
(* The external collaborators the codecs of crates/nostr/src/nips/nipxxa,  *)
(* nipxxc and nipxxe consume: the tag value, optional values and the       *)
(* primitive parsers and formatters (URL, unsigned integers, public keys,  *)
(* coordinates).  None of this is code of the repository; it is stated     *)
(* here as the interface the codecs rely on, with the laws that interface *)
(* is assumed to obey.                                                     *)
(*                                                                         *)
(* A tag is modelled by Tag::to_vec(): a non-empty sequence of strings     *)
(* whose first element is the tag kind.  Strings are drawn from a small    *)
(* set Str of literals.                                                    *)
(***************************************************************************)
EXTENDS Naturals, Sequences

CONSTANTS
  Str,          \* the string literals that can appear in a tag
  Urls,         \* parsed URLs, each given by its serialization
  UrlParse,     \* Url::parse            : [Str -> Option(Urls)]
  Timestamps,   \* the u64 second counts a Timestamp may hold here
  U64Parse,     \* str::parse::<u64>     : [Str -> Option(Nat)]
  U64Format,    \* Timestamp::to_string  : [Timestamps -> Str]
  PubKeys,      \* public keys (model values)
  PubKeyParse,  \* PublicKey::from_str   : [Str -> Option(PubKeys)]
  PubKeyFormat, \* PublicKey::to_string  : [PubKeys -> Str]
  Coordinates,  \* coordinates (model values)
  CoordinateParse, \* Coordinate::from_str : [Str -> Option(Coordinates)]
  Ranks,        \* the u32 values a rank may hold here
  U32Parse,     \* str::parse::<u32>     : [Str -> Option(Ranks)]
  HashtagFormat \* value of Tag::hashtag(s): [Str -> Str]

(***************************************************************************)
(* Option<T> as a sequence of length at most one.                          *)
(***************************************************************************)
NoValue == <<>>
Some(x) == <<x>>
Option(S) == {NoValue} \cup {Some(x) : x \in S}
IsSome(o) == o # NoValue
Unwrap(o) == o[1]

ASSUME Urls \subseteq Str
ASSUME UrlParse \in [Str -> Option(Urls)]
ASSUME DOMAIN U64Parse = Str /\ \A s \in Str : U64Parse[s] \in Option(Timestamps \cup {0})
           \/ Unwrap(U64Parse[s]) \in Nat
ASSUME U64Format \in [Timestamps -> Str]
ASSUME PubKeyParse \in [Str -> Option(PubKeys)]
ASSUME PubKeyFormat \in [PubKeys -> Str]
ASSUME CoordinateParse \in [Str -> Option(Coordinates)]
ASSUME U32Parse \in [Str -> Option(Ranks)]
ASSUME HashtagFormat \in [Str -> Str]

(***************************************************************************)
(* Laws of the primitive types: formatting a parsed value and parsing it  *)
(* again gives the value back (parsing itself may normalise its input).    *)
(***************************************************************************)
ASSUME \A u \in Urls : UrlParse[u] = Some(u)
ASSUME \A n \in Timestamps : U64Parse[U64Format[n]] = Some(n)
ASSUME \A k \in PubKeys : PubKeyParse[PubKeyFormat[k]] = Some(k)

(***************************************************************************)
(* Tag accessors.  Tag::kind() is the first element, Tag::content() the    *)
(* second; Get(t, n) is tag.to_vec().get(n), zero-based as in Rust.        *)
(***************************************************************************)
IsTag(t) == t \in Seq(Str) /\ Len(t) >= 1
KindOf(t) == t[1]
Content(t) == IF Len(t) >= 2 THEN Some(t[2]) ELSE NoValue
Get(t, n) == IF n < Len(t) THEN Some(t[n + 1]) ELSE NoValue

(***************************************************************************)
(* Result<T, E> of a decode call.  "pending" marks a call still running.   *)
(***************************************************************************)
Ok(v) == [status |-> "ok", value |-> v]
Err(e) == [status |-> "err", error |-> e]
Pending == [status |-> "pending"]

=============================================================================
