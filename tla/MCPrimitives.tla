---------------------------- MODULE MCPrimitives ----------------------------
(***************************************************************************)
(* Concrete values for the external primitives of NostrTags, shared by    *)
(* the MC modules: a small set of string literals and the tables of the   *)
(* URL, u64 and public-key parsers and formatters over it.               *)
(***************************************************************************)
EXTENDS NostrTags

CONSTANTS K1, K2,  \* two public keys
          C1, C2   \* two coordinates

MCStr == {"title", "image", "published_at", "due_at", "archived", "t", "p", "d", "x",
          "true", "false", "a", "b", "", "https://h", "https://h/", "bad",
          "5", "05", "7", "-1", "k1hex", "npub1k1", "k2hex", "assignee", "client", "T1",
          "1:k1:x", "1:k2:y", "tracked_item", "workflow", "rank", "3", "03", "4294967296",
          "description", "alt", "col", "Red", "red", "GRAY", "gray", "grey", "#FF0000", "#ff0000", "B", "t1"}
MCUrls == {"https://h/"}
\* Url::parse normalises a URL without a path to one ending in "/".
MCUrlParse == [s \in MCStr |-> IF s \in {"https://h", "https://h/"} THEN Some("https://h/")
                                ELSE NoValue]
MCTimestamps == {5, 7}
MCU64Parse == [s \in MCStr |-> CASE s \in {"5", "05"} -> Some(5)
                                  [] s = "7" -> Some(7)
                                  [] OTHER -> NoValue]
MCU64Format == [n \in MCTimestamps |-> IF n = 5 THEN "5" ELSE "7"]
MCPubKeys == {K1, K2}
\* PublicKey::from_str accepts hex and bech32; to_string gives hex.
MCPubKeyParse == [s \in MCStr |-> CASE s \in {"k1hex", "npub1k1"} -> Some(K1)
                                     [] s = "k2hex" -> Some(K2)
                                     [] OTHER -> NoValue]
MCPubKeyFormat == [k \in MCPubKeys |-> IF k = K1 THEN "k1hex" ELSE "k2hex"]

\* Coordinate::from_str of "<kind>:<pubkey>:<identifier>".
MCCoordinates == {C1, C2}
MCCoordinateParse == [s \in MCStr |-> CASE s = "1:k1:x" -> Some(C1)
                                         [] s = "1:k2:y" -> Some(C2)
                                         [] OTHER -> NoValue]
\* parse::<u32>: leading zeros accepted; 2^32 and negatives rejected.
MCRanks == {3}
MCU32Parse == [s \in MCStr |-> IF s \in {"3", "03"} THEN Some(3) ELSE NoValue]

\* str::to_lowercase on the literals that have upper-case letters.
MCLowerCase == [s \in MCStr |-> CASE s = "Red" -> "red"
                                  [] s = "GRAY" -> "gray"
                                  [] s = "#FF0000" -> "#ff0000"
                                  [] s = "B" -> "b"
                                  [] s = "T1" -> "t1"
                                  [] OTHER -> s]
\* Tag::hashtag(s) builds the t tag of s in lower case.
MCHashtagFormat == MCLowerCase

=============================================================================
