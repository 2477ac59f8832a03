-------------------------------- MODULE Paths --------------------------------
(***************************************************************************)
(* How the names of a bucket and an object become the path of a URL        *)
(* (createRequest) and how forwardObject takes them out of a path again.   *)
(*                                                                         *)
(* A string is the sequence of the texts between its slashes, so that      *)
(* "/b//o" is << "", "b", "", "o" >>, and a text is a sequence of          *)
(* characters.  An escaped "%" is one character of the model, with the     *)
(* number of its escapes: "%25" has one, "%2525" two.                      *)
(***************************************************************************)
EXTENDS Naturals, Sequences, FiniteSets

CONSTANTS Glyphs, Special    \* Special: those that Escaper::encode replaces

Characters == [glyph : Glyphs, escapes : Nat]
Texts      == Seq(Characters)
Strings    == Seq(Texts) \ {<< >>}

Empty == << >>    \* the text without characters

(* Escaper::encode (external). *)
EscapeOnce(char) == IF char.glyph \in Special THEN [char EXCEPT !.escapes = @ + 1] ELSE char
Escape(text) == [i \in DOMAIN text |-> EscapeOnce(text[i])]

(* What the store takes the texts of a path for (external). *)
UnescapeOnce(char) == IF char.escapes > 0 THEN [char EXCEPT !.escapes = @ - 1] ELSE char
Unescape(text) == [i \in DOMAIN text |-> UnescapeOnce(text[i])]

(* What a text is in the URL: of a character, the byte it was, and two     *)
(* more for each of its escapes.                                           *)
Bytes(text) == UNION {{i} \X (0..2 * text[i].escapes) : i \in DOMAIN text}
Size(text)  == Cardinality(Bytes(text))

(* A mutant: the limit itself is taken for too long. *)
CheckBucketNameBelow(name) == Size(name) >= 3 /\ Size(name) < 63

(* The check of createRequest before it puts the bucket into the path.     *)
CheckBucketName(name) == Size(name) \in 3..63

(* The elements of s at the positions in S, in their order. *)
Pick(s, S) ==
  LET Nth(k) == CHOOSE i \in S : Cardinality({j \in S : j <= i}) = k
  IN  [k \in 1..Cardinality(S) |-> s[Nth(k)]]

(* StringUtils::split at "/" (external): no empty text at either end; one  *)
(* in the middle may be kept or not.                                       *)
Kept(s, keepsEmpty) ==
  LET full == {i \in DOMAIN s : s[i] # Empty}
  IN  IF keepsEmpty THEN {i \in DOMAIN s : \E j, k \in full : j <= i /\ i <= k} ELSE full

Split(s, keepsEmpty) == Pick(s, Kept(s, keepsEmpty))

EndsWithSlash(s) == Len(s) > 1 /\ s[Len(s)] = Empty

(* addEncodedPathSegment for each segment, after the URL of the store.     *)
PathOf(segments) == <<Empty>> \o [i \in DOMAIN segments |-> Escape(segments[i])]

(* A mutant: the fix of issue #648 is not there. *)
EncodedPathWithoutFix(bucketName, objectName, keepsEmpty) ==
  PathOf(<<bucketName>> \o Split(objectName, keepsEmpty))

(* The path of a request; a slash at the end of the name is preserved.     *)
EncodedPath(bucketName, objectName, keepsEmpty) ==
  LET path == PathOf(<<bucketName>> \o Split(objectName, keepsEmpty))
  IN  IF EndsWithSlash(objectName) THEN Append(path, Empty) ELSE path
=============================================================================
