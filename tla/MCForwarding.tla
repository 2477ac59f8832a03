---------------------------- MODULE MCForwarding ----------------------------
(***************************************************************************)
(* Values for the constants of Forwarding: a letter and a character to     *)
(* escape; names of up to four texts of up to two characters; buckets     *)
(* that are too short, that every proxy takes, and that the second or the  *)
(* first proxy or nobody takes.                                            *)
(***************************************************************************)
EXTENDS Forwarding, SequencesExt

MCGlyphs  == {"a", "%"}
MCSpecial == {"%"}
Raw(glyph) == [glyph |-> glyph, escapes |-> 0]
RawChars   == {Raw(glyph) : glyph \in MCGlyphs}

ShortNames == BoundedSeq(BoundedSeq(RawChars, 2), 4) \ {<< >>}
SmallNames == BoundedSeq(BoundedSeq(RawChars, 1), 2) \ {<< >>}

Plain(n)   == [i \in 1..n |-> Raw("a")]
Percent(n) == Append(Plain(n - 1), Raw("%"))
Lengths    == {Percent(2), Plain(3), Percent(3), Percent(60), Percent(62), Plain(63), Percent(64)}

OneName      == {<<Plain(1)>>}
PlainBucket  == {Plain(3)}
LongBucket   == {Percent(60)}
=============================================================================
