---------------------------- MODULE Files_proofs ----------------------------
(***************************************************************************)
(* Theorems about readAll, for files of every length and whatever the      *)
(* other processes do.                                                     *)
(***************************************************************************)
EXTENDS Files, SequenceTheorems, TLAPS

(* Two sequences do not differ as far as both go. *)
Agree(s, t) == \A i \in (1..Len(s)) \cap (1..Len(t)) : s[i] = t[i]

(* The reader has been told the size of a file that it opened. *)
Measured == pc \notin {"open", "tellg"} /\ opened # None

(* While nobody wrote to the file in place, what was read of it and what   *)
(* is left of it agree with what it was; it is shorter only when it was    *)
(* cut.                                                                    *)
FileInv ==
  Measured =>
    /\ size = Len(measured)
    /\ changed = "no" => Len(content[opened]) >= Len(measured)
    /\ changed # "rewritten" => Agree(content[opened], measured) /\ Agree(buffer, measured)

(* How far readAll got decides what it knows. *)
ReaderInv ==
  /\ pc = "open" => opened = None
  /\ pc \in {"open", "tellg"} => changed = "no" /\ size = 0
  /\ pc # "over" => result = "none"
  /\ pc \in {"open", "tellg", "allocate"} => buffer = << >>
  /\ pc = "allocate" => (size = -1 <=> opened = None)

Inv == TypeOK /\ ReaderInv /\ FileInv /\ SnapshotUnlessRewritten /\ FailsOnlyForCause

LEMMA Lengths ==
  ASSUME NEW S, NEW s \in Seq(S)
  PROVE  Len(s) \in Nat /\ \A i \in 1..Len(s) : s[i] \in S
BY LenProperties, ElementOfSeq

LEMMA InitInv == Init => Inv
<1> SUFFICES ASSUME Init PROVE Inv
  OBVIOUS
<1>1. content \in [Inodes -> Seq(Bytes)]
  <2>1. BoundedSeq(Bytes, MaxLength) \subseteq Seq(Bytes)
    BY FilesAssumption DEF BoundedSeq, SeqOf
  <2> QED
    BY <2>1 DEF Init
<1>2. << >> \in Seq(Bytes)
  BY EmptySeq
<1>3. TypeOK
  BY <1>1, <1>2 DEF Init, TypeOK
<1> QED
  BY <1>3 DEF Init, Inv, ReaderInv, FileInv, Measured, SnapshotUnlessRewritten, FailsOnlyForCause

(***************************************************************************)
(* The reader                                                              *)
(***************************************************************************)

LEMMA OpenInv == Inv /\ Open => Inv'
BY DEF Inv, Open, files, history, TypeOK, ReaderInv, FileInv, Measured, SnapshotUnlessRewritten,
       FailsOnlyForCause

LEMMA TellGInv == Inv /\ TellG => Inv'
<1> SUFFICES ASSUME Inv, TellG PROVE Inv'
  OBVIOUS
<1> USE DEF Inv, TellG, files, history
<1>1. ASSUME opened # None PROVE content[opened] \in Seq(Bytes) /\ Len(content[opened]) \in Nat
  <2>1. content[opened] \in Seq(Bytes)
    BY <1>1 DEF TypeOK
  <2> QED
    BY <2>1, Lengths
<1>2. /\ size' \in Nat \cup {-1} /\ (size' = -1 <=> opened = None)
      /\ measured' \in Seq(Bytes)
  BY <1>1, EmptySeq
<1>3. TypeOK'
  BY <1>2 DEF TypeOK
<1>4. ReaderInv'
  BY <1>2 DEF ReaderInv
<1>5. FileInv'
  <2>1. CASE opened # None
    <3>1. /\ size' = Len(measured') /\ content'[opened'] = measured' /\ Len(measured') \in Nat
          /\ buffer' = << >>
      BY <1>1, <2>1 DEF ReaderInv
    <3>2. Agree(content[opened], measured)'
      BY <3>1 DEF Agree
    <3>3. Agree(buffer, measured)'
      BY <3>1 DEF Agree
    <3> QED
      BY <3>1, <3>2, <3>3 DEF FileInv
  <2>2. CASE opened = None
    BY <2>2 DEF FileInv, Measured
  <2> QED
    BY <2>1, <2>2
<1> QED
  BY <1>3, <1>4, <1>5 DEF ReaderInv, SnapshotUnlessRewritten, FailsOnlyForCause

LEMMA AllocateInv == Inv /\ Allocate => Inv'
<1> SUFFICES ASSUME Inv, Allocate PROVE Inv'
  OBVIOUS
<1> USE DEF Inv, Allocate, files, history
<1>1. UNCHANGED <<content, opened, size, buffer, measured, changed>> /\ pc = "allocate" /\ result = "none"
  BY DEF ReaderInv
<1>2. FileInv'
  BY <1>1 DEF FileInv, Measured, Agree
<1>3. size # -1 => opened # None /\ size = Len(measured) /\ Len(buffer) <= size
  <2>1. buffer = << >> /\ (size # -1 => opened # None)
    BY <1>1 DEF ReaderInv
  <2>2. size # -1 => size = Len(measured) /\ size \in Nat
    BY <1>1, <2>1 DEF FileInv, Measured, TypeOK
  <2> QED
    BY <2>1, <2>2
<1>4. TypeOK'
  BY <1>3 DEF TypeOK
<1>5. ReaderInv' /\ SnapshotUnlessRewritten' /\ FailsOnlyForCause'
  BY <1>1 DEF ReaderInv, SnapshotUnlessRewritten, FailsOnlyForCause
<1> QED
  BY <1>2, <1>4, <1>5

(* Some bytes more, which are the file's. *)
LEMMA ReadInv == Inv /\ Read => Inv'
<1> SUFFICES ASSUME Inv, Read PROVE Inv'
  OBVIOUS
<1> USE DEF Inv
<1>1. PICK n \in 1..Missing :
        /\ Len(buffer) + n <= Len(content[opened])
        /\ buffer' = buffer \o SubSeq(content[opened], Len(buffer) + 1, Len(buffer) + n)
  BY DEF Read, Position
<1>2. UNCHANGED <<named, content, pc, opened, size, result, measured, changed>> /\ pc = "read"
  BY DEF Read, files, history
<1>3. /\ opened # None /\ size = Len(measured) /\ Len(buffer) <= size
      /\ content[opened] \in Seq(Bytes) /\ buffer \in Seq(Bytes) /\ measured \in Seq(Bytes)
  BY <1>2 DEF TypeOK
<1>4. PICK F \in Seq(Bytes) : F = content[opened]
  BY <1>3
<1>5. PICK p : p = Len(buffer)
  OBVIOUS
<1>6. /\ p \in Nat /\ Len(F) \in Nat /\ size \in Nat /\ n \in 1..(size - p) /\ p + n <= Len(F)
      /\ n \in Nat \ {0} /\ p + n <= size
  <2>1. p \in Nat /\ Len(F) \in Nat /\ size \in Nat
    BY <1>3, <1>4, <1>5, Lengths
  <2>2. n \in 1..(size - p)
    BY <1>1, <1>5 DEF Missing
  <2>3. p + n <= Len(F)
    BY <1>1, <1>4, <1>5
  <2> QED
    BY <2>1, <2>2, <2>3
<1>7. PICK t : t = SubSeq(F, p + 1, p + n)
  OBVIOUS
<1>8. t \in Seq(Bytes) /\ Len(t) = n /\ \A i \in 1..n : t[i] = F[p + i]
  <2>1. \A i \in (p + 1)..(p + n) : F[i] \in Bytes
    BY <1>6, Lengths
  <2>2. p + 1 \in Int /\ p + n \in Int /\ p + 1 <= p + n /\ (p + n) - (p + 1) + 1 = n
    BY <1>6
  <2>3. t \in Seq(Bytes) /\ Len(t) = n /\ \A i \in 1..n : t[i] = F[(p + 1) + i - 1]
    BY <1>7, <2>1, <2>2, SubSeqProperties
  <2>4. \A i \in 1..n : (p + 1) + i - 1 = p + i
    BY <1>6
  <2> QED
    BY <2>3, <2>4
<1>9. /\ buffer' \in Seq(Bytes) /\ Len(buffer') = p + n
      /\ \A i \in 1..(p + n) : buffer'[i] = IF i <= p THEN buffer[i] ELSE F[i]
  <2>1. buffer' = buffer \o t
    BY <1>1, <1>4, <1>5, <1>7
  <2>2. /\ buffer' \in Seq(Bytes) /\ Len(buffer') = p + n
        /\ \A i \in 1..(p + n) : buffer'[i] = IF i <= p THEN buffer[i] ELSE t[i - p]
    <3>1. /\ buffer \o t \in Seq(Bytes) /\ Len(buffer \o t) = Len(buffer) + Len(t)
          /\ \A i \in 1..(Len(buffer) + Len(t)) :
               (buffer \o t)[i] = IF i <= Len(buffer) THEN buffer[i] ELSE t[i - Len(buffer)]
      BY <1>3, <1>8, ConcatProperties
    <3> QED
      BY <1>5, <1>8, <2>1, <3>1
  <2>3. \A i \in 1..(p + n) : ~(i <= p) => i - p \in 1..n /\ p + (i - p) = i
    BY <1>6
  <2>4. \A i \in 1..(p + n) : ~(i <= p) => t[i - p] = F[i]
    BY <1>8, <2>3
  <2> QED
    BY <2>2, <2>4
<1>10. TypeOK'
  BY <1>2, <1>3, <1>6, <1>9 DEF TypeOK
<1>11. FileInv'
  <2>1. Measured /\ FileInv
    BY <1>2, <1>3 DEF Measured
  <2>2. ASSUME changed # "rewritten" PROVE Agree(buffer, measured)'
    <3> SUFFICES ASSUME NEW i \in (1..(p + n)) \cap (1..Len(measured)) PROVE buffer'[i] = measured[i]
      BY <1>2, <1>9 DEF Agree
    <3>1. CASE i <= p
      <4>1. i \in (1..Len(buffer)) \cap (1..Len(measured))
        BY <1>5, <1>6, <3>1
      <4> QED
        BY <1>9, <2>1, <2>2, <3>1, <4>1 DEF FileInv, Agree
    <3>2. CASE ~(i <= p)
      <4>1. i \in (1..Len(F)) \cap (1..Len(measured))
        BY <1>6
      <4> QED
        BY <1>4, <1>9, <2>1, <2>2, <3>2, <4>1 DEF FileInv, Agree
    <3> QED
      BY <3>1, <3>2
  <2> QED
    BY <1>2, <2>1, <2>2 DEF FileInv, Agree
<1>12. ReaderInv' /\ SnapshotUnlessRewritten' /\ FailsOnlyForCause'
  BY <1>2 DEF ReaderInv, SnapshotUnlessRewritten, FailsOnlyForCause
<1> QED
  BY <1>10, <1>11, <1>12

(* At the end of the file before the end of the buffer: it was cut. *)
LEMMA ReadBeyondEndInv == Inv /\ ReadBeyondEnd => Inv'
<1> SUFFICES ASSUME Inv, ReadBeyondEnd PROVE Inv'
  OBVIOUS
<1> USE DEF Inv
<1>1. /\ pc = "read" /\ pc' = "over" /\ result' = "could not read file"
      /\ size - Len(buffer) > 0 /\ Len(buffer) >= Len(content[opened])
      /\ UNCHANGED <<named, content, opened, size, buffer, measured, changed>>
  BY DEF ReadBeyondEnd, EndOfFile, Missing, Position, files, history
<1>2. opened # None /\ size = Len(measured) /\ content[opened] \in Seq(Bytes)
  BY <1>1 DEF TypeOK
<1>3. changed # "no"
  <2>1. Len(buffer) \in Nat /\ Len(measured) \in Nat /\ Len(content[opened]) \in Nat
    BY <1>2, Lengths DEF TypeOK
  <2>2. \A b, m, l \in Nat : m - b > 0 /\ b >= l => ~(l >= m)
    OBVIOUS
  <2>3. Len(measured) - Len(buffer) > 0 /\ Len(buffer) >= Len(content[opened])
    BY <1>1, <1>2
  <2>4. ~(Len(content[opened]) >= Len(measured))
    BY <2>1, <2>2, <2>3
  <2> QED
    BY <1>1, <1>2, <2>4 DEF FileInv, Measured
<1>4. TypeOK' /\ ReaderInv'
  BY <1>1 DEF TypeOK, ReaderInv
<1>5. FileInv'
  BY <1>1 DEF FileInv, Measured, Agree
<1> QED
  BY <1>1, <1>3, <1>4, <1>5 DEF SnapshotUnlessRewritten, FailsOnlyForCause

(* A full buffer that agrees with the file as it was is that file. *)
LEMMA ReturnInv == Inv /\ Return => Inv'
<1> SUFFICES ASSUME Inv, Return PROVE Inv'
  OBVIOUS
<1> USE DEF Inv
<1>1. /\ pc = "read" /\ pc' = "over" /\ result' = "returned" /\ size - Len(buffer) = 0
      /\ UNCHANGED <<named, content, opened, size, buffer, measured, changed>>
  BY DEF Return, Missing, files, history
<1>2. opened # None /\ size = Len(measured) /\ buffer \in Seq(Bytes) /\ measured \in Seq(Bytes)
  BY <1>1 DEF TypeOK
<1>3. changed # "rewritten" => buffer = measured
  <2> SUFFICES ASSUME changed # "rewritten" PROVE buffer = measured
    OBVIOUS
  <2>1. Len(buffer) \in Nat /\ Len(measured) \in Nat
    BY <1>2, Lengths
  <2>2. Len(buffer) = Len(measured)
    BY <1>1, <1>2, <2>1
  <2>3. \A i \in 1..Len(buffer) : buffer[i] = measured[i]
    BY <1>1, <1>2, <2>2 DEF FileInv, Measured, Agree
  <2> QED
    BY <1>2, <2>2, <2>3, SeqEqual
<1>4. TypeOK' /\ ReaderInv'
  BY <1>1 DEF TypeOK, ReaderInv
<1>5. FileInv'
  BY <1>1 DEF FileInv, Measured, Agree
<1> QED
  BY <1>1, <1>3, <1>4, <1>5 DEF SnapshotUnlessRewritten, FailsOnlyForCause

(***************************************************************************)
(* The other processes                                                     *)
(***************************************************************************)

(* Changing a file from `old` to `new` may be recorded as `how`, when the  *)
(* record so far is `before`.                                              *)
Recorded(old, new, before, how) ==
  /\ before = "cut" => how # "no"
  /\ before = "rewritten" => how = "rewritten"
  /\ how = "no" => Len(new) >= Len(old)
  /\ how # "rewritten" => \A i \in 1..Len(new) : i <= Len(old) => new[i] = old[i]
  /\ how = "no" \/ Len(new) <= Len(old) \/ how = "rewritten"

(* The invariant survives every change that is recorded for what it is. *)
LEMMA ChangeInv ==
  ASSUME Inv, NEW i \in Inodes, NEW new \in Seq(Bytes), NEW how \in {"no", "cut", "rewritten"},
         content' = [content EXCEPT ![i] = new], Record(i, how), named' \in Inodes \cup {None},
         i = opened => Recorded(content[i], new, changed, how),
         UNCHANGED <<pc, opened, size, buffer, result, measured>>
  PROVE  Inv'
<1> USE DEF Inv
<1>1. content \in [Inodes -> Seq(Bytes)] /\ content[i] \in Seq(Bytes)
  BY DEF TypeOK
<1>2. /\ changed' = IF i = opened /\ pc \notin {"open", "tellg"} THEN how ELSE changed
      /\ changed' \in {"no", "cut", "rewritten"}
      /\ changed = "cut" => changed' # "no"
      /\ changed = "rewritten" => changed' = "rewritten"
  BY DEF Record, Recorded, TypeOK
<1>3. TypeOK'
  BY <1>1, <1>2 DEF TypeOK
<1>4. ReaderInv'
  BY <1>2 DEF ReaderInv
<1>5. SnapshotUnlessRewritten' /\ FailsOnlyForCause'
  BY <1>2 DEF SnapshotUnlessRewritten, FailsOnlyForCause, TypeOK
<1>6. FileInv'
  <2>1. CASE i # opened
    <3>1. changed' = changed /\ (opened # None => content'[opened] = content[opened])
      BY <1>1, <1>2, <2>1 DEF TypeOK
    <3> QED
      BY <3>1 DEF FileInv, Measured, Agree
  <2>2. CASE ~Measured
    BY <2>2 DEF FileInv, Measured
  <2>3. CASE i = opened /\ Measured
    <3>1. content'[opened] = new /\ changed' = how /\ Recorded(content[opened], new, changed, how)
      BY <1>1, <1>2, <2>3 DEF Measured
    <3>2. PICK old \in Seq(Bytes) : old = content[opened]
      BY <1>1, <2>3
    <3>3. Len(new) \in Nat /\ Len(old) \in Nat /\ Len(measured) \in Nat
      BY <3>2, Lengths DEF TypeOK
    <3>4. how = "no" => Len(new) >= Len(measured) /\ Len(old) >= Len(measured)
      <4>1. how = "no" => changed = "no"
        BY <3>1 DEF Recorded, TypeOK
      <4>2. how = "no" => Len(old) >= Len(measured)
        BY <2>3, <3>2, <4>1 DEF FileInv
      <4>3. how = "no" => Len(new) >= Len(old)
        BY <3>1, <3>2 DEF Recorded
      <4> QED
        BY <3>3, <4>2, <4>3
    <3>5. ASSUME how # "rewritten" PROVE Agree(new, measured) /\ Agree(buffer, measured)
      <4>1. changed # "rewritten"
        BY <3>1, <3>5 DEF Recorded
      <4>2. Agree(old, measured) /\ Agree(buffer, measured)
        BY <2>3, <3>2, <4>1 DEF FileInv
      <4>3. ASSUME NEW k \in (1..Len(new)) \cap (1..Len(measured)) PROVE new[k] = measured[k]
        <5>1. Len(old) >= Len(measured) \/ Len(new) <= Len(old)
          BY <3>1, <3>2, <3>4, <3>5 DEF Recorded
        <5>2. k <= Len(old) /\ k \in 1..Len(old)
          BY <3>3, <5>1
        <5>3. new[k] = old[k]
          BY <3>1, <3>2, <3>5, <5>2 DEF Recorded
        <5> QED
          BY <4>2, <5>2, <5>3 DEF Agree
      <4> QED
        BY <4>2, <4>3 DEF Agree
    <3> QED
      BY <2>3, <3>1, <3>4, <3>5 DEF FileInv, Measured, Agree
  <2> QED
    BY <2>1, <2>2, <2>3
<1> QED
  BY <1>3, <1>4, <1>5, <1>6

LEMMA ExtendInv ==
  ASSUME Inv, NEW i \in Reachable, Extend(i), named' = named,
         UNCHANGED <<pc, opened, size, buffer, result, measured>>
  PROVE  Inv'
<1>1. i \in Inodes /\ content[i] \in Seq(Bytes) /\ changed \in {"no", "cut", "rewritten"}
  BY DEF Inv, TypeOK, Reachable
<1>2. PICK b \in Bytes : content' = [content EXCEPT ![i] = Append(@, b)]
  BY DEF Extend
<1>3. PICK new : new = Append(content[i], b)
  OBVIOUS
<1>4. PICK how : how = IF changed = "no" THEN "no" ELSE "rewritten"
  OBVIOUS
<1>5. /\ new \in Seq(Bytes) /\ Len(new) = Len(content[i]) + 1 /\ Len(content[i]) \in Nat
      /\ \A k \in 1..Len(content[i]) : new[k] = content[i][k]
  BY <1>1, <1>3, Lengths
<1>6. how \in {"no", "cut", "rewritten"}
  BY <1>4
<1>7. Recorded(content[i], new, changed, how)
  BY <1>1, <1>4, <1>5 DEF Recorded
<1>8. content' = [content EXCEPT ![i] = new] /\ Record(i, how)
  BY <1>2, <1>3, <1>4 DEF Extend
<1>9. named' \in Inodes \cup {None}
  BY DEF Inv, TypeOK
<1> QED
  BY <1>1, <1>5, <1>6, <1>7, <1>8, <1>9, ChangeInv

LEMMA TruncateInv ==
  ASSUME Inv, NEW i \in Reachable, Truncate(i), named' = named,
         UNCHANGED <<pc, opened, size, buffer, result, measured>>
  PROVE  Inv'
<1>1. i \in Inodes /\ content[i] \in Seq(Bytes) /\ changed \in {"no", "cut", "rewritten"}
  BY DEF Inv, TypeOK, Reachable
<1>2. PICK n \in 0..(Len(content[i]) - 1) : content' = [content EXCEPT ![i] = SubSeq(@, 1, n)]
  BY DEF Truncate
<1>3. PICK new : new = SubSeq(content[i], 1, n)
  OBVIOUS
<1>4. PICK how : how = IF changed = "no" THEN "cut" ELSE changed
  OBVIOUS
<1>5. Len(content[i]) \in Nat /\ n \in Nat /\ n < Len(content[i])
  BY <1>1, Lengths
<1>6. /\ new \in Seq(Bytes) /\ Len(new) = n
      /\ \A k \in 1..n : new[k] = content[i][k]
  <2>1. \A k \in 1..n : content[i][k] \in Bytes
    BY <1>1, <1>5, Lengths
  <2>2. /\ new \in Seq(Bytes) /\ Len(new) = IF 1 <= n THEN n - 1 + 1 ELSE 0
        /\ \A k \in 1..(n - 1 + 1) : new[k] = content[i][1 + k - 1]
    BY <1>3, <1>5, <2>1, SubSeqProperties
  <2> QED
    BY <1>5, <2>2
<1>7. how \in {"no", "cut", "rewritten"} /\ Recorded(content[i], new, changed, how)
  BY <1>1, <1>4, <1>5, <1>6 DEF Recorded
<1>8. content' = [content EXCEPT ![i] = new] /\ Record(i, how)
  BY <1>2, <1>3, <1>4 DEF Truncate
<1>9. named' \in Inodes \cup {None}
  BY DEF Inv, TypeOK
<1> QED
  BY <1>1, <1>6, <1>7, <1>8, <1>9, ChangeInv

LEMMA OverwriteInv ==
  ASSUME Inv, NEW i \in Reachable, Overwrite(i), named' = named,
         UNCHANGED <<pc, opened, size, buffer, result, measured>>
  PROVE  Inv'
<1>1. i \in Inodes /\ content[i] \in Seq(Bytes)
  BY DEF Inv, TypeOK, Reachable
<1>2. PICK n \in 1..Len(content[i]), b \in Bytes : content' = [content EXCEPT ![i][n] = b]
  BY DEF Overwrite
<1>3. PICK new : new = [content[i] EXCEPT ![n] = b]
  OBVIOUS
<1>4. new \in Seq(Bytes) /\ Len(new) = Len(content[i])
  BY <1>1, <1>3, ExceptSeq
<1>5. Recorded(content[i], new, changed, "rewritten")
  BY DEF Recorded
<1>6. content' = [content EXCEPT ![i] = new] /\ Record(i, "rewritten")
  BY <1>2, <1>3 DEF Overwrite
<1>7. named' \in Inodes \cup {None}
  BY DEF Inv, TypeOK
<1> QED
  BY <1>1, <1>4, <1>5, <1>6, <1>7, ChangeInv

LEMMA RenameInv ==
  ASSUME Inv, Rename, UNCHANGED <<pc, opened, size, buffer, result, measured>>
  PROVE  Inv'
<1>1. PICK i \in Inodes \ {opened}, b \in Bytes : named' = i /\ content' = [content EXCEPT ![i] = <<b>>]
  BY DEF Rename
<1>2. <<b>> \in Seq(Bytes)
  OBVIOUS
<1>3. changed' = changed /\ changed \in {"no", "cut", "rewritten"}
  BY DEF Rename, Inv, TypeOK
<1>4. Record(i, changed)
  BY <1>1, <1>3 DEF Record
<1>5. named' \in Inodes \cup {None} /\ i \in Inodes /\ i # opened
  BY <1>1
<1> QED
  BY <1>1, <1>2, <1>3, <1>4, <1>5, ChangeInv

LEMMA OthersInv == Inv /\ Others => Inv'
<1> SUFFICES ASSUME Inv, Others PROVE Inv'
  OBVIOUS
<1>1. UNCHANGED <<pc, opened, size, buffer, result, measured>>
  BY DEF Others
<1>2. CASE Unlink
  BY <1>1, <1>2 DEF Unlink, Inv, TypeOK, ReaderInv, FileInv, Measured, Agree, SnapshotUnlessRewritten,
                    FailsOnlyForCause
<1>3. CASE Rename
  BY <1>1, <1>3, RenameInv
<1>4. ASSUME NEW i \in Reachable, Extend(i) \/ Truncate(i) \/ Overwrite(i), UNCHANGED named PROVE Inv'
  BY <1>1, <1>4, ExtendInv, TruncateInv, OverwriteInv
<1> QED
  BY <1>2, <1>3, <1>4 DEF Others

LEMMA Invariant == Spec => []Inv
<1>1. Inv /\ [Next]_vars => Inv'
  <2> SUFFICES ASSUME Inv, [Next]_vars PROVE Inv'
    OBVIOUS
  <2>1. CASE ReadAll
    BY <2>1, OpenInv, TellGInv, AllocateInv, ReadInv, ReadBeyondEndInv, ReturnInv DEF ReadAll
  <2>2. CASE UNCHANGED vars
    BY <2>2 DEF vars, files, history, Inv, TypeOK, ReaderInv, FileInv, Measured, Agree,
                SnapshotUnlessRewritten, FailsOnlyForCause
  <2> QED
    BY <2>1, <2>2, OthersInv DEF Next
<1> QED
  BY <1>1, InitInv, PTL DEF Spec

(* readAll of files of every length: a buffer is there only of a file that *)
(* was opened, and no longer than the size asked for.                      *)
THEOREM FilesTypeCorrect == Spec => []TypeOK
<1>1. Inv => TypeOK
  BY DEF Inv
<1> QED
  BY <1>1, Invariant, PTL

(* Whatever others do to the file and in however many parts it is read,    *)
(* what readAll returns is the file as it was when its size was asked for  *)
(* (files.h:22), unless somebody wrote to it in place.                     *)
THEOREM ReadsSnapshots == Spec => []SnapshotUnlessRewritten
<1>1. Inv => SnapshotUnlessRewritten
  BY DEF Inv
<1> QED
  BY <1>1, Invariant, PTL

(* readAll throws only for a file that was not there (files.h:25) or that  *)
(* was cut while it was read (files.h:26).                                 *)
THEOREM FailsForCause == Spec => []FailsOnlyForCause
<1>1. Inv => FailsOnlyForCause
  BY DEF Inv
<1> QED
  BY <1>1, Invariant, PTL
=============================================================================
