-------------------------------- MODULE Files --------------------------------
(***************************************************************************)
(* Files::readAll() of files.h, while other processes change the file.     *)
(*                                                                         *)
(* readAll opens the file at its end (line 21), takes the position as the  *)
(* size (22), goes back (23), makes a buffer of that size (25) and reads   *)
(* that many bytes (26), in as many system calls as it takes.  The others  *)
(* may append to the file, cut it, write over it, remove it or put another *)
(* in its place, between any two of these; readAll holds the one it opened.*)
(***************************************************************************)
EXTENDS Integers, Sequences, SequencesExt

CONSTANTS
  Bytes,        \* what a file consists of
  MaxLength,    \* bound: the longest file
  Inodes,       \* files, named or open
  None          \* no file

ASSUME FilesAssumption == MaxLength \in Nat /\ None \notin Inodes

VARIABLES
  named,      \* the file that has the name, or None
  content,    \* of each file: its bytes
  pc,         \* where readAll is
  opened,     \* the file it opened, or None
  size,       \* the position it was told
  buffer,     \* what it has read
  result,     \* how it ended
  measured,   \* history: the contents when it was told the size
  changed     \* history: what happened to the opened file since

files   == <<named, content>>
history == <<measured, changed>>
vars    == <<files, pc, opened, size, buffer, result, history>>

(***************************************************************************)
(* readAll                                                                 *)
(***************************************************************************)

Open ==
  /\ pc = "open" /\ pc' = "tellg"
  /\ opened' = named
  /\ UNCHANGED <<files, size, buffer, result, history>>

(* tellg() is -1 when the file could not be opened. *)
TellG ==
  /\ pc = "tellg" /\ pc' = "allocate"
  /\ size' = IF opened = None THEN -1 ELSE Len(content[opened])
  /\ measured' = IF opened = None THEN << >> ELSE content[opened]
  /\ UNCHANGED <<files, opened, buffer, result, changed>>

(* The buffer's size is unsigned: -1 is more than a vector can hold. *)
Allocate ==
  /\ pc = "allocate"
  /\ \/ size = -1 /\ pc' = "over" /\ result' = "length_error"
     \/ size # -1 /\ pc' = "read" /\ UNCHANGED result
  /\ UNCHANGED <<files, opened, size, buffer, history>>

(* A mutant: the reader does not go back to the beginning. *)
PositionAtEnd == size + Len(buffer)

Position == Len(buffer)

(* A mutant: one more byte, for a terminating zero. *)
MissingAndZero == size + 1 - Len(buffer)

Missing == size - Len(buffer)

(* Some of the bytes that are missing. *)
Read ==
  /\ pc = "read"
  /\ \E n \in 1..Missing :
       /\ Position + n <= Len(content[opened])
       /\ buffer' = buffer \o SubSeq(content[opened], Position + 1, Position + n)
  /\ UNCHANGED <<files, pc, opened, size, result, history>>

(* A mutant: nobody looks at the state of the stream. *)
EndOfFileUnnoticed == pc' = "over" /\ result' = "returned" /\ UNCHANGED buffer

(* A mutant: an incomplete file is read again. *)
EndOfFileRetried == buffer' = << >> /\ UNCHANGED <<pc, result>>

(* read() fails at the end of the file, and readAll throws. *)
EndOfFile == pc' = "over" /\ result' = "could not read file" /\ UNCHANGED buffer

ReadBeyondEnd ==
  /\ pc = "read" /\ Missing > 0
  /\ Position >= Len(content[opened])
  /\ EndOfFile
  /\ UNCHANGED <<files, opened, size, history>>

Return ==
  /\ pc = "read" /\ Missing = 0
  /\ pc' = "over" /\ result' = "returned"
  /\ UNCHANGED <<files, opened, size, buffer, history>>

ReadAll == Open \/ TellG \/ Allocate \/ Read \/ ReadBeyondEnd \/ Return

(***************************************************************************)
(* Other processes (not part of the repository)                            *)
(***************************************************************************)

(* The files that one may have open: the one of that name and the reader's. *)
Reachable == {named, opened} \ {None}

(* The history: change `how` of file i, after the reader was told the size. *)
Record(i, how) ==
  changed' = IF i = opened /\ pc \notin {"open", "tellg"} THEN how ELSE changed

Extend(i) ==
  /\ Len(content[i]) < MaxLength
  /\ \E b \in Bytes : content' = [content EXCEPT ![i] = Append(@, b)]
  /\ Record(i, IF changed = "no" THEN "no" ELSE "rewritten")

Truncate(i) ==
  /\ \E n \in 0..(Len(content[i]) - 1) : content' = [content EXCEPT ![i] = SubSeq(@, 1, n)]
  /\ Record(i, IF changed = "no" THEN "cut" ELSE changed)

Overwrite(i) ==
  /\ \E n \in 1..Len(content[i]), b \in Bytes : content' = [content EXCEPT ![i][n] = b]
  /\ Record(i, "rewritten")

(* Another file, complete, takes the name; nobody has it open.             *)
Rename ==
  /\ \E i \in Inodes \ {opened}, b \in Bytes :
       named' = i /\ content' = [content EXCEPT ![i] = <<b>>]
  /\ UNCHANGED changed

Unlink == named # None /\ named' = None /\ UNCHANGED <<content, changed>>

Others ==
  /\ \/ (\E i \in Reachable : Extend(i) \/ Truncate(i) \/ Overwrite(i)) /\ UNCHANGED named
     \/ Rename
     \/ Unlink
  /\ UNCHANGED <<pc, opened, size, buffer, result, measured>>

(***************************************************************************)
(* The specification                                                       *)
(***************************************************************************)

Init ==
  /\ content \in [Inodes -> BoundedSeq(Bytes, MaxLength)]
  /\ named \in Inodes \cup {None}
  /\ pc = "open" /\ opened = None
  /\ size = 0 /\ buffer = << >> /\ result = "none"
  /\ measured = << >> /\ changed = "no"

Next == ReadAll \/ Others

Spec == Init /\ [][Next]_vars

(* The thread that is in readAll runs; nothing makes the others act.       *)
FairSpec == Spec /\ WF_vars(ReadAll)

(***************************************************************************)
(* Properties                                                              *)
(***************************************************************************)

(* A buffer is there only of a file that was opened, and is never longer   *)
(* than the size that was asked for.                                       *)
TypeOK ==
  /\ named \in Inodes \cup {None}
  /\ content \in [Inodes -> Seq(Bytes)]
  /\ pc \in {"open", "tellg", "allocate", "read", "over"}
  /\ opened \in Inodes \cup {None}
  /\ buffer \in Seq(Bytes) /\ measured \in Seq(Bytes)
  /\ size \in Nat \cup {-1} /\ (size = -1 => opened = None)
  /\ pc = "read" => opened # None /\ size = Len(measured) /\ Len(buffer) <= size
  /\ result \in {"none", "returned", "could not read file", "length_error"}
  /\ changed \in {"no", "cut", "rewritten"}

(* What readAll returns is the file as it was when its size was asked for  *)
(* (files.h:22), even if others removed or replaced it, or appended to it, *)
(* since, and even if they cut it; only bytes written in place can mix     *)
(* two contents.                                                           *)
SnapshotUnlessRewritten ==
  result = "returned" /\ changed # "rewritten" => buffer = measured

(* It fails only for a file that was not there or that was cut meanwhile:  *)
(* an empty, a removed or a growing one is read.                           *)
FailsOnlyForCause ==
  /\ result = "could not read file" => changed # "no"
  /\ result = "length_error" => opened = None

(* readAll ends, however the file changes: it does not follow its end.     *)
ReadEnds == <>(pc = "over")
=============================================================================
