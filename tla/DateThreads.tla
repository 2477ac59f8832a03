----------------------------- MODULE DateThreads -----------------------------
(***************************************************************************)
(* Threads that each send a signed request, with clients of their own, and *)
(* so format times at the same time.                                       *)
(*                                                                         *)
(* A request has a DateTime of its own for the x-amz-date header           *)
(* (minioclient.cpp:740) and another for its signature (aws_signer.cpp:29);*)
(* toString() is called for the header, the credential scope, the string   *)
(* to sign and the signing key.  DateTime::toString() calls std::gmtime,   *)
(* which fills one structure that all threads share, and then              *)
(* std::strftime, which reads it.  Nothing orders the threads in there: a  *)
(* thread may write or read a field of the structure between any two such  *)
(* steps of another.  The fields are the day and the time of the day.      *)
(***************************************************************************)
EXTENDS DateTime

CONSTANTS Threads, MaxTime    \* the bound is in seconds

ASSUME MaxTimeAssumption == MaxTime \in Nat

VARIABLES
  clock,
  shared,      \* std::gmtime's structure
  stage,       \* of each thread: what it formats a time for
  at,          \* of each thread: where it is in that
  todo,        \* of each thread: the fields it has still to write or to read
  time,        \* of each thread: time_ of its two DateTime objects
  formatted,   \* of each thread: the fields in each of the strings it made
  disturbed    \* history, of each thread: another one replaced a value
               \* before it had read it

threadVars == <<stage, at, todo, time, formatted>>
vars       == <<clock, shared, threadVars, disturbed>>

Fields == {"day", "time"}

(* The value of a field for a time. *)
FieldOf(field, date) == IF field = "day" THEN Day(date) ELSE TimeOfDay(date)

(***************************************************************************)
(* The calls of toString()                                                 *)
(***************************************************************************)

Stages == {"header", "scope", "text", "key"}

NextStage == [header |-> "scope", scope |-> "text", text |-> "key", key |-> "over"]

(* The object whose time a stage formats. *)
ObjectOf(s) == IF s = "header" THEN "request" ELSE "signer"

(* The formats: %Y%m%dT%H%M%SZ for the header and the string to sign, and  *)
(* %Y%m%d for the others.                                                  *)
FieldsRead(s) == IF s \in {"header", "text"} THEN Fields ELSE {"day"}

(* A mutant: gmtime is called once for each DateTime. *)
FieldsWrittenOnce(s) == IF s \in {"header", "scope"} THEN Fields ELSE {}

(* std::gmtime, each time, fills all of the structure. *)
FieldsWritten(s) == Fields

(* The constructor of DateTime reads the clock. *)
Construct(t) ==
  /\ at[t] = "construct"
  /\ time' = [time EXCEPT ![t][ObjectOf(stage[t])] = clock]
  /\ at' = [at EXCEPT ![t] = "call"]
  /\ UNCHANGED <<clock, shared, stage, todo, formatted, disturbed>>

(* toString() calls std::gmtime. *)
ToString(t) ==
  /\ at[t] = "call"
  /\ at' = [at EXCEPT ![t] = "gmtime"]
  /\ todo' = [todo EXCEPT ![t] = FieldsWritten(stage[t])]
  /\ UNCHANGED <<clock, shared, stage, time, formatted, disturbed>>

(* The time a thread formats, and whether it still needs the value that    *)
(* std::gmtime gave a field.                                               *)
DateOf(t) == time[t][ObjectOf(stage[t])]
Needs(t, field) ==
  \/ at[t] = "gmtime" /\ field \notin todo[t]
  \/ at[t] = "strftime" /\ field \in todo[t]

(* std::gmtime writes a field. *)
Write(t, field) ==
  LET value == FieldOf(field, DateOf(t))
  IN  /\ at[t] = "gmtime" /\ field \in todo[t]
      /\ shared' = [shared EXCEPT ![field] = value]
      /\ todo' = [todo EXCEPT ![t] = @ \ {field}]
      /\ disturbed' = [u \in Threads |->
           disturbed[u] \/ (u # t /\ Needs(u, field) /\ value # FieldOf(field, DateOf(u)))]
      /\ UNCHANGED <<clock, stage, at, time, formatted>>

GmtimeReturns(t) ==
  /\ at[t] = "gmtime" /\ todo[t] = {}
  /\ at' = [at EXCEPT ![t] = "strftime"]
  /\ todo' = [todo EXCEPT ![t] = FieldsRead(stage[t])]
  /\ UNCHANGED <<clock, shared, stage, time, formatted, disturbed>>

(* std::strftime reads a field. *)
Read(t, field) ==
  /\ at[t] = "strftime" /\ field \in todo[t]
  /\ formatted' = [formatted EXCEPT ![t][stage[t]][field] = shared[field]]
  /\ todo' = [todo EXCEPT ![t] = @ \ {field}]
  /\ UNCHANGED <<clock, shared, stage, at, time, disturbed>>

(* toString() returns: the scope is made for a new DateTime, and the       *)
(* string to sign and the key for the same one.                            *)
ToStringReturns(t) ==
  /\ at[t] = "strftime" /\ todo[t] = {}
  /\ stage' = [stage EXCEPT ![t] = NextStage[@]]
  /\ LET next == NextStage[stage[t]]
     IN  \/ next = "over" /\ at' = [at EXCEPT ![t] = "over"]
         \/ next = "scope" /\ at' = [at EXCEPT ![t] = "construct"]
         \/ next \in {"text", "key"} /\ at' = [at EXCEPT ![t] = "call"]
  /\ UNCHANGED <<clock, shared, todo, time, formatted, disturbed>>

Format(t) ==
  \/ Construct(t) \/ ToString(t)
  \/ \E field \in Fields : Write(t, field) \/ Read(t, field)
  \/ GmtimeReturns(t)
  \/ ToStringReturns(t)

Tick == clock < MaxTime /\ clock' = clock + 1 /\ UNCHANGED <<shared, threadVars, disturbed>>

(* Every request is signed. *)
Signed == (\A t \in Threads : at[t] = "over") /\ UNCHANGED vars

Init ==
  /\ clock = 0
  /\ shared = [field \in Fields |-> 0]
  /\ stage = [t \in Threads |-> "header"]
  /\ at = [t \in Threads |-> "construct"]
  /\ todo = [t \in Threads |-> {}]
  /\ time = [t \in Threads |-> [object \in {"request", "signer"} |-> 0]]
  /\ formatted = [t \in Threads |-> [s \in Stages |-> [field \in FieldsRead(s) |-> 0]]]
  /\ disturbed = [t \in Threads |-> FALSE]

Next == (\E t \in Threads : Format(t)) \/ Tick \/ Signed

Spec == Init /\ [][Next]_vars

(***************************************************************************)
(* Properties                                                              *)
(***************************************************************************)

(* A thread is in toString() only for a stage that formats something, and  *)
(* has no field to read but those of its format.                           *)
TypeOK ==
  /\ clock \in Nat
  /\ shared \in [Fields -> Nat]
  /\ stage \in [Threads -> Stages \cup {"over"}]
  /\ at \in [Threads -> {"construct", "call", "gmtime", "strftime", "over"}]
  /\ todo \in [Threads -> SUBSET Fields]
  /\ time \in [Threads -> [{"request", "signer"} -> Nat]]
  /\ formatted = [t \in Threads |-> [s \in Stages |-> formatted[t][s]]]
  /\ \A t \in Threads, s \in Stages : formatted[t][s] \in [FieldsRead(s) -> Nat]
  /\ disturbed \in [Threads -> BOOLEAN]
  /\ \A t \in Threads :
       /\ at[t] = "over" <=> stage[t] = "over"
       /\ at[t] = "strftime" => todo[t] \subseteq FieldsRead(stage[t])
       /\ at[t] = "construct" => stage[t] \in {"header", "scope"}

(* What the store compares: its own string to sign has the time of the     *)
(* header, and its scope and key the day of that.                          *)
Coherent(t) ==
  LET f == formatted[t]
  IN  f.text = f.header /\ f.scope.day = f.header.day /\ f.key.day = f.header.day

(* A thread gets a signature that fits its header exactly when its two     *)
(* readings of the clock agree, unless in one of its calls of toString()   *)
(* another one put a different value into the shared structure between     *)
(* gmtime and strftime (datetime.cpp:23): between its calls the others may *)
(* do with the structure what they like.                                   *)
CoherentUnlessDisturbed ==
  \A t \in Threads :
    at[t] = "over" /\ ~disturbed[t] =>
      (Coherent(t) <=> time[t]["request"] = time[t]["signer"])
=============================================================================
