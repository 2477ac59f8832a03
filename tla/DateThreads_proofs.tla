-------------------------- MODULE DateThreads_proofs --------------------------
(***************************************************************************)
(* Theorems about DateThreads, for any number of threads, however long     *)
(* they take and wherever a day ends.                                      *)
(***************************************************************************)
EXTENDS DateThreads, TLAPS

(* The stages before one. *)
Before ==
  [header |-> {}, scope |-> {"header"}, text |-> {"header", "scope"},
   key |-> {"header", "scope", "text"}, over |-> Stages]

(* What a thread needs of the shared structure is its own. *)
Held(t) == \A field \in Fields : Needs(t, field) => shared[field] = FieldOf(field, DateOf(t))

(* The thread has made, or is making, the string of stage s and has read   *)
(* the field for it.                                                       *)
HasRead(t, s, field) ==
  \/ s \in Before[stage[t]]
  \/ s = stage[t] /\ at[t] = "strftime" /\ field \notin todo[t]

(* What it has read is of the time it formats. *)
Right(t) ==
  \A s \in Stages : \A field \in FieldsRead(s) :
    HasRead(t, s, field) => formatted[t][s][field] = FieldOf(field, time[t][ObjectOf(s)])

ThreadInv(t) == ~disturbed[t] => Held(t) /\ Right(t)

Inv == TypeOK /\ \A t \in Threads : ThreadInv(t)

(***************************************************************************)
(* Times                                                                   *)
(***************************************************************************)

LEMMA DivisionProperty ==
  \A a, b, n \in Nat : n # 0 /\ a \div n = b \div n /\ a % n = b % n => a = b
OBVIOUS

LEMMA FieldTypes ==
  ASSUME NEW date \in Nat, NEW field \in Fields
  PROVE  FieldOf(field, date) \in Nat
BY SecondsPerDayAssumption DEF FieldOf, Day, TimeOfDay

(* A time is told by its fields. *)
LEMMA FieldsTell ==
  ASSUME NEW a \in Nat, NEW b \in Nat, Day(a) = Day(b), TimeOfDay(a) = TimeOfDay(b)
  PROVE  a = b
BY SecondsPerDayAssumption, DivisionProperty DEF Day, TimeOfDay

(***************************************************************************)
(* Steps                                                                   *)
(***************************************************************************)

LEMMA DateTypes ==
  ASSUME TypeOK, NEW t \in Threads
  PROVE  /\ stage[t] \in Stages \cup {"over"}
         /\ \A object \in {"request", "signer"} : time[t][object] \in Nat
         /\ DateOf(t) \in Nat
         /\ \A s : ObjectOf(s) \in {"request", "signer"}
BY DEF TypeOK, DateOf, ObjectOf

(* A thread that takes no step is only concerned by what others write to   *)
(* the structure.                                                          *)
LEMMA IdleThread ==
  ASSUME NEW t \in Threads, ThreadInv(t),
         stage'[t] = stage[t], at'[t] = at[t], todo'[t] = todo[t], time'[t] = time[t],
         formatted'[t] = formatted[t], disturbed'[t] = disturbed[t] \/ disturbed'[t] = TRUE,
         ~disturbed'[t] => \A field \in Fields : Needs(t, field) =>
            shared'[field] = shared[field] \/ shared'[field] = FieldOf(field, DateOf(t))
  PROVE  ThreadInv(t)'
<1> SUFFICES ASSUME ~disturbed'[t] PROVE (Held(t) /\ Right(t))'
  BY DEF ThreadInv
<1>1. Held(t) /\ Right(t)
  BY DEF ThreadInv
<1>2. DateOf(t)' = DateOf(t) /\ \A field : Needs(t, field)' <=> Needs(t, field)
  BY DEF DateOf, Needs
<1>3. Held(t)'
  BY <1>1, <1>2 DEF Held
<1>4. Right(t)'
  BY <1>1 DEF Right, HasRead
<1> QED
  BY <1>3, <1>4

LEMMA ConstructInv ==
  ASSUME Inv, NEW t \in Threads, Construct(t)
  PROVE  Inv'
<1>1. PICK object : object = ObjectOf(stage[t])
  OBVIOUS
<1>2. /\ at[t] = "construct" /\ time' = [time EXCEPT ![t][object] = clock]
      /\ at' = [at EXCEPT ![t] = "call"]
      /\ UNCHANGED <<clock, shared, stage, todo, formatted, disturbed>>
  BY <1>1 DEF Construct
<1>3. stage[t] \in {"header", "scope"} /\ object \in {"request", "signer"}
  BY <1>1, <1>2 DEF Inv, TypeOK, ObjectOf
<1>4. time \in [Threads -> [{"request", "signer"} -> Nat]] /\ at \in [Threads -> {"construct", "call", "gmtime", "strftime", "over"}]
      /\ clock \in Nat
  BY DEF Inv, TypeOK
<1>5. /\ time' \in [Threads -> [{"request", "signer"} -> Nat]]
      /\ \A u \in Threads \ {t} : time'[u] = time[u] /\ at'[u] = at[u]
      /\ at'[t] = "call" /\ \A o \in {"request", "signer"} : time'[t][o] = IF o = object THEN clock ELSE time[t][o]
  BY <1>2, <1>3, <1>4
<1>6. TypeOK'
  BY <1>2, <1>3, <1>4, <1>5 DEF Inv, TypeOK, Stages
<1>7. ASSUME NEW u \in Threads, u # t PROVE ThreadInv(u)'
  <2>1. ThreadInv(u)
    BY DEF Inv
  <2> QED
    BY <1>2, <1>5, <1>7, <2>1, IdleThread
<1>8. ThreadInv(t)'
  <2> SUFFICES ASSUME ~disturbed[t] PROVE (Held(t) /\ Right(t))'
    BY <1>2 DEF ThreadInv
  <2>1. Held(t)'
    BY <1>5 DEF Held, Needs
  <2>2. Right(t)'
    <3> SUFFICES ASSUME NEW s \in Stages, NEW field \in FieldsRead(s), HasRead(t, s, field)'
                 PROVE  formatted[t][s][field] = FieldOf(field, time'[t][ObjectOf(s)])
      BY <1>2 DEF Right
    <3>1. s = "header" /\ stage[t] = "scope"
      BY <1>2, <1>3, <1>5 DEF HasRead, Before
    <3>2. HasRead(t, s, field)
      BY <3>1 DEF HasRead, Before
    <3>3. ObjectOf(s) = "request" /\ object = "signer"
      BY <1>1, <3>1 DEF ObjectOf
    <3> QED
      BY <1>5, <3>2, <3>3 DEF Inv, ThreadInv, Right
  <2> QED
    BY <2>1, <2>2
<1> QED
  BY <1>6, <1>7, <1>8 DEF Inv

LEMMA ToStringInv ==
  ASSUME Inv, NEW t \in Threads, ToString(t)
  PROVE  Inv'
<1>1. /\ at[t] = "call" /\ at' = [at EXCEPT ![t] = "gmtime"] /\ todo' = [todo EXCEPT ![t] = Fields]
      /\ UNCHANGED <<clock, shared, stage, time, formatted, disturbed>>
  BY DEF ToString, FieldsWritten
<1>2. /\ todo \in [Threads -> SUBSET Fields]
      /\ at \in [Threads -> {"construct", "call", "gmtime", "strftime", "over"}]
  BY DEF Inv, TypeOK
<1>3. /\ at'[t] = "gmtime" /\ todo'[t] = Fields
      /\ \A u \in Threads \ {t} : at'[u] = at[u] /\ todo'[u] = todo[u]
  BY <1>1, <1>2
<1>4. TypeOK'
  BY <1>1, <1>2, <1>3 DEF Inv, TypeOK
<1>5. ASSUME NEW u \in Threads, u # t PROVE ThreadInv(u)'
  <2>1. ThreadInv(u)
    BY DEF Inv
  <2> QED
    BY <1>1, <1>3, <1>5, <2>1, IdleThread
<1>6. ThreadInv(t)'
  <2>1. Held(t)'
    BY <1>3 DEF Held, Needs
  <2>2. Right(t) => Right(t)'
    BY <1>1, <1>3 DEF Right, HasRead
  <2> QED
    BY <1>1, <2>1, <2>2 DEF Inv, ThreadInv
<1> QED
  BY <1>4, <1>5, <1>6 DEF Inv

LEMMA WriteInv ==
  ASSUME Inv, NEW t \in Threads, NEW field \in Fields, Write(t, field)
  PROVE  Inv'
<1>1. PICK value : value = FieldOf(field, DateOf(t))
  OBVIOUS
<1>2. /\ at[t] = "gmtime" /\ field \in todo[t]
      /\ shared' = [shared EXCEPT ![field] = value]
      /\ todo' = [todo EXCEPT ![t] = @ \ {field}]
      /\ disturbed' = [u \in Threads |->
           disturbed[u] \/ (u # t /\ Needs(u, field) /\ value # FieldOf(field, DateOf(u)))]
      /\ UNCHANGED <<clock, stage, at, time, formatted>>
  BY <1>1 DEF Write
<1>3. /\ todo \in [Threads -> SUBSET Fields] /\ shared \in [Fields -> Nat]
      /\ disturbed \in [Threads -> BOOLEAN]
  BY DEF Inv, TypeOK
<1>4. value \in Nat
  BY <1>1, FieldTypes, DateTypes DEF Inv
<1>5. /\ todo'[t] = todo[t] \ {field} /\ \A u \in Threads \ {t} : todo'[u] = todo[u]
      /\ \A f \in Fields : shared'[f] = IF f = field THEN value ELSE shared[f]
  BY <1>2, <1>3
<1>6. disturbed' \in [Threads -> BOOLEAN]
  BY <1>2
<1>7. TypeOK'
  BY <1>2, <1>3, <1>4, <1>5, <1>6 DEF Inv, TypeOK
<1>8. ASSUME NEW u \in Threads, ~disturbed'[u]
      PROVE  ~disturbed[u] /\ (u # t /\ Needs(u, field) => value = FieldOf(field, DateOf(u)))
  BY <1>2, <1>8
<1>9. ASSUME NEW u \in Threads, u # t PROVE ThreadInv(u)'
  <2> SUFFICES ASSUME ~disturbed'[u] PROVE ThreadInv(u)'
    BY DEF ThreadInv
  <2>1. ~disturbed[u] /\ (Needs(u, field) => value = FieldOf(field, DateOf(u)))
    BY <1>8, <1>9
  <2>2. \A f \in Fields : Needs(u, f) => shared'[f] = shared[f] \/ shared'[f] = FieldOf(f, DateOf(u))
    BY <1>5, <2>1
  <2>3. disturbed'[u] = disturbed[u]
    BY <1>3, <1>6, <2>1
  <2>4. ThreadInv(u)
    BY DEF Inv
  <2> QED
    BY <1>2, <1>5, <1>9, <2>2, <2>3, <2>4, IdleThread
<1>10. ThreadInv(t)'
  <2> SUFFICES ASSUME ~disturbed'[t] PROVE (Held(t) /\ Right(t))'
    BY DEF ThreadInv
  <2>1. Held(t) /\ Right(t)
    BY <1>8 DEF Inv, ThreadInv
  <2>2. ASSUME NEW f \in Fields, Needs(t, f)' PROVE shared'[f] = FieldOf(f, DateOf(t)')
    <3>1. DateOf(t)' = DateOf(t)
      BY <1>2 DEF DateOf
    <3>2. f # field => Needs(t, f)
      BY <1>2, <1>5, <2>2 DEF Needs
    <3> QED
      BY <1>1, <1>5, <2>1, <3>1, <3>2 DEF Held
  <2>3. Right(t)'
    BY <1>2, <2>1 DEF Right, HasRead
  <2> QED
    BY <2>2, <2>3 DEF Held
<1> QED
  BY <1>7, <1>9, <1>10 DEF Inv

LEMMA GmtimeReturnsInv ==
  ASSUME Inv, NEW t \in Threads, GmtimeReturns(t)
  PROVE  Inv'
<1>1. /\ at[t] = "gmtime" /\ todo[t] = {} /\ at' = [at EXCEPT ![t] = "strftime"]
      /\ todo' = [todo EXCEPT ![t] = FieldsRead(stage[t])]
      /\ UNCHANGED <<clock, shared, stage, time, formatted, disturbed>>
  BY DEF GmtimeReturns
<1>2. /\ todo \in [Threads -> SUBSET Fields] /\ FieldsRead(stage[t]) \subseteq Fields
      /\ at \in [Threads -> {"construct", "call", "gmtime", "strftime", "over"}]
  BY DEF Inv, TypeOK, FieldsRead, Fields
<1>3. /\ at'[t] = "strftime" /\ todo'[t] = FieldsRead(stage[t])
      /\ \A u \in Threads \ {t} : at'[u] = at[u] /\ todo'[u] = todo[u]
  BY <1>1, <1>2
<1>4. TypeOK'
  BY <1>1, <1>2, <1>3 DEF Inv, TypeOK
<1>5. ASSUME NEW u \in Threads, u # t PROVE ThreadInv(u)'
  <2>1. ThreadInv(u)
    BY DEF Inv
  <2> QED
    BY <1>1, <1>3, <1>5, <2>1, IdleThread
<1>6. ThreadInv(t)'
  <2>1. Held(t) => Held(t)'
    BY <1>1, <1>2, <1>3 DEF Held, Needs, DateOf
  <2>2. Right(t) => Right(t)'
    BY <1>1, <1>3 DEF Right, HasRead
  <2> QED
    BY <1>1, <2>1, <2>2 DEF Inv, ThreadInv
<1> QED
  BY <1>4, <1>5, <1>6 DEF Inv

LEMMA ReadInv ==
  ASSUME Inv, NEW t \in Threads, NEW field \in Fields, Read(t, field)
  PROVE  Inv'
<1>1. PICK s : s = stage[t]
  OBVIOUS
<1>2. /\ at[t] = "strftime" /\ field \in todo[t] /\ todo' = [todo EXCEPT ![t] = @ \ {field}]
      /\ formatted' = [formatted EXCEPT ![t][s][field] = shared[field]]
      /\ UNCHANGED <<clock, shared, stage, at, time, disturbed>>
  BY <1>1 DEF Read
<1>3. /\ todo \in [Threads -> SUBSET Fields] /\ shared[field] \in Nat
      /\ s \in Stages /\ field \in FieldsRead(s)
      /\ formatted = [u \in Threads |-> [r \in Stages |-> formatted[u][r]]]
      /\ \A u \in Threads, r \in Stages : formatted[u][r] \in [FieldsRead(r) -> Nat]
  BY <1>1, <1>2 DEF Inv, TypeOK
<1>4. todo'[t] = todo[t] \ {field} /\ \A u \in Threads \ {t} : todo'[u] = todo[u]
  BY <1>2, <1>3
<1>5. PICK strings : strings = [formatted[t] EXCEPT ![s] = [formatted[t][s] EXCEPT ![field] = shared[field]]]
  OBVIOUS
<1>6. formatted[t] = [r \in Stages |-> formatted[t][r]]
  BY <1>3
<1>7. /\ strings = [r \in Stages |-> strings[r]]
      /\ strings[s] = [formatted[t][s] EXCEPT ![field] = shared[field]]
      /\ \A r \in Stages \ {s} : strings[r] = formatted[t][r]
  BY <1>3, <1>5, <1>6
<1>8. formatted' = [formatted EXCEPT ![t] = strings]
  BY <1>2, <1>5
<1>9. /\ formatted'[t] = strings /\ \A u \in Threads \ {t} : formatted'[u] = formatted[u]
      /\ formatted' = [u \in Threads |-> formatted'[u]]
  BY <1>3, <1>8
<1>10. \A r \in Stages : strings[r] \in [FieldsRead(r) -> Nat]
  <2>1. PICK g \in [FieldsRead(s) -> Nat] : g = formatted[t][s]
    BY <1>3
  <2>2. [g EXCEPT ![field] = shared[field]] \in [FieldsRead(s) -> Nat]
    BY <1>3
  <2>3. strings[s] \in [FieldsRead(s) -> Nat]
    BY <1>7, <2>1, <2>2
  <2>4. ASSUME NEW r \in Stages, r # s PROVE strings[r] \in [FieldsRead(r) -> Nat]
    <3>1. formatted[t][r] \in [FieldsRead(r) -> Nat]
      BY <1>3
    <3> QED
      BY <1>7, <2>4, <3>1
  <2> QED
    BY <2>3, <2>4
<1>11. formatted' = [u \in Threads |-> [r \in Stages |-> formatted'[u][r]]]
  BY <1>3, <1>7, <1>9
<1>12. \A u \in Threads, r \in Stages : formatted'[u][r] \in [FieldsRead(r) -> Nat]
  BY <1>3, <1>9, <1>10
<1>13. TypeOK'
  BY <1>2, <1>3, <1>4, <1>11, <1>12 DEF Inv, TypeOK
<1>14. ASSUME NEW u \in Threads, u # t PROVE ThreadInv(u)'
  <2>1. ThreadInv(u)
    BY DEF Inv
  <2> QED
    BY <1>2, <1>4, <1>9, <1>14, <2>1, IdleThread
<1>15. ThreadInv(t)'
  <2> SUFFICES ASSUME ~disturbed[t] PROVE (Held(t) /\ Right(t))'
    BY <1>2 DEF ThreadInv
  <2>1. Held(t) /\ Right(t)
    BY DEF Inv, ThreadInv
  <2>2. Held(t)'
    BY <1>2, <1>4, <2>1 DEF Held, Needs, DateOf
  <2>3. ASSUME NEW r \in Stages, NEW f \in FieldsRead(r), HasRead(t, r, f)'
        PROVE  formatted'[t][r][f] = FieldOf(f, time[t][ObjectOf(r)])
    <3>1. CASE r = s /\ f = field
      <4>1. formatted'[t][r][f] = shared[field]
        BY <1>3, <1>7, <1>9, <3>1
      <4>2. shared[field] = FieldOf(field, DateOf(t))
        BY <1>2, <2>1 DEF Held, Needs
      <4> QED
        BY <1>1, <3>1, <4>1, <4>2 DEF DateOf
    <3>2. CASE ~(r = s /\ f = field)
      <4>1. HasRead(t, r, f)
        BY <1>1, <1>2, <1>4, <2>3, <3>2 DEF HasRead
      <4>2. formatted'[t][r][f] = formatted[t][r][f]
        BY <1>3, <1>7, <1>9, <3>2
      <4> QED
        BY <2>1, <4>1, <4>2 DEF Right
    <3> QED
      BY <3>1, <3>2
  <2>4. Right(t)'
    BY <1>2, <2>3 DEF Right
  <2> QED
    BY <2>2, <2>4
<1> QED
  BY <1>13, <1>14, <1>15 DEF Inv

LEMMA ToStringReturnsInv ==
  ASSUME Inv, NEW t \in Threads, ToStringReturns(t)
  PROVE  Inv'
<1>1. PICK next : next = NextStage[stage[t]]
  OBVIOUS
<1>2. /\ at[t] = "strftime" /\ todo[t] = {} /\ stage' = [stage EXCEPT ![t] = next]
      /\ \/ next = "over" /\ at' = [at EXCEPT ![t] = "over"]
         \/ next = "scope" /\ at' = [at EXCEPT ![t] = "construct"]
         \/ next \in {"text", "key"} /\ at' = [at EXCEPT ![t] = "call"]
      /\ UNCHANGED <<clock, shared, todo, time, formatted, disturbed>>
  BY <1>1 DEF ToStringReturns
<1>3. /\ stage \in [Threads -> Stages \cup {"over"}] /\ stage[t] \in Stages
      /\ at \in [Threads -> {"construct", "call", "gmtime", "strftime", "over"}]
  BY <1>2 DEF Inv, TypeOK
<1>4. /\ next \in Stages \cup {"over"} /\ Before[next] = Before[stage[t]] \cup {stage[t]}
      /\ next \notin Before[next]
  BY <1>1, <1>3 DEF NextStage, Before, Stages
<1>5. /\ stage'[t] = next /\ at'[t] \in {"over", "construct", "call"}
      /\ at'[t] = "over" <=> next = "over"
      /\ at'[t] = "construct" => next = "scope"
      /\ \A u \in Threads \ {t} : at'[u] = at[u] /\ stage'[u] = stage[u]
  BY <1>2, <1>3
<1>6. stage' \in [Threads -> Stages \cup {"over"}]
      /\ at' \in [Threads -> {"construct", "call", "gmtime", "strftime", "over"}]
  BY <1>2, <1>3, <1>4
<1>7. TypeOK'
  BY <1>2, <1>5, <1>6 DEF Inv, TypeOK
<1>8. ASSUME NEW u \in Threads, u # t PROVE ThreadInv(u)'
  <2>1. ThreadInv(u)
    BY DEF Inv
  <2> QED
    BY <1>2, <1>5, <1>8, <2>1, IdleThread
<1>9. ThreadInv(t)'
  <2> SUFFICES ASSUME ~disturbed[t] PROVE (Held(t) /\ Right(t))'
    BY <1>2 DEF ThreadInv
  <2>1. Held(t)'
    BY <1>5 DEF Held, Needs
  <2>2. \A s : \A field : HasRead(t, s, field)' => HasRead(t, s, field)
    BY <1>2, <1>4, <1>5 DEF HasRead
  <2>3. Right(t)'
    BY <1>2, <2>2 DEF Inv, ThreadInv, Right
  <2> QED
    BY <2>1, <2>3
<1> QED
  BY <1>7, <1>8, <1>9 DEF Inv

LEMMA InitInv == Init => Inv
<1> SUFFICES ASSUME Init PROVE Inv
  OBVIOUS
<1>1. TypeOK
  BY DEF Init, TypeOK, Stages
<1>2. ASSUME NEW t \in Threads PROVE ThreadInv(t)
  BY DEF Init, ThreadInv, Held, Needs, Right, HasRead, Before
<1> QED
  BY <1>1, <1>2 DEF Inv

LEMMA StepInv == Inv /\ [Next]_vars => Inv'
<1> SUFFICES ASSUME Inv, [Next]_vars PROVE Inv'
  OBVIOUS
<1>1. ASSUME NEW t \in Threads, Format(t) PROVE Inv'
  BY <1>1, ConstructInv, ToStringInv, WriteInv, ReadInv, GmtimeReturnsInv, ToStringReturnsInv DEF Format
<1>2. CASE Tick
  <2>1. clock' \in Nat
    BY <1>2 DEF Tick, Inv, TypeOK
  <2>2. UNCHANGED <<shared, stage, at, todo, time, formatted, disturbed>>
    BY <1>2 DEF Tick, threadVars
  <2> QED
    BY <2>1, <2>2 DEF Inv, TypeOK, ThreadInv, Held, Right, HasRead, Needs, DateOf
<1>3. CASE UNCHANGED vars
  BY <1>3 DEF vars, threadVars, Inv, TypeOK, ThreadInv, Held, Right, HasRead, Needs, DateOf
<1> QED
  BY <1>1, <1>2, <1>3 DEF Next, Signed

(* A thread that nobody disturbed and that is done has strings of the two  *)
(* times it formatted, which fit exactly when these are the same.          *)
LEMMA InvCoherent == Inv => CoherentUnlessDisturbed
<1> SUFFICES ASSUME Inv, NEW t \in Threads, at[t] = "over", ~disturbed[t]
             PROVE  Coherent(t) <=> time[t]["request"] = time[t]["signer"]
  BY DEF CoherentUnlessDisturbed
<1>1. PICK a \in Nat, b \in Nat : a = time[t]["request"] /\ b = time[t]["signer"]
  BY DEF Inv, TypeOK
<1>2. ASSUME NEW s \in Stages, NEW field \in FieldsRead(s)
      PROVE  formatted[t][s][field] = FieldOf(field, time[t][ObjectOf(s)])
  <2>1. stage[t] = "over"
    BY DEF Inv, TypeOK
  <2>2. HasRead(t, s, field)
    BY <2>1 DEF HasRead, Before
  <2> QED
    BY <2>2 DEF Inv, ThreadInv, Right
<1>3. /\ formatted[t].header.day = Day(a) /\ formatted[t].header.time = TimeOfDay(a)
      /\ formatted[t].text.day = Day(b) /\ formatted[t].text.time = TimeOfDay(b)
      /\ formatted[t].scope.day = Day(b) /\ formatted[t].key.day = Day(b)
  BY <1>1, <1>2 DEF Stages, FieldsRead, Fields, FieldOf, ObjectOf
<1>4. formatted[t].text = formatted[t].header <=> Day(a) = Day(b) /\ TimeOfDay(a) = TimeOfDay(b)
  <2>1. formatted[t].header \in [Fields -> Nat] /\ formatted[t].text \in [Fields -> Nat]
    BY DEF Inv, TypeOK, Stages, FieldsRead
  <2>2. PICK h \in [Fields -> Nat], x \in [Fields -> Nat] : h = formatted[t].header /\ x = formatted[t].text
    BY <2>1
  <2>3. h = x <=> h["day"] = x["day"] /\ h["time"] = x["time"]
    BY DEF Fields
  <2> QED
    BY <1>3, <2>2, <2>3
<1>5. Coherent(t) <=> Day(a) = Day(b) /\ TimeOfDay(a) = TimeOfDay(b)
  BY <1>3, <1>4 DEF Coherent
<1> QED
  BY <1>1, <1>5, FieldsTell

(* For any number of threads and any moments: the shared structure of      *)
(* gmtime (datetime.cpp:23) spoils a signature only when another thread    *)
(* puts a different value into a field between gmtime and strftime, and    *)
(* otherwise the two readings of the clock decide.                         *)
THEOREM SignaturesFitUnlessDisturbed == Spec => []CoherentUnlessDisturbed
  BY InitInv, StepInv, InvCoherent, PTL DEF Spec
=============================================================================
