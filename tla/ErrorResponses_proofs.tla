------------------------ MODULE ErrorResponses_proofs ------------------------
(***************************************************************************)
(* Theorems about extract() and handleError(), for bodies of every length  *)
(* over every set of texts.                                                *)
(***************************************************************************)
EXTENDS MCErrorResponses, WellFoundedInduction, SequenceTheorems, TLAPS

(***************************************************************************)
(* Positions                                                               *)
(***************************************************************************)

(* std::string::find finds the least position, if there is one. *)
LEMMA LeastPosition ==
  ASSUME NEW S \in SUBSET Nat, S # {}
  PROVE  Min(S) \in S /\ \A y \in S : Min(S) <= y
<1>1. PICK R : R = OpToRel(<, Nat)
  OBVIOUS
<1>2. IsWellFoundedOn(R, Nat)
  BY <1>1, NatLessThanWellFounded
<1>3. \A x, y \in Nat : <<y, x>> \in R <=> y < x
  BY <1>1 DEF OpToRel
<1>4. PICK x \in S : \A y \in S : ~(<<y, x>> \in R)
  BY <1>2, WFMin
<1>5. \A y \in S : x <= y
  <2> SUFFICES ASSUME NEW y \in S PROVE x <= y
    OBVIOUS
  <2>1. ~(y < x)
    BY <1>3, <1>4
  <2> QED
    BY <2>1
<1> QED
  BY <1>5 DEF Min

(* It is the only one that is least. *)
LEMMA LeastIsMin ==
  ASSUME NEW S \in SUBSET Nat, NEW x \in S, \A y \in S : x <= y
  PROVE  Min(S) = x
<1>1. PICK m : m = Min(S)
  OBVIOUS
<1>2. m \in S /\ m <= x
  BY <1>1, LeastPosition
<1>3. m \in Nat /\ x \in Nat /\ x <= m
  BY <1>2
<1> QED
  BY <1>1, <1>2, <1>3

LEMMA OccurrencesArePositions ==
  ASSUME NEW T, NEW s \in Seq(T), NEW t, NEW from
  PROVE  /\ Occurrences(s, t, from) \in SUBSET Nat
         /\ \A i : i \in Occurrences(s, t, from) <=> i \in 1..Len(s) /\ i >= from /\ s[i] = t
BY DEF Occurrences

(* What extract() gives, from the first tag and the first end tag after it. *)
LEMMA ExtractBetween ==
  ASSUME NEW T, NEW s \in Seq(T), NEW tags, NEW b \in 1..Len(s), NEW e \in 1..Len(s), b < e,
         s[b] = tags.open, \A i \in 1..(b - 1) : s[i] # tags.open,
         s[e] = tags.close, \A i \in (b + 1)..(e - 1) : s[i] # tags.close
  PROVE  Extract(s, tags) = SubSeq(s, b + 1, e - 1)
<1> DEFINE opens  == Occurrences(s, tags.open, 1)
           closes == Occurrences(s, tags.close, b + 1)
<1>1. b \in opens /\ \A i \in opens : b <= i
  BY OccurrencesArePositions
<1>2. e \in closes /\ \A i \in closes : e <= i
  BY OccurrencesArePositions
<1>3. opens \in SUBSET Nat /\ closes \in SUBSET Nat
  BY OccurrencesArePositions
<1> HIDE DEF opens, closes
<1>4. Min(opens) = b /\ Min(closes) = e
  BY <1>1, <1>2, <1>3, LeastIsMin
<1> QED
  BY <1>1, <1>2, <1>4 DEF Extract, ClosingTags, opens, closes

(* Conversely, what it finds lies between two such tags. *)
LEMMA ExtractFinds ==
  ASSUME NEW T, NEW s \in Seq(T), NEW tags, Extract(s, tags) # << >>
  PROVE  \E b, e \in 1..Len(s) :
           /\ b < e /\ Extract(s, tags) = SubSeq(s, b + 1, e - 1)
           /\ s[b] = tags.open /\ \A i \in 1..(b - 1) : s[i] # tags.open
           /\ s[e] = tags.close /\ \A i \in (b + 1)..(e - 1) : s[i] # tags.close
<1> DEFINE opens  == Occurrences(s, tags.open, 1)
           b      == Min(opens)
           closes == Occurrences(s, tags.close, b + 1)
           e      == Min(closes)
<1>1. opens # {} /\ closes # {} /\ Extract(s, tags) = SubSeq(s, b + 1, e - 1)
  BY DEF Extract, ClosingTags
<1>2. opens \in SUBSET Nat /\ closes \in SUBSET Nat
  BY OccurrencesArePositions
<1>3. b \in opens /\ (\A i \in opens : b <= i) /\ e \in closes /\ (\A i \in closes : e <= i)
  BY <1>1, <1>2, LeastPosition
<1>4. /\ \A i : i \in opens <=> i \in 1..Len(s) /\ i >= 1 /\ s[i] = tags.open
      /\ \A i : i \in closes <=> i \in 1..Len(s) /\ i >= b + 1 /\ s[i] = tags.close
  BY OccurrencesArePositions
<1> HIDE DEF opens, closes, b, e
<1>5. b \in 1..Len(s) /\ s[b] = tags.open /\ e \in 1..Len(s) /\ e >= b + 1 /\ s[e] = tags.close
  BY <1>3, <1>4
<1>6. \A i \in 1..(b - 1) : s[i] # tags.open
  BY <1>3, <1>4, <1>5
<1>7. \A i \in (b + 1)..(e - 1) : s[i] # tags.close
  BY <1>3, <1>4, <1>5
<1>8. b < e
  BY <1>5
<1> QED
  BY <1>1, <1>5, <1>6, <1>7, <1>8

(***************************************************************************)
(* extract()                                                               *)
(***************************************************************************)

IsBody == received \in Seq(Tokens)

LEMMA BodyInvariant == Spec => []IsBody
<1>1. Init => IsBody
  BY DEF Init, IsBody
<1>2. IsBody /\ [Next]_received => IsBody'
  BY DEF IsBody, Next
<1> QED
  BY <1>1, <1>2, PTL DEF Spec

(* extract() gives the text of the first element, and nothing when there   *)
(* is none: for bodies of every length, in which tags of either kind may   *)
(* be missing, repeated, nested or in the wrong order.                     *)
THEOREM FirstElementIsExtracted == Spec => []ExtractsFirstElement
<1>1. IsBody => ExtractsFirstElement
  <2> SUFFICES ASSUME IsBody, NEW tags \in {CodeTags, MessageTags}
               PROVE  LET Elements == {p \in (DOMAIN received) \X (DOMAIN received) : IsElement(tags, p[1], p[2])}
                      IN  /\ \A p \in Elements : Extract(received, tags) = SubSeq(received, p[1] + 1, p[2] - 1)
                          /\ Elements = {} => Extract(received, tags) = << >>
    BY DEF ExtractsFirstElement
  <2>1. received \in Seq(Tokens) /\ DOMAIN received = 1..Len(received)
    BY DEF IsBody
  <2>2. ASSUME NEW b \in 1..Len(received), NEW e \in 1..Len(received), IsElement(tags, b, e)
        PROVE  Extract(received, tags) = SubSeq(received, b + 1, e - 1)
    BY <2>1, <2>2, ExtractBetween DEF IsElement
  <2>3. ASSUME Extract(received, tags) # << >>
        PROVE  \E b, e \in 1..Len(received) : IsElement(tags, b, e)
    BY <2>1, <2>3, ExtractFinds DEF IsElement
  <2>4. ASSUME NEW b \in 1..Len(received), NEW e \in 1..Len(received), IsElement(tags, b, e)
        PROVE  \E p \in (1..Len(received)) \X (1..Len(received)) : IsElement(tags, p[1], p[2])
    <3>1. <<b, e>> \in (1..Len(received)) \X (1..Len(received))
      OBVIOUS
    <3> QED
      BY <2>4, <3>1
  <2> QED
    BY <2>1, <2>2, <2>3, <2>4
<1> QED
  BY <1>1, BodyInvariant, PTL

(***************************************************************************)
(* handleError()                                                           *)
(***************************************************************************)

(* What arrives after an element does not change it. *)
LEMMA ElementsStay ==
  ASSUME NEW T, NEW s \in Seq(T), NEW t \in T, NEW tags, Extract(s, tags) # << >>
  PROVE  Extract(Append(s, t), tags) = Extract(s, tags)
<1> DEFINE u == Append(s, t)
<1>1. PICK b, e \in 1..Len(s) :
        /\ b < e /\ Extract(s, tags) = SubSeq(s, b + 1, e - 1)
        /\ s[b] = tags.open /\ \A i \in 1..(b - 1) : s[i] # tags.open
        /\ s[e] = tags.close /\ \A i \in (b + 1)..(e - 1) : s[i] # tags.close
  BY ExtractFinds
<1>2. u \in Seq(T) /\ Len(u) = Len(s) + 1 /\ \A i \in 1..Len(s) : u[i] = s[i]
  OBVIOUS
<1> HIDE DEF u
<1>3. b \in 1..Len(u) /\ e \in 1..Len(u)
  BY <1>2
<1>4. Extract(u, tags) = SubSeq(u, b + 1, e - 1)
  <2>1. u[b] = tags.open /\ u[e] = tags.close
    BY <1>1, <1>2
  <2>2. \A i \in 1..(b - 1) : u[i] # tags.open
    BY <1>1, <1>2
  <2>3. \A i \in (b + 1)..(e - 1) : u[i] # tags.close
    BY <1>1, <1>2
  <2> QED
    BY <1>1, <1>2, <1>3, <2>1, <2>2, <2>3, ExtractBetween
<1>5. SubSeq(u, b + 1, e - 1) = SubSeq(s, b + 1, e - 1)
  <2>1. \A i \in (b + 1)..(e - 1) : u[i] = s[i]
    BY <1>2
  <2> QED
    BY <1>1, <1>2, <2>1
<1> QED
  BY <1>1, <1>4, <1>5 DEF u

(* An XML code decides by itself, whatever else the body holds. *)
LEMMA CodeDecides ==
  ASSUME NEW o, NEW b, NEW response, Extract(response.body, CodeTags) # << >>
  PROVE  HandleError(o, b, response) = CodeOfXml(Extract(response.body, CodeTags))
BY DEF HandleError

(* The exception for an error body that is cut anywhere after its code is  *)
(* the one for the whole body, for bodies of every length.                 *)
THEOREM CodesAreFinal == Spec => CodeIsFinal
<1>1. ASSUME IsBody, [Next]_received, Extract(received, CodeTags) # << >>
      PROVE  \A status \in {404, 409, 500} : Verdict(received', status) = Verdict(received, status)
  <2>1. Extract(received', CodeTags) = Extract(received, CodeTags)
    <3>1. CASE received' = received
      BY <3>1
    <3>2. CASE Next
      <4>1. PICK t \in Tokens : received' = Append(received, t)
        BY <3>2 DEF Next
      <4> QED
        BY <1>1, <4>1, ElementsStay DEF IsBody
    <3> QED
      BY <1>1, <3>1, <3>2
  <2>2. ASSUME NEW body, NEW status, Extract(body, CodeTags) # << >>
        PROVE  Verdict(body, status) = CodeOfXml(Extract(body, CodeTags))
    BY <2>2, CodeDecides DEF Verdict
  <2> QED
    BY <1>1, <2>1, <2>2
<1>2. IsBody /\ [Next]_received =>
        [Extract(received, CodeTags) # << >> =>
           \A status \in {404, 409, 500} : Verdict(received', status) = Verdict(received, status)]_received
  BY <1>1
<1> QED
  BY <1>2, BodyInvariant, PTL DEF Spec, CodeIsFinal
==============================================================================
