------------------------- MODULE RemoteCalls_proofs -------------------------
(***************************************************************************)
(* What follows from RemoteCalls alone, and so for every implementation.   *)
(***************************************************************************)
EXTENDS RemoteCalls, TLAPS

Inv == TypeOK /\ OutcomesAreTrue

(* A caller who is told that a call was done, or that it was refused, is   *)
(* told the truth, at that time and ever after: this is what the           *)
(* exceptions of executePut and executeHead mean.                          *)
THEOREM OutcomesStayTrue == Spec => []OutcomesAreTrue
<1>1. Init => Inv
  BY DEF Init, Inv, TypeOK, OutcomesAreTrue, Statuses
<1>2. Inv /\ [Next]_callStateVars => Inv'
  <2> SUFFICES ASSUME Inv, [Next]_callStateVars PROVE Inv'
    OBVIOUS
  <2> USE DEF Inv, TypeOK, OutcomesAreTrue, Statuses
  <2>1. CASE UNCHANGED callStateVars
    BY <2>1 DEF callStateVars
  <2>2. ASSUME NEW i \in Ids, Invoke(i) PROVE Inv'
    BY <2>2 DEF Invoke, Become
  <2>3. ASSUME NEW i \in Ids, Refuse(i) PROVE Inv'
    BY <2>3 DEF Refuse, Become
  <2>4. ASSUME NEW i \in Ids, CarryOut(i) PROVE Inv'
    BY <2>4 DEF CarryOut
  <2>5. ASSUME NEW i \in Ids, Return(i) PROVE Inv'
    BY <2>5 DEF Return, Become
  <2>6. ASSUME NEW i \in Ids, LoseTrack(i) PROVE Inv'
    BY <2>6 DEF LoseTrack, Become
  <2> QED
    BY <2>1, <2>2, <2>3, <2>4, <2>5, <2>6 DEF Next
<1>3. Inv => OutcomesAreTrue
  BY DEF Inv
<1> QED
  BY <1>1, <1>2, <1>3, PTL DEF Spec
=============================================================================
