---------------------------- MODULE RemoteCalls ----------------------------
(***************************************************************************)
(* What the client promises of a call, without saying how: the request of  *)
(* a call is carried out at most once; a call that returns was carried     *)
(* out, one that is refused never is, and a call that ends with            *)
(* NoResponseException may be carried out before, or after, or not at all. *)
(*                                                                         *)
(* MinioClient implements this specification under the mapping stated      *)
(* there.                                                                  *)
(***************************************************************************)
CONSTANT Ids                 \* the calls

VARIABLES
  status,                    \* what the caller knows of each call
  carriedOut                 \* the calls the store has carried out

callStateVars == <<status, carriedOut>>

Statuses == {"unused", "open", "done", "refused", "unknown"}

TypeOK == status \in [Ids -> Statuses] /\ carriedOut \in SUBSET Ids

Init == status = [i \in Ids |-> "unused"] /\ carriedOut = {}

Become(i, s) == status' = [status EXCEPT ![i] = s] /\ UNCHANGED carriedOut

Invoke(i) == status[i] = "unused" /\ Become(i, "open")

(* The call throws before it sends anything, or the store refuses it. *)
Refuse(i) == status[i] \in {"unused", "open"} /\ i \notin carriedOut /\ Become(i, "refused")

CarryOut(i) ==
  /\ status[i] \in {"open", "unknown"}
  /\ i \notin carriedOut
  /\ carriedOut' = carriedOut \cup {i}
  /\ UNCHANGED status

Return(i) == status[i] = "open" /\ i \in carriedOut /\ Become(i, "done")

LoseTrack(i) == status[i] = "open" /\ Become(i, "unknown")

Next == \E i \in Ids : Invoke(i) \/ Refuse(i) \/ CarryOut(i) \/ Return(i) \/ LoseTrack(i)

Spec == Init /\ [][Next]_callStateVars

(* A finished call whose outcome is definite tells the truth about the     *)
(* store: what executePut and executeHead report, minioclient.cpp:484-490. *)
OutcomesAreTrue ==
  \A i \in Ids : /\ status[i] = "done" => i \in carriedOut
                 /\ status[i] \in {"unused", "refused"} => i \notin carriedOut
=============================================================================
