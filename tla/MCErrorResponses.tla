-------------------------- MODULE MCErrorResponses --------------------------
(***************************************************************************)
(* A response body arrives token by token; what the client would make of   *)
(* the part received so far is compared with a definition that says what   *)
(* an element is, and with what it makes of the rest.                      *)
(***************************************************************************)
EXTENDS ErrorResponses

CONSTANTS Text, MaxTokens

VARIABLE received

Tokens == {CodeTags.open, CodeTags.close, MessageTags.open, MessageTags.close} \cup Text

Init == received = << >>

Next == Len(received) < MaxTokens /\ \E t \in Tokens : received' = Append(received, t)

Spec == Init /\ [][Next]_received

(* received is `before <tag> text </tag> after`, with no <tag> in `before` *)
(* and no </tag> in `text`.                                                *)
IsElement(tags, b, e) ==
  /\ b < e /\ received[b] = tags.open /\ received[e] = tags.close
  /\ \A i \in 1..(b - 1) : received[i] # tags.open
  /\ \A i \in (b + 1)..(e - 1) : received[i] # tags.close

(* extract() finds exactly the text of the first element, whatever tags of *)
(* either kind surround it or lie inside it (minioclient.cpp:493-507).     *)
ExtractsFirstElement ==
  \A tags \in {CodeTags, MessageTags} :
    LET Elements == {p \in (DOMAIN received) \X (DOMAIN received) : IsElement(tags, p[1], p[2])}
    IN  /\ \A p \in Elements : Extract(received, tags) = SubSeq(received, p[1] + 1, p[2] - 1)
        /\ Elements = {} => Extract(received, tags) = << >>

Verdict(body, status) == HandleError("o", "b", [status |-> status, body |-> body])

(* Once a code has been received, what follows it does not change the      *)
(* exception: a truncated error body gives the same one as the whole.      *)
CodeIsFinal ==
  [][Extract(received, CodeTags) # << >> =>
       \A status \in {404, 409, 500} : Verdict(received', status) = Verdict(received, status)]_received
=============================================================================
