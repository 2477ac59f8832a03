------------------------------ MODULE Forwarding ------------------------------
(***************************************************************************)
(* An upload on its way to the store: putObject of a client, forwardObject *)
(* of any number of proxies, each with the path of the request that it     *)
(* received, and the store, which takes the object's name from the last.   *)
(* A client or proxy that throws ends it.                                  *)
(***************************************************************************)
EXTENDS Paths

CONSTANTS Buckets, Names, MaxHops    \* MaxHops bounds the proxies

(* Nothing is escaped yet; what createRequest does with an empty bucket is *)
(* in Requests.                                                            *)
ASSUME NamesAssumption ==
  /\ Names \subseteq Strings /\ Buckets \subseteq Texts \ {Empty}
  /\ \A name \in Names : \A i \in DOMAIN name : \A j \in DOMAIN name[i] : name[i][j].escapes = 0
  /\ \A bucket \in Buckets : \A i \in DOMAIN bucket : bucket[i].escapes = 0
ASSUME MaxHopsAssumption == MaxHops \in Nat

VARIABLES
  bucket, name,    \* the names that the caller gives
  keeps,           \* whether split() keeps an empty text in the middle
  path,            \* the path of the request
  hops,            \* how many proxies have forwarded it
  outcome,
  stored           \* the texts of the bucket and the name in the store

vars == <<bucket, name, keeps, path, hops, outcome, stored>>

Init ==
  /\ bucket \in Buckets /\ name \in Names /\ keeps \in BOOLEAN
  /\ path = <<Empty>> /\ hops = 0 /\ outcome = "called" /\ stored = << >>

(* createRequest, for the client or the n-th proxy: it throws              *)
(* InvalidBucketNameException or makes the request, which is sent.         *)
CreateRequest(bucketName, objectName, n) ==
  \/ /\ ~CheckBucketName(bucketName)
     /\ outcome' = "invalid bucket" /\ UNCHANGED <<path, hops>>
  \/ /\ CheckBucketName(bucketName)
     /\ path' = EncodedPath(bucketName, objectName, keeps)
     /\ outcome' = "sent" /\ hops' = n

PutObject ==
  /\ outcome = "called"
  /\ CreateRequest(bucket, name, 0)
  /\ UNCHANGED <<bucket, name, keeps, stored>>

(* The check of forwardObject: /[BucketName]/[ObjectName]. *)
IsMandatoryUri(slices) == Len(slices) = 2

ForwardObject ==
  LET slices == Split(path, keeps)
  IN  /\ outcome = "sent" /\ hops < MaxHops
      /\ \/ /\ ~IsMandatoryUri(slices)
            /\ outcome' = "not a mandatory URI" /\ UNCHANGED <<path, hops>>
         \/ /\ IsMandatoryUri(slices)
            /\ CreateRequest(slices[1], <<slices[Len(slices)]>>, hops + 1)
      /\ UNCHANGED <<bucket, name, keeps, stored>>

(* The store takes the first text for the bucket, the others for the name. *)
Store ==
  /\ outcome = "sent" /\ outcome' = "stored"
  /\ stored' = [i \in DOMAIN Tail(path) |-> Unescape(Tail(path)[i])]
  /\ UNCHANGED <<bucket, name, keeps, path, hops>>

(* The upload is over. *)
Over == outcome \notin {"called", "sent"} /\ UNCHANGED vars

Next == PutObject \/ ForwardObject \/ Store \/ Over

Spec == Init /\ [][Next]_vars

(***************************************************************************)
(* Properties                                                              *)
(***************************************************************************)

(* The name without its leading slashes, and with one slash for several at *)
(* its end, and in its middle unless split() keeps empty pieces.           *)
Normal ==
  LET texts == Split(name, keeps)
  IN  IF EndsWithSlash(name) THEN Append(texts, Empty) ELSE texts

(* The name consists of one segment, with or without slashes around it.    *)
IsOneSegment == \E i \in DOMAIN name : \A j \in DOMAIN name : name[j] # Empty <=> j = i

(* The texts with n more escapes of every special character.               *)
EscapedTimes(texts, n) ==
  [i \in DOMAIN texts |-> [j \in DOMAIN texts[i] |->
     IF texts[i][j].glyph \in Special THEN [texts[i][j] EXCEPT !.escapes = @ + n] ELSE texts[i][j]]]

(* An object that its client sends straight to the store is there under    *)
(* its name, special characters and a slash at the end included            *)
(* (minioclient.cpp:658-669); so it is the bucket itself that a name of    *)
(* slashes addresses.  Every proxy on the way escapes bucket and name once *)
(* more and drops the slash.                                               *)
StoredUnderItsName ==
  outcome = "stored" =>
    stored = EscapedTimes(<<bucket>> \o (IF hops = 0 THEN Normal ELSE Split(name, keeps)), hops)

(* The n-th proxy takes the bucket's name: with two bytes more for each of *)
(* its special characters at every proxy, it is not too long there.        *)
Fits(n) == Len(bucket) + 2 * n * Cardinality({i \in DOMAIN bucket : bucket[i].glyph \in Special}) \in 3..63

(* How far a request gets.  Whether it names a bucket and one object, the  *)
(* first proxy settles for all (line 148).  Then each one sends it on as   *)
(* long as the bucket, escaped once more than the proxy before received    *)
(* it, passes checkBucketName (lines 621, 774), which the next may not.    *)
RefusedByRule ==
  /\ outcome \in {"sent", "stored"} => Fits(hops)
  /\ hops > 0 => Fits(hops) /\ IsOneSegment
  /\ outcome = "not a mandatory URI" => hops = 0 /\ Fits(0) /\ ~IsOneSegment
  /\ outcome = "invalid bucket" =>
       \/ hops = 0 /\ ~Fits(0)
       \/ IsOneSegment /\ ~Fits(hops + 1)

(* The comment of minioclient.cpp:772-773 on the names of buckets: one     *)
(* that is neither too short nor too long is not refused.                  *)
LegalBucketsPass == outcome = "invalid bucket" => Len(bucket) \notin 3..63

(* The message of minioclient.cpp:149: what a proxy takes from the path is *)
(* the object's name, so that forwarding does not change it.               *)
ForwardedUnderItsName ==
  outcome = "stored" /\ ~EndsWithSlash(name) => stored = <<bucket>> \o Normal
=============================================================================
