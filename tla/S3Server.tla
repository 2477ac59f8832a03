------------------------------ MODULE S3Server ------------------------------
(***************************************************************************)
(* The object store behind the endpoint, as far as the client's code and   *)
(* comments rely on it.  It is not part of the repository.                 *)
(*                                                                         *)
(* An answer is a status and a body of ErrorResponses' tokens; the answer  *)
(* to a HEAD has no body.                                                  *)
(***************************************************************************)
EXTENDS Signer, ErrorResponses

CONSTANT SecretOf    \* the secret key of every access key the store knows

US_EAST_1 == "us-east-1"

Reply(status, ecode) ==
  [status |-> status,
   body   |-> IF ecode = "" THEN << >> ELSE <<"<Code>", ecode, "</Code>">>]

(* Response::isSuccessful() of the HTTP library. *)
IsSuccessful(response) == response.status \in 200..299

(* The digest headers agree with the body that arrived. *)
DigestsMatch(request) ==
  LET sha256 == request.headers["x-amz-content-sha256"]
      md5    == request.headers["content-md5"]
  IN  /\ sha256 \in {<<"UNSIGNED-PAYLOAD">>, Sha256(request.body)}
      /\ md5 \in {Absent, Md5(request.body)}

(* The store signs what arrived again, with the secret of the key that is  *)
(* named, for the time in x-amz-date and the region in the credential.     *)
SignatureMatches(request) ==
  /\ request.headers["authorization"] # Absent
  /\ request.headers["x-amz-date"] # Absent
  /\ LET auth == request.headers["authorization"][1]
         date == request.headers["x-amz-date"][1]
     IN  /\ auth.accessKey \in DOMAIN SecretOf
         /\ auth = Authorization(request, date, auth.scope.region,
                                 auth.accessKey, SecretOf[auth.accessKey])

Authentic(request) == SignatureMatches(request) /\ DigestsMatch(request)

SigningRegion(request) == request.headers["authorization"][1].scope.region

(* The region a PUT of a bucket asks for; none means us-east-1. *)
RequestedLocation(request) ==
  IF request.body = EmptyBody THEN US_EAST_1 ELSE request.body[2]
=============================================================================
