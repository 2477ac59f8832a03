------------------------------- MODULE Signer -------------------------------
(***************************************************************************)
(* The class Signer of aws_signer.cpp: AWS Signature Version 4.  signV4    *)
(* runs the setters below in their order, each from the fields the earlier *)
(* ones filled; here each is an operator of what it reads.                 *)
(*                                                                         *)
(* SHA-256 and HMAC are injective: a digest is the record of what went in. *)
(* The query string is left out, as it is empty for every request the      *)
(* public operations make.                                                 *)
(***************************************************************************)
EXTENDS Requests, DateTime

IgnoredHeaders == {"authorization", "content-type", "content-length", "user-agent"}

Scope(date, region) == [day |-> Day(date), region |-> region]

SignedHeaders(headers) == {n \in HeaderNames \ IgnoredHeaders : headers[n] # Absent}

CanonicalHeaders(headers) == [n \in SignedHeaders(headers) |-> headers[n]]

CanonicalRequest(request) ==
  [method  |-> request.method,
   path    |-> request.path,
   headers |-> CanonicalHeaders(request.headers),
   payload |-> request.headers["x-amz-content-sha256"]]

StringToSign(date, scope, canonicalRequest) ==
  [date |-> date, scope |-> scope, request |-> Sha256(canonicalRequest)]

(* The chain of HMACs over the day, the region and two fixed strings. *)
SigningKey(secretKey, date, region) == <<secretKey, Day(date), region>>

Signature(signingKey, stringToSign) == [key |-> signingKey, text |-> stringToSign]

(* The Authorization header for a request signed at `date`. *)
Authorization(request, date, region, accessKey, secretKey) ==
  LET scope == Scope(date, region)
      text  == StringToSign(date, scope, CanonicalRequest(request))
  IN  [accessKey     |-> accessKey,
       scope         |-> scope,
       signedHeaders |-> SignedHeaders(request.headers),
       signature     |-> Signature(SigningKey(secretKey, date, region), text)]

(* signV4, run when the clock shows `now`. *)
SignV4(request, region, accessKey, secretKey, now) ==
  LET date == ParseDateTime(request.headers["x-amz-date"], now)
  IN  [request EXCEPT !.headers =
         Set(@, "authorization", <<Authorization(request, date, region, accessKey, secretKey)>>)]
=============================================================================
