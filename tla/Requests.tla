------------------------------ MODULE Requests ------------------------------
(***************************************************************************)
(* MinioClient::createRequest(), checkBucketName() and                     *)
(* shouldOmitPortInHostHeader(): which calls are refused before anything   *)
(* is sent, and which headers the request of the others carries.           *)
(*                                                                         *)
(* Abstractions.  A header value, a body and a digest are tuples, the      *)
(* empty tuple standing for the empty string; digests are injective: the   *)
(* digest of x is a tag paired with x.  Headers are a function of their    *)
(* lower-case names, HTTP names being case-insensitive.  A point in time   *)
(* is a second, the resolution of both time_t and AMZ_DATE_FORMAT.         *)
(***************************************************************************)
EXTENDS Naturals

CONSTANTS NameLength    \* the length of every non-empty bucket name
ASSUME NameLengthAssumption == \A b \in DOMAIN NameLength : NameLength[b] \in Nat \ {0}

Absent    == << >>
EmptyBody == << >>

HeaderNames == {"host", "content-type", "content-md5", "user-agent", "x-amz-date",
                "x-amz-content-sha256", "authorization"}

NoHeaders == [n \in HeaderNames |-> Absent]

Sha256(x) == <<"sha256", x>>
Md5(x)    == <<"md5", x>>

(***************************************************************************)
(* Names                                                                   *)
(***************************************************************************)

(* checkBucketName, the part of it that is compiled. *)
ValidBucketName(name) == NameLength[name] \in 3..63

(* What createRequest throws InvalidBucketNameException for. *)
InvalidName(bucketName, objectName) ==
  IF bucketName = "" THEN objectName # "" ELSE ~ValidBucketName(bucketName)

(* The encoded path of the URL: the bucket's segment and the object's. *)
Path(bucketName, objectName) == [bucket |-> bucketName, object |-> objectName]

(***************************************************************************)
(* Headers                                                                 *)
(***************************************************************************)

(* config: what the constructor of MinioClient was given, and the host and *)
(* port of baseUrl_.                                                       *)
HasCredentials(config) == config.accessKey # "" /\ config.secretKey # ""

ShouldOmitPortInHostHeader(config) == config.port = IF config.secure THEN 443 ELSE 80

Host(config) ==
  IF ShouldOmitPortInHostHeader(config) THEN <<config.host>> ELSE <<config.host, config.port>>

(* A mutant: the digest is taken after the body was moved into the request. *)
PayloadHashOfMovedBody(config, body) ==
  IF ~HasCredentials(config) THEN Absent
  ELSE IF config.secure THEN <<"UNSIGNED-PAYLOAD">> ELSE Sha256(EmptyBody)

(* x-amz-content-sha256: none for an anonymous client, and no digest when  *)
(* TLS protects the body.                                                  *)
PayloadHash(config, body) ==
  IF ~HasCredentials(config) THEN Absent
  ELSE IF config.secure THEN <<"UNSIGNED-PAYLOAD">> ELSE Sha256(body)

(* Content-MD5: for a non-empty body whose SHA-256 is not sent.            *)
(* ("Delete multiple objects", the one POST, has no caller.)               *)
BodyMd5(config, body) ==
  IF body # EmptyBody /\ (~HasCredentials(config) \/ config.secure) THEN Md5(body) ELSE Absent

(* RequestBuilder::header, called when the value is not empty. *)
Set(headers, name, value) ==
  IF value = Absent THEN headers ELSE [headers EXCEPT ![name] = value]

(* The caller's headers, then those of createRequest over them. *)
RequestHeaders(config, headerMap, body, now) ==
  LET md5    == Set(headerMap, "content-md5", BodyMd5(config, body))
      host   == Set(md5, "host", Host(config))
      agent  == Set(host, "user-agent", <<"A-SKY WriterProxy 0.0001">>)
      sha256 == Set(agent, "x-amz-content-sha256", PayloadHash(config, body))
  IN  Set(sha256, "x-amz-date", <<now>>)

(* The request of a call whose names are valid, built at time `now`. *)
CreateRequest(config, method, bucketName, objectName, headerMap, body, now) ==
  [method  |-> method,
   path    |-> Path(bucketName, objectName),
   headers |-> RequestHeaders(config, headerMap, body, now),
   body    |-> body]
=============================================================================
