------------------------- MODULE MinioClient_proofs -------------------------
(***************************************************************************)
(* Theorems about MinioClient, for every number of clients and calls and   *)
(* for every configuration, name, size and fault the assumptions allow.    *)
(***************************************************************************)
EXTENDS MinioClient, TLAPS

(***************************************************************************)
(* Operators                                                               *)
(***************************************************************************)

(* The headers of a request keep their names. *)
LEMMA SetDomain ==
  ASSUME NEW headers, DOMAIN headers = HeaderNames, NEW name, NEW value
  PROVE  DOMAIN Set(headers, name, value) = HeaderNames
BY DEF Set

(* The request created for a call has the call's bucket, object and body. *)
LEMMA CreatedRequest ==
  ASSUME NEW a \in Calls, NEW cfg, NEW now, NEW r,
         r = CreateRequest(cfg, Method(a.op), a.bucket, a.object, a.headers, a.body, now)
  PROVE  IsRequest(r) /\ r.path = Path(a.bucket, a.object) /\ r.body = a.body
<1>1. DOMAIN RequestHeaders(cfg, a.headers, a.body, now) = HeaderNames
  <2>1. DOMAIN a.headers = HeaderNames
    BY DEF Calls
  <2> QED
    BY <2>1, SetDomain DEF RequestHeaders
<1>2. /\ DOMAIN r = {"method", "path", "headers", "body"}
      /\ r.headers = RequestHeaders(cfg, a.headers, a.body, now)
      /\ r.method = Method(a.op) /\ r.path = Path(a.bucket, a.object) /\ r.body = a.body
  BY DEF CreateRequest
<1>3. /\ a.bucket \in Buckets \cup {""} /\ a.object \in Objects \cup {""} /\ a.body \in Payloads
  BY DEF Calls
<1>4. Method(a.op) \in {"HEAD", "PUT"}
  BY DEF Method
<1>5. r.path \in [bucket : Buckets \cup {""}, object : Objects \cup {""}]
  <2>1. Path(a.bucket, a.object) \in [bucket : Buckets \cup {""}, object : Objects \cup {""}]
    BY <1>3 DEF Path
  <2> QED
    BY <1>2, <2>1
<1> QED
  BY <1>1, <1>2, <1>3, <1>4, <1>5 DEF IsRequest

(* Signing a request changes nothing but its headers. *)
LEMMA SignedRequest ==
  ASSUME NEW r, IsRequest(r), NEW reg, NEW ak, NEW sk, NEW now
  PROVE  LET s == SignV4(r, reg, ak, sk, now)
         IN  IsRequest(s) /\ s.path = r.path /\ s.body = r.body /\ s.method = r.method
<1> DEFINE value == <<Authorization(r, ParseDateTime(r.headers["x-amz-date"], now), reg, ak, sk)>>
<1>1. DOMAIN Set(r.headers, "authorization", value) = HeaderNames
  BY SetDomain DEF IsRequest
<1>2. SignV4(r, reg, ak, sk, now) = [r EXCEPT !.headers = Set(r.headers, "authorization", value)]
  BY DEF SignV4
<1> HIDE DEF value
<1> QED
  BY <1>1, <1>2 DEF IsRequest

(* Every failed response has one of the codes that an exception carries. *)
LEMMA CodesAreErrors ==
  ASSUME NEW o, NEW b, NEW response
  PROVE  HandleError(o, b, response) \in ErrorCodes
<1>1. \A ecode : CodeOfXml(ecode) \in ErrorCodes
  BY DEF CodeOfXml, ErrorCodes
<1>2. CodeOfStatus(o, b, response.status) \in ErrorCodes
  BY DEF CodeOfStatus, ErrorCodes
<1> QED
  BY <1>1, <1>2 DEF HandleError

LEMMA ResultsAreResults ==
  ASSUME NEW a, NEW response
  PROVE  ResultOf(a, response) \in Results \ {"none", "NoResponse"}
BY CodesAreErrors DEF ResultOf, Results, Exceptions, ErrorCodes

(* The region a bucket request asks for is one of the model's. *)
LEMMA LocationsAreRegions ==
  ASSUME NEW r, r.body \in BucketConfigurations
  PROVE  RequestedLocation(r) \in Regions
<1>1. US_EAST_1 \in Regions
  BY DEF Regions
<1>2. CASE r.body = EmptyBody
  BY <1>1, <1>2 DEF RequestedLocation
<1>3. CASE r.body # EmptyBody
  <2>1. PICK x \in Regions : r.body = <<"LocationConstraint", x>>
    BY <1>3 DEF BucketConfigurations
  <2> QED
    BY <1>3, <2>1 DEF RequestedLocation
<1> QED
  BY <1>2, <1>3

LEMMA IdsArePairs ==
  \A id \in Ids : id = <<id[1], id[2]>> /\ id[1] \in Clients /\ id[2] \in 1..MaxCalls
BY DEF Ids

(***************************************************************************)
(* Types                                                                   *)
(***************************************************************************)

TypeInv == TypeOK /\ BodiesFitObjects

(* The next call of a client is one of the model's. *)
LEMMA NextCall ==
  ASSUME TypeOK, NEW c \in Clients, made[c] < MaxCalls
  PROVE  <<c, made[c] + 1>> \in Ids /\ made[c] + 1 \in 0..MaxCalls
<1>1. made[c] \in 0..MaxCalls /\ MaxCalls \in Nat
  BY BoundsAssumption DEF TypeOK
<1>2. made[c] + 1 \in 1..MaxCalls
  BY <1>1
<1> QED
  BY <1>2 DEF Ids

LEMMA InitType ==
  Init => TypeInv
<1> SUFFICES ASSUME Init PROVE TypeInv
  OBVIOUS
<1>1. \A cfg \in Configs : cfg.region \in Regions
  BY DEF Regions
<1>2. region \in [Clients -> Regions \cup {""}]
  BY <1>1 DEF Init
<1>3. NoHeaders \in [HeaderNames -> {Absent, <<"text/plain">>} \cup ContentTypes]
  BY DEF NoHeaders
<1>4. EmptyBody \in BucketConfigurations /\ EmptyBody \in Payloads
  BY DEF BucketConfigurations, Payloads
<1>5. NoCall \in Calls /\ NoCall.object = "" /\ NoCall.body = EmptyBody
  BY <1>3, <1>4 DEF NoCall, Calls
<1>6. IsRequest(NoRequest) /\ NoRequest.body = EmptyBody
  BY <1>3, <1>4 DEF NoRequest, IsRequest, Path
<1>7. NoAnswer.status \in Nat
  BY DEF NoAnswer
<1>8. location \in [Buckets -> Regions \cup {""}]
  BY DEF Init, Regions
<1>9. made \in [Clients -> 0..MaxCalls] /\ clock \in 0..MaxTime
  <2>1. 0 \in 0..MaxCalls /\ 0 \in 0..MaxTime
    BY BoundsAssumption
  <2> QED
    BY <2>1 DEF Init
<1>10. content \in [Buckets \X Objects -> Payloads]
  BY <1>4 DEF Init
<1>11. TypeOK
  BY <1>2, <1>5, <1>6, <1>7, <1>8, <1>9, <1>10 DEF Init, TypeOK, Phases, Results
<1>12. BodiesFitObjects
  BY <1>4, <1>5, <1>6 DEF Init, BodiesFitObjects
<1> QED
  BY <1>11, <1>12 DEF TypeInv

LEMMA StartType ==
  ASSUME TypeInv, NEW c \in Clients, NEW args \in Calls, Start(c, args),
         args.object = "" => args.body \in BucketConfigurations,
         region' \in [Clients -> Regions \cup {""}]
  PROVE  TypeInv'
<1> USE NextCall DEF TypeInv
<1>1. made[c] < MaxCalls
  BY DEF Start
<1>2. TypeOK'
  BY <1>1 DEF Start, TypeOK, Phases, netVars, storeVars
<1>3. BodiesFitObjects'
  BY <1>1 DEF Start, TypeOK, BodiesFitObjects
<1> QED
  BY <1>2, <1>3

LEMMA ThrowType ==
  ASSUME TypeInv, NEW c \in Clients, NEW args \in Calls, NEW e \in Exceptions, Throw(c, args, e),
         args.object = "" => args.body \in BucketConfigurations
  PROVE  TypeInv'
<1> USE NextCall DEF TypeInv
<1>1. made[c] < MaxCalls
  BY DEF Throw
<1>2. TypeOK'
  BY <1>1 DEF Throw, TypeOK, Phases, Results, netVars, storeVars
<1>3. BodiesFitObjects'
  BY <1>1 DEF Throw, TypeOK, BodiesFitObjects
<1> QED
  BY <1>2, <1>3

LEMMA GetRegionType ==
  ASSUME TypeOK, NEW c \in Clients
  PROVE  GetRegion(c) \in Regions
BY DEF TypeOK, GetRegion, Regions

LEMMA BucketExistsType ==
  ASSUME TypeInv, NEW c \in Clients, NEW b \in Buckets, BucketExists(c, b)
  PROVE  TypeInv'
<1> DEFINE args == [NoCall EXCEPT !.op = "bucketExists", !.bucket = b, !.region = GetRegion(c)]
<1>1. args \in Calls /\ args.body \in BucketConfigurations
  BY GetRegionType DEF TypeInv, Calls, NoCall, NoHeaders, Payloads, BucketConfigurations
<1>2. region' \in [Clients -> Regions \cup {""}]
  BY GetRegionType DEF TypeInv, TypeOK, BucketExists
<1>3. Start(c, args)
  BY DEF BucketExists
<1> QED
  BY <1>1, <1>2, <1>3, StartType

LEMMA MakeBucketType ==
  ASSUME TypeInv, NEW c \in Clients, NEW b \in Buckets, NEW r \in RegionArgs, MakeBucket(c, b, r)
  PROVE  TypeInv'
<1> DEFINE reg  == EffectiveRegion(c, r)
           args == [NoCall EXCEPT !.op = "makeBucket", !.bucket = b, !.region = US_EAST_1,
                                  !.body = BucketConfiguration(reg)]
<1>1. reg \in Regions \cup {""}
  BY DEF TypeInv, TypeOK, EffectiveRegion, Regions
<1>2. BucketConfiguration(reg) \in BucketConfigurations
  BY <1>1 DEF BucketConfiguration, BucketConfigurations
<1>3. args \in Calls /\ args.body \in BucketConfigurations
  BY <1>2 DEF Calls, NoCall, NoHeaders, Payloads, Regions
<1>4. CASE Throw(c, args, "RegionConflict")
  BY <1>3, <1>4, ThrowType DEF Exceptions
<1>5. CASE Start(c, args) /\ UNCHANGED region
  <2>1. region' \in [Clients -> Regions \cup {""}]
    BY <1>5 DEF TypeInv, TypeOK
  <2> QED
    BY <1>3, <1>5, <2>1, StartType
<1> QED
  BY <1>4, <1>5 DEF MakeBucket

LEMMA UploadType ==
  ASSUME TypeInv, NEW c \in Clients, NEW b \in Buckets, NEW o \in Objects, NEW d \in Data,
         NEW t \in ContentTypes, Upload(c, b, o, d, t)
  PROVE  TypeInv'
<1> DEFINE args == [NoCall EXCEPT !.op = "putObject", !.bucket = b, !.object = o,
                      !.body = <<"data", d>>, !.headers = UploadHeaders(t)]
           located == [args EXCEPT !.region = GetRegion(c)]
<1>1. UploadHeaders(t) \in [HeaderNames -> {Absent, <<"text/plain">>} \cup ContentTypes]
  BY DEF UploadHeaders, Set, NoHeaders
<1>2. args \in Calls /\ args.object # ""
  BY <1>1, NamesAssumption DEF Calls, NoCall, Payloads
<1>3. located \in Calls /\ located.object # ""
  BY <1>2, GetRegionType DEF TypeInv, Calls
<1>4. CASE Throw(c, args, "RuntimeError")
  BY <1>2, <1>4, ThrowType DEF Exceptions
<1>5. CASE /\ Start(c, located)
           /\ region' = [region EXCEPT ![c] = GetRegion(c)]
  <2>1. region' \in [Clients -> Regions \cup {""}]
    BY <1>5, GetRegionType DEF TypeInv, TypeOK
  <2> QED
    BY <1>3, <1>5, <2>1, StartType
<1> QED
  BY <1>4, <1>5 DEF Upload

LEMMA PutObjectType ==
  ASSUME TypeInv, NEW c \in Clients, NEW b \in Buckets, NEW o \in Objects, NEW d \in Data,
         NEW t \in ContentTypes, PutObject(c, b, o, d, t)
  PROVE  TypeInv'
<1> DEFINE args == [NoCall EXCEPT !.op = "putObject", !.bucket = b, !.object = o]
<1>1. args \in Calls /\ args.body \in BucketConfigurations
  BY DEF Calls, NoCall, NoHeaders, Payloads, BucketConfigurations
<1>2. CASE Throw(c, args, "ReadFailed")
  BY <1>1, <1>2, ThrowType DEF Exceptions
<1> QED
  BY <1>2, UploadType DEF PutObject

LEMMA ForwardObjectType ==
  ASSUME TypeInv, NEW c \in Clients, NEW slices \in ForwardedPaths, NEW d \in Data,
         NEW t \in ContentTypes, ForwardObject(c, slices, d, t)
  PROVE  TypeInv'
<1> DEFINE args == [NoCall EXCEPT !.op = "putObject"]
<1>1. args \in Calls /\ args.body \in BucketConfigurations
  BY DEF Calls, NoCall, NoHeaders, Payloads, BucketConfigurations
<1>2. CASE Throw(c, args, "RuntimeError")
  BY <1>1, <1>2, ThrowType DEF Exceptions
<1>3. CASE Len(slices) = 2 /\ Upload(c, slices[1], slices[2], d, t)
  <2>1. slices[1] \in Buckets /\ slices[2] \in Objects
    <3>1. \A b : Len(<<b>>) # 2
      OBVIOUS
    <3>2. slices \in (Buckets \ {""}) \X Objects
      BY <1>3, <3>1 DEF ForwardedPaths
    <3> QED
      BY <3>2
  <2> QED
    BY <1>3, <2>1, UploadType
<1> QED
  BY <1>2, <1>3 DEF ForwardObject

(* The request created for a call of a client. *)
LEMMA CreatedRequestOf ==
  ASSUME NEW id, call[id] \in Calls, NEW r,
         r = CreateRequest(config[id[1]], Method(call[id].op), call[id].bucket, call[id].object,
                           call[id].headers, call[id].body, clock)
  PROVE  IsRequest(r) /\ r.path = Path(call[id].bucket, call[id].object) /\ r.body = call[id].body
BY CreatedRequest

LEMMA CreateType ==
  ASSUME TypeInv, NEW id \in Ids, Create(id)
  PROVE  TypeInv'
<1>1. CASE InvalidName(call[id].bucket, call[id].object)
  <2>1. Finish(id, "InvalidBucketName") /\ UNCHANGED <<clientVars, call, request, netVars, storeVars, clock>>
    BY <1>1 DEF Create
  <2>2. TypeOK'
    BY <2>1 DEF Finish, TypeInv, TypeOK, clientVars, netVars, storeVars, Phases, Results, Exceptions
  <2>3. BodiesFitObjects'
    BY <2>1 DEF TypeInv, BodiesFitObjects
  <2> QED
    BY <2>2, <2>3 DEF TypeInv
<1>2. CASE ~InvalidName(call[id].bucket, call[id].object)
  <2>1. call[id] \in Calls /\ (call[id].object = "" => call[id].body \in BucketConfigurations)
    BY DEF TypeInv, TypeOK, BodiesFitObjects
  <2>2. PICK r : r = CreateRequest(config[id[1]], Method(call[id].op), call[id].bucket, call[id].object,
                                 call[id].headers, call[id].body, clock)
    OBVIOUS
  <2>3. IsRequest(r) /\ r.path.object = call[id].object /\ r.body = call[id].body
    <3>1. IsRequest(r) /\ r.path = Path(call[id].bucket, call[id].object) /\ r.body = call[id].body
      BY <2>1, <2>2, CreatedRequestOf
    <3> QED
      BY <3>1 DEF Path
  <2>4. request' = [request EXCEPT ![id] = r] /\ phase' = [phase EXCEPT ![id] = "sign"]
        /\ UNCHANGED <<clientVars, call, outcome, netVars, storeVars, clock>>
    BY <1>2, <2>2 DEF Create
  <2>5. TypeOK'
    BY <2>3, <2>4 DEF TypeInv, TypeOK, clientVars, netVars, storeVars, Phases
  <2>6. BodiesFitObjects'
    BY <2>1, <2>3, <2>4 DEF TypeInv, TypeOK, BodiesFitObjects
  <2> QED
    BY <2>5, <2>6 DEF TypeInv
<1> QED
  BY <1>1, <1>2

LEMMA SendType ==
  ASSUME TypeInv, NEW id \in Ids, Send(id)
  PROVE  TypeInv'
<1>1. PICK r : /\ request' = [request EXCEPT ![id] = r]
               /\ IsRequest(r) /\ r.path = request[id].path /\ r.body = request[id].body
  <2> DEFINE cfg == config[id[1]]
             s == SignV4(request[id], call[id].region, cfg.accessKey, cfg.secretKey, clock)
  <2>1. IsRequest(request[id])
    BY DEF TypeInv, TypeOK
  <2>2. IsRequest(s) /\ s.path = request[id].path /\ s.body = request[id].body
    BY <2>1, SignedRequest
  <2>3. CASE HasCredentials(cfg)
    <3>1. request' = [request EXCEPT ![id] = s]
      BY <2>3 DEF Send
    <3> QED
      BY <2>2, <3>1
  <2>4. CASE ~HasCredentials(cfg)
    <3>1. request' = request
      BY <2>4 DEF Send
    <3>2. request = [request EXCEPT ![id] = request[id]]
      BY DEF TypeInv, TypeOK
    <3> QED
      BY <2>1, <3>1, <3>2
  <2> QED
    BY <2>3, <2>4
<1>2. TypeOK'
  BY <1>1 DEF Send, TypeInv, TypeOK, clientVars, storeVars, Phases
<1>3. BodiesFitObjects'
  BY <1>1 DEF Send, TypeInv, TypeOK, BodiesFitObjects
<1> QED
  BY <1>2, <1>3 DEF TypeInv

LEMMA NoResponseType ==
  ASSUME TypeInv, NEW id \in Ids, NoResponse(id)
  PROVE  TypeInv'
<1>1. TypeOK'
  BY DEF NoResponse, ConnectionFails, Finish, TypeInv, TypeOK, clientVars, netVars, storeVars,
         Phases, Results, Exceptions
<1>2. BodiesFitObjects'
  BY DEF NoResponse, TypeInv, BodiesFitObjects
<1> QED
  BY <1>1, <1>2 DEF TypeInv

LEMMA ReceiveType ==
  ASSUME TypeInv, NEW id \in Ids, Receive(id)
  PROVE  TypeInv'
<1> DEFINE result == ResultOf(call[id], answer[id])
<1>1. result \in Results
  BY ResultsAreResults
<1> HIDE DEF result
<1>2. Finish(id, result) /\ wire' = [wire EXCEPT ![id] = "read"]
      /\ UNCHANGED <<clientVars, call, request, answer, storeVars, clock>>
  BY DEF Receive, result
<1>3. TypeOK'
  BY <1>1, <1>2 DEF Finish, TypeInv, TypeOK, clientVars, storeVars, Phases
<1>4. BodiesFitObjects'
  BY <1>2 DEF TypeInv, BodiesFitObjects
<1> QED
  BY <1>3, <1>4 DEF TypeInv

(* An answer leaves the types alone when what it does to the store does. *)
LEMMA AnswerType ==
  ASSUME TypeInv, NEW id \in Ids, NEW response, response.status \in Nat,
         DOMAIN response = {"status", "body"}, Answer(id, response),
         location' \in [Buckets -> Regions \cup {""}],
         content' \in [Buckets \X Objects -> Payloads],
         served' \in [Ids -> Nat]
  PROVE  TypeInv'
<1> DEFINE reply == IF request[id].method = "HEAD" THEN [response EXCEPT !.body = << >>] ELSE response
           seen  == IF location[request[id].path.bucket] = "" THEN "absent" ELSE "present"
<1>1. reply.status \in Nat
  OBVIOUS
<1>2. seen \in {"unasked", "present", "absent"}
  OBVIOUS
<1> HIDE DEF reply, seen
<1>3. /\ wire' = [wire EXCEPT ![id] = "answer"] /\ answer' = [answer EXCEPT ![id] = reply]
      /\ found' = [found EXCEPT ![id] = seen] /\ UNCHANGED <<clientVars, callVars, clock>>
  BY DEF Answer, reply, seen
<1>4. TypeOK'
  BY <1>1, <1>2, <1>3 DEF TypeInv, TypeOK, clientVars, callVars
<1>5. BodiesFitObjects'
  BY <1>3 DEF TypeInv, BodiesFitObjects, callVars
<1> QED
  BY <1>4, <1>5 DEF TypeInv

LEMMA Replies ==
  ASSUME NEW status \in Nat, NEW ecode
  PROVE  LET r == Reply(status, ecode)
         IN  DOMAIN r = {"status", "body"} /\ r.status = status
BY DEF Reply

LEMMA RefusalType ==
  ASSUME TypeInv, NEW id \in Ids, NEW status \in Nat, NEW ecode, Refusal(id, status, ecode)
  PROVE  TypeInv'
<1>1. Answer(id, Reply(status, ecode)) /\ UNCHANGED <<location, content, served>>
  BY DEF Refusal
<1> QED
  BY <1>1, Replies, AnswerType DEF TypeInv, TypeOK

LEMMA Successors ==
  \A n \in Nat : n + 1 \in Nat
OBVIOUS

LEMMA SuccessType ==
  ASSUME TypeInv, NEW id \in Ids, Success(id),
         location' \in [Buckets -> Regions \cup {""}],
         content' \in [Buckets \X Objects -> Payloads]
  PROVE  TypeInv'
<1>1. Answer(id, Reply(200, "")) /\ served' = [served EXCEPT ![id] = @ + 1]
  BY DEF Success
<1>2. served' \in [Ids -> Nat]
  <2>1. served \in [Ids -> Nat]
    BY DEF TypeInv, TypeOK
  <2>2. served[id] \in Nat
    BY <2>1
  <2> QED
    BY <1>1, <2>1, <2>2, Successors
<1>3. Reply(200, "").status \in Nat /\ DOMAIN Reply(200, "") = {"status", "body"}
  BY DEF Reply
<1> QED
  BY <1>1, <1>2, <1>3, AnswerType

LEMMA ServeType ==
  ASSUME TypeInv, NEW id \in Ids, Serve(id)
  PROVE  TypeInv'
<1> DEFINE r == request[id]
           b == r.path.bucket
           o == r.path.object
<1>1. CASE Fail(id)
  <2>1. PICK f \in Faults : Answer(id, f) /\ UNCHANGED <<location, content, served>>
    BY <1>1 DEF Fail
  <2> QED
    BY <2>1, FaultsAssumption, AnswerType DEF TypeInv, TypeOK
<1>2. CASE Deny(id)
  BY <1>2, RefusalType DEF Deny
<1>3. CASE Obey(id)
  <2>1. IsRequest(r) /\ (o = "" => r.body \in BucketConfigurations)
    BY DEF TypeInv, TypeOK, BodiesFitObjects
  <2>2. b \in Buckets \cup {""} /\ o \in Objects \cup {""} /\ r.body \in Payloads
    BY <2>1 DEF IsRequest
  <2>3. \/ Refusal(id, 405, "MethodNotAllowed")
        \/ Refusal(id, 409, "BucketAlreadyOwnedByYou")
        \/ Refusal(id, 404, "NoSuchBucket")
        \/ Refusal(id, 400, "AuthorizationHeaderMalformed")
        \/ /\ b # "" /\ o = "" /\ Success(id)
           /\ location' = [location EXCEPT ![b] = RequestedLocation(r)] /\ UNCHANGED content
        \/ /\ b # "" /\ (r.method = "HEAD" \/ o # "") /\ Success(id)
           /\ content' = IF r.method = "PUT" THEN [content EXCEPT ![<<b, o>>] = r.body] ELSE content
           /\ UNCHANGED location
    BY <1>3 DEF Obey
  <2>4. CASE \/ Refusal(id, 405, "MethodNotAllowed")
             \/ Refusal(id, 409, "BucketAlreadyOwnedByYou")
             \/ Refusal(id, 404, "NoSuchBucket")
             \/ Refusal(id, 400, "AuthorizationHeaderMalformed")
    BY <2>4, RefusalType
  <2>5. CASE /\ b # "" /\ o = "" /\ Success(id)
             /\ location' = [location EXCEPT ![b] = RequestedLocation(r)] /\ UNCHANGED content
    <3>1. RequestedLocation(r) \in Regions
      BY <2>1, <2>5, LocationsAreRegions
    <3>2. location' \in [Buckets -> Regions \cup {""}]
      BY <2>2, <2>5, <3>1 DEF TypeInv, TypeOK
    <3>3. content' \in [Buckets \X Objects -> Payloads]
      BY <2>5 DEF TypeInv, TypeOK
    <3> QED
      BY <2>5, <3>2, <3>3, SuccessType
  <2>6. CASE /\ b # "" /\ (r.method = "HEAD" \/ o # "") /\ Success(id)
             /\ content' = IF r.method = "PUT" THEN [content EXCEPT ![<<b, o>>] = r.body] ELSE content
             /\ UNCHANGED location
    <3>1. content' \in [Buckets \X Objects -> Payloads]
      BY <2>2, <2>6 DEF TypeInv, TypeOK
    <3>2. location' \in [Buckets -> Regions \cup {""}]
      BY <2>6 DEF TypeInv, TypeOK
    <3> QED
      BY <2>6, <3>1, <3>2, SuccessType
  <2> QED
    BY <2>3, <2>4, <2>5, <2>6
<1> QED
  BY <1>1, <1>2, <1>3 DEF Serve

LEMMA OthersType ==
  ASSUME TypeInv, (\E b \in Deletable : DeleteBucket(b)) \/ Tick \/ UNCHANGED vars
  PROVE  TypeInv'
<1>1. CASE \E b \in Deletable : DeleteBucket(b)
  <2>1. PICK b \in Deletable : DeleteBucket(b)
    BY <1>1
  <2>2. TypeOK'
    BY <2>1, NamesAssumption DEF DeleteBucket, TypeInv, TypeOK, clientVars, callVars, netVars
  <2>3. BodiesFitObjects'
    BY <2>1 DEF DeleteBucket, TypeInv, BodiesFitObjects, callVars
  <2> QED
    BY <2>2, <2>3 DEF TypeInv
<1>2. CASE Tick
  <2>1. clock' \in 0..MaxTime
    <3>1. clock \in 0..MaxTime /\ clock < MaxTime /\ clock' = clock + 1
      BY <1>2 DEF Tick, TypeInv, TypeOK
    <3> QED
      BY <3>1, BoundsAssumption
  <2> QED
    BY <1>2, <2>1 DEF Tick, TypeInv, TypeOK, BodiesFitObjects, clientVars, callVars, netVars, storeVars
<1>3. CASE UNCHANGED vars
  BY <1>3 DEF vars, TypeInv, TypeOK, BodiesFitObjects, clientVars, callVars, netVars, storeVars
<1> QED
  BY <1>1, <1>2, <1>3

LEMMA StepType ==
  TypeInv /\ [Next]_vars => TypeInv'
<1> SUFFICES ASSUME TypeInv, [Next]_vars PROVE TypeInv'
  OBVIOUS
<1>1. ASSUME NEW c \in Clients, Call(c) PROVE TypeInv'
  BY <1>1, BucketExistsType, MakeBucketType, PutObjectType, ForwardObjectType DEF Call
<1>2. ASSUME NEW id \in Ids, Execute(id) PROVE TypeInv'
  BY <1>2, CreateType, SendType, NoResponseType, ReceiveType DEF Execute
<1>3. CASE Environment
  BY <1>3, ServeType, OthersType DEF Environment
<1>4. CASE Terminated \/ UNCHANGED vars
  BY <1>4, OthersType DEF Terminated
<1> QED
  BY <1>1, <1>2, <1>3, <1>4 DEF Next

(* The state of MinioClient keeps its types: an exception is always one    *)
(* the headers declare, with a code other than NO_ERROR, and every bucket  *)
(* is in a region some client or user of the store asked for.              *)
THEOREM TypeCorrect == Spec => []TypeOK
<1>1. TypeInv => TypeOK
  BY DEF TypeInv
<1> QED
  BY <1>1, InitType, StepType, PTL DEF Spec

(***************************************************************************)
(* What a call's phase says of its connection, of the store and of its     *)
(* outcome                                                                 *)
(***************************************************************************)

CallInv == TypeInv /\ CallsAreConsistent

LEMMA InitConsistent ==
  Init => CallsAreConsistent
<1> SUFFICES ASSUME Init, NEW id \in Ids PROVE IsConsistent(id)
  BY DEF CallsAreConsistent
<1>1. id[1] \in Clients /\ id[2] \in 1..MaxCalls
  BY IdsArePairs
<1>2. made[id[1]] = 0
  BY <1>1 DEF Init
<1>3. id[2] > 0
  BY <1>1, BoundsAssumption
<1> QED
  BY <1>2, <1>3 DEF Init, IsConsistent

(* The next call of a client is unused, and taking it leaves the others so. *)
LEMMA NextCallIsUnused ==
  ASSUME CallInv, NEW c \in Clients, made[c] < MaxCalls, NEW id, id = <<c, made[c] + 1>>
  PROVE  id \in Ids /\ phase[id] = "unused" /\ wire[id] = "none" /\ served[id] = 0
<1>1. id \in Ids
  BY NextCall DEF CallInv, TypeInv
<1>2. made[c] \in 0..MaxCalls
  BY DEF CallInv, TypeInv, TypeOK
<1>3. id[2] > made[id[1]]
  BY <1>2, BoundsAssumption
<1> QED
  BY <1>1, <1>3 DEF CallInv, CallsAreConsistent, IsConsistent

LEMMA OtherCallsStayUnused ==
  ASSUME CallInv, NEW c \in Clients, made[c] < MaxCalls, made' = [made EXCEPT ![c] = @ + 1],
         NEW j \in Ids, j # <<c, made[c] + 1>>
  PROVE  j[2] > made'[j[1]] <=> j[2] > made[j[1]]
<1>1. made \in [Clients -> 0..MaxCalls]
  BY DEF CallInv, TypeInv, TypeOK
<1>2. j = <<j[1], j[2]>> /\ j[1] \in Clients /\ j[2] \in 1..MaxCalls
  BY IdsArePairs
<1>3. CASE j[1] # c
  BY <1>1, <1>2, <1>3
<1>4. CASE j[1] = c
  <2>1. j[2] # made[c] + 1
    BY <1>2, <1>4
  <2>2. made'[c] = made[c] + 1 /\ made[c] \in Nat /\ j[2] \in Nat
    BY <1>1, <1>2, BoundsAssumption
  <2> QED
    BY <1>4, <2>1, <2>2
<1> QED
  BY <1>3, <1>4

LEMMA StartConsistent ==
  ASSUME CallInv, NEW c \in Clients, NEW args, Start(c, args)
  PROVE  CallsAreConsistent'
<1> SUFFICES ASSUME NEW j \in Ids PROVE IsConsistent(j)'
  BY DEF CallsAreConsistent
<1> DEFINE id == <<c, made[c] + 1>>
<1>1. /\ made[c] < MaxCalls /\ made' = [made EXCEPT ![c] = @ + 1]
      /\ phase' = [phase EXCEPT ![id] = "create"]
      /\ UNCHANGED <<outcome, wire, answer, served>>
  BY DEF Start, netVars, storeVars
<1>2. phase \in [Ids -> Phases] /\ made \in [Clients -> 0..MaxCalls]
  BY DEF CallInv, TypeInv, TypeOK
<1>3. CASE j = id
  <2>1. phase'[j] = "create" /\ wire[j] = "none" /\ served[j] = 0
    BY <1>1, <1>2, <1>3, NextCallIsUnused
  <2>2. ~(j[2] > made'[j[1]])
    BY <1>1, <1>2, <1>3, BoundsAssumption
  <2> QED
    BY <1>1, <2>1, <2>2 DEF IsConsistent
<1>4. CASE j # id
  <2>1. j[2] > made'[j[1]] <=> j[2] > made[j[1]]
    BY <1>1, <1>4, OtherCallsStayUnused
  <2>2. phase'[j] = phase[j]
    BY <1>1, <1>2, <1>4
  <2>3. IsConsistent(j)
    BY DEF CallInv, CallsAreConsistent
  <2> QED
    BY <1>1, <2>1, <2>2, <2>3 DEF IsConsistent
<1> QED
  BY <1>3, <1>4

LEMMA ThrowConsistent ==
  ASSUME CallInv, NEW c \in Clients, NEW args, NEW e, Throw(c, args, e), e \notin {"returned", "NoResponse"}
  PROVE  CallsAreConsistent'
<1> SUFFICES ASSUME NEW j \in Ids PROVE IsConsistent(j)'
  BY DEF CallsAreConsistent
<1> DEFINE id == <<c, made[c] + 1>>
<1>1. /\ made[c] < MaxCalls /\ made' = [made EXCEPT ![c] = @ + 1]
      /\ phase' = [phase EXCEPT ![id] = "over"] /\ outcome' = [outcome EXCEPT ![id] = e]
      /\ UNCHANGED <<wire, answer, served>>
  BY DEF Throw, netVars, storeVars
<1>2. /\ phase \in [Ids -> Phases] /\ outcome \in [Ids -> Results] /\ made \in [Clients -> 0..MaxCalls]
  BY DEF CallInv, TypeInv, TypeOK
<1>3. CASE j = id
  <2>1. phase'[j] = "over" /\ outcome'[j] = e /\ wire[j] = "none" /\ served[j] = 0
    BY <1>1, <1>2, <1>3, NextCallIsUnused
  <2>2. ~(j[2] > made'[j[1]])
    BY <1>1, <1>2, <1>3, BoundsAssumption
  <2> QED
    BY <1>1, <2>1, <2>2 DEF IsConsistent
<1>4. CASE j # id
  <2>1. j[2] > made'[j[1]] <=> j[2] > made[j[1]]
    BY <1>1, <1>4, OtherCallsStayUnused
  <2>2. phase'[j] = phase[j] /\ outcome'[j] = outcome[j]
    BY <1>1, <1>2, <1>4
  <2>3. IsConsistent(j)
    BY DEF CallInv, CallsAreConsistent
  <2> QED
    BY <1>1, <2>1, <2>2, <2>3 DEF IsConsistent
<1> QED
  BY <1>3, <1>4

(* A step of one call leaves the others consistent. *)
OthersUnchanged(id) ==
  \A j \in Ids \ {id} :
    /\ phase'[j] = phase[j] /\ outcome'[j] = outcome[j] /\ wire'[j] = wire[j]
    /\ answer'[j] = answer[j] /\ served'[j] = served[j]

LEMMA OneCallChanges ==
  ASSUME CallInv, NEW id \in Ids, UNCHANGED made, IsConsistent(id)', OthersUnchanged(id)
  PROVE  CallsAreConsistent'
<1> SUFFICES ASSUME NEW j \in Ids, j # id PROVE IsConsistent(j)'
  BY DEF CallsAreConsistent
<1>1. IsConsistent(j)
  BY DEF CallInv, CallsAreConsistent
<1> QED
  BY <1>1 DEF OthersUnchanged, IsConsistent

LEMMA ExecuteConsistent ==
  ASSUME CallInv, NEW id \in Ids, Execute(id)
  PROVE  CallsAreConsistent'
<1> USE DEF clientVars, netVars, storeVars
<1>1. IsConsistent(id)
  BY DEF CallInv, CallsAreConsistent
<1>2. /\ phase \in [Ids -> Phases] /\ outcome \in [Ids -> Results]
      /\ wire \in [Ids -> {"none", "request", "answer", "read"}]
  BY DEF CallInv, TypeInv, TypeOK
<1> USE DEF OthersUnchanged
<1>3. CASE Create(id)
  <2>1. /\ phase[id] = "create" /\ UNCHANGED <<made, wire, answer, served>>
        /\ \/ phase' = [phase EXCEPT ![id] = "over"]
              /\ outcome' = [outcome EXCEPT ![id] = "InvalidBucketName"]
           \/ phase' = [phase EXCEPT ![id] = "sign"] /\ UNCHANGED outcome
    BY <1>3 DEF Create, Finish
  <2>2. IsConsistent(id)'
    BY <1>1, <1>2, <2>1 DEF IsConsistent
  <2> QED
    BY <1>2, <2>1, <2>2, OneCallChanges
<1>4. CASE Send(id)
  <2>1. /\ phase[id] = "sign" /\ phase' = [phase EXCEPT ![id] = "wait"]
        /\ wire' = [wire EXCEPT ![id] = "request"] /\ UNCHANGED <<made, outcome, answer, served>>
    BY <1>4 DEF Send
  <2>2. IsConsistent(id)'
    BY <1>1, <1>2, <2>1 DEF IsConsistent
  <2> QED
    BY <1>2, <2>1, <2>2, OneCallChanges
<1>5. CASE NoResponse(id)
  <2>1. /\ phase[id] = "wait" /\ phase' = [phase EXCEPT ![id] = "over"]
        /\ outcome' = [outcome EXCEPT ![id] = "NoResponse"] /\ UNCHANGED <<made, wire, answer, served>>
    BY <1>5 DEF NoResponse, ConnectionFails, Finish
  <2>2. IsConsistent(id)'
    BY <1>1, <1>2, <2>1 DEF IsConsistent
  <2> QED
    BY <1>2, <2>1, <2>2, OneCallChanges
<1>6. CASE Receive(id)
  <2> DEFINE result == ResultOf(call[id], answer[id])
  <2>1. result # "NoResponse" /\ (result = "returned" <=> IsSuccessful(answer[id]))
    BY CodesAreErrors DEF ResultOf, ErrorCodes
  <2> HIDE DEF result
  <2>2. /\ phase[id] = "wait" /\ wire[id] = "answer" /\ wire' = [wire EXCEPT ![id] = "read"]
        /\ phase' = [phase EXCEPT ![id] = "over"] /\ outcome' = [outcome EXCEPT ![id] = result]
        /\ UNCHANGED <<made, answer, served>>
    BY <1>6 DEF Receive, Finish, result
  <2>3. IsConsistent(id)'
    BY <1>1, <1>2, <2>1, <2>2 DEF IsConsistent
  <2> QED
    BY <1>2, <2>2, <2>3, OneCallChanges
<1> QED
  BY <1>3, <1>4, <1>5, <1>6 DEF Execute

(* Only a successful answer means that the call was carried out. *)
LEMMA AnswerConsistent ==
  ASSUME CallInv, NEW id \in Ids, NEW response, DOMAIN response = {"status", "body"},
         Answer(id, response),
         served' = IF IsSuccessful(response) THEN [served EXCEPT ![id] = @ + 1] ELSE served
  PROVE  CallsAreConsistent'
<1> DEFINE reply == IF request[id].method = "HEAD" THEN [response EXCEPT !.body = << >>] ELSE response
<1>1. IsSuccessful(reply) <=> IsSuccessful(response)
  BY DEF IsSuccessful
<1> HIDE DEF reply
<1>2. /\ wire[id] = "request" /\ wire' = [wire EXCEPT ![id] = "answer"]
      /\ answer' = [answer EXCEPT ![id] = reply] /\ UNCHANGED <<made, phase, outcome>>
  BY DEF Answer, reply, clientVars, callVars
<1>3. IsConsistent(id) /\ served[id] = 0
  BY <1>2 DEF CallInv, CallsAreConsistent, IsConsistent
<1>4. /\ phase \in [Ids -> Phases] /\ outcome \in [Ids -> Results] /\ served \in [Ids -> Nat]
      /\ wire \in [Ids -> {"none", "request", "answer", "read"}] /\ answer = [i \in Ids |-> answer[i]]
  BY DEF CallInv, TypeInv, TypeOK
<1>5. served'[id] = IF IsSuccessful(reply) THEN 1 ELSE 0
  BY <1>1, <1>3, <1>4
<1>6. wire'[id] = "answer" /\ answer'[id] = reply /\ phase'[id] \in {"wait", "over"}
      /\ (phase'[id] = "over" => outcome'[id] = "NoResponse")
  BY <1>2, <1>3, <1>4 DEF IsConsistent, Phases
<1>7. IsConsistent(id)'
  BY <1>2, <1>3, <1>5, <1>6 DEF IsConsistent
<1>8. OthersUnchanged(id)
  BY <1>2, <1>4 DEF OthersUnchanged
<1> QED
  BY <1>2, <1>7, <1>8, OneCallChanges

LEMMA RefusalConsistent ==
  ASSUME CallInv, NEW id \in Ids, NEW status \in Nat \ (200..299), NEW ecode, Refusal(id, status, ecode)
  PROVE  CallsAreConsistent'
<1>1. Answer(id, Reply(status, ecode)) /\ served' = served
  BY DEF Refusal
<1>2. ~IsSuccessful(Reply(status, ecode)) /\ DOMAIN Reply(status, ecode) = {"status", "body"}
  BY DEF Reply, IsSuccessful
<1> QED
  BY <1>1, <1>2, AnswerConsistent

LEMMA SuccessConsistent ==
  ASSUME CallInv, NEW id \in Ids, Success(id)
  PROVE  CallsAreConsistent'
<1>1. Answer(id, Reply(200, "")) /\ served' = [served EXCEPT ![id] = @ + 1]
  BY DEF Success
<1>2. IsSuccessful(Reply(200, "")) /\ DOMAIN Reply(200, "") = {"status", "body"}
  BY DEF Reply, IsSuccessful
<1> QED
  BY <1>1, <1>2, AnswerConsistent

(* Every way in which the store serves a request either answers without an *)
(* effect, with a status other than 2xx, or carries it out.                *)
LEMMA ServeCases ==
  ASSUME NEW id \in Ids, Serve(id)
  PROVE  \/ \E f \in Faults : Answer(id, f) /\ served' = served
         \/ \E status \in Nat \ (200..299) : \E ecode : Refusal(id, status, ecode)
         \/ Success(id)
<1>1. {400, 403, 404, 405, 409} \subseteq Nat \ (200..299)
  OBVIOUS
<1>2. CASE Fail(id)
  BY <1>2 DEF Fail
<1>3. CASE Deny(id)
  BY <1>1, <1>3 DEF Deny
<1>4. CASE Obey(id)
  <2>1. \/ Refusal(id, 405, "MethodNotAllowed")
        \/ Refusal(id, 409, "BucketAlreadyOwnedByYou")
        \/ Refusal(id, 404, "NoSuchBucket")
        \/ Refusal(id, 400, "AuthorizationHeaderMalformed")
        \/ Success(id)
    BY <1>4 DEF Obey
  <2> QED
    BY <1>1, <2>1
<1> QED
  BY <1>2, <1>3, <1>4 DEF Serve

LEMMA ServeConsistent ==
  ASSUME CallInv, NEW id \in Ids, Serve(id)
  PROVE  CallsAreConsistent'
<1>1. CASE \E f \in Faults : Answer(id, f) /\ served' = served
  BY <1>1, FaultsAssumption, AnswerConsistent
<1>2. CASE \E status \in Nat \ (200..299) : \E ecode : Refusal(id, status, ecode)
  BY <1>2, RefusalConsistent
<1>3. CASE Success(id)
  BY <1>3, SuccessConsistent
<1> QED
  BY <1>1, <1>2, <1>3, ServeCases

LEMMA CallConsistent ==
  ASSUME CallInv, NEW c \in Clients, Call(c)
  PROVE  CallsAreConsistent'
<1>1. ASSUME NEW b, BucketExists(c, b) PROVE CallsAreConsistent'
  BY <1>1, StartConsistent DEF BucketExists
<1>2. ASSUME NEW b, NEW r, MakeBucket(c, b, r) PROVE CallsAreConsistent'
  BY <1>2, StartConsistent, ThrowConsistent DEF MakeBucket
<1>3. ASSUME NEW b, NEW o, NEW d, NEW t, Upload(c, b, o, d, t) PROVE CallsAreConsistent'
  BY <1>3, StartConsistent, ThrowConsistent DEF Upload
<1>4. ASSUME NEW b, NEW o, NEW d, NEW t, PutObject(c, b, o, d, t) PROVE CallsAreConsistent'
  BY <1>3, <1>4, ThrowConsistent DEF PutObject
<1>5. ASSUME NEW slices, NEW d, NEW t, ForwardObject(c, slices, d, t) PROVE CallsAreConsistent'
  BY <1>3, <1>5, ThrowConsistent DEF ForwardObject
<1> QED
  BY <1>1, <1>2, <1>4, <1>5 DEF Call

LEMMA StepConsistent ==
  CallInv /\ [Next]_vars => CallsAreConsistent'
<1> SUFFICES ASSUME CallInv, [Next]_vars PROVE CallsAreConsistent'
  OBVIOUS
<1>1. ASSUME NEW c \in Clients, Call(c) PROVE CallsAreConsistent'
  BY <1>1, CallConsistent
<1>2. ASSUME NEW id \in Ids, Execute(id) PROVE CallsAreConsistent'
  BY <1>2, ExecuteConsistent
<1>3. ASSUME NEW id \in Ids, Serve(id) PROVE CallsAreConsistent'
  BY <1>3, ServeConsistent
<1>4. CASE (\E b \in Deletable : DeleteBucket(b)) \/ Tick \/ Terminated \/ UNCHANGED vars
  <2>1. UNCHANGED <<made, phase, outcome, wire, answer, served>>
    BY <1>4 DEF DeleteBucket, Tick, Terminated, vars, clientVars, callVars, netVars, storeVars
  <2> QED
    BY <2>1 DEF CallInv, CallsAreConsistent, IsConsistent
<1> QED
  BY <1>1, <1>2, <1>3, <1>4 DEF Next, Environment

LEMMA CallInvariant == Spec => []CallInv
<1>1. Init => CallInv
  BY InitType, InitConsistent DEF CallInv
<1>2. CallInv /\ [Next]_vars => CallInv'
  BY StepType, StepConsistent DEF CallInv
<1> QED
  BY <1>1, <1>2, PTL DEF Spec

(* Whatever the network does, the store carries out no call twice: a       *)
(* request is sent once, and none is sent again for a call whose           *)
(* connection failed.                                                      *)
THEOREM CallsCarriedOutOnce == Spec => []CarriedOutOnce
<1>1. CallInv => CarriedOutOnce
  <2> SUFFICES ASSUME CallInv, NEW id \in Ids PROVE served[id] <= 1
    BY DEF CarriedOutOnce
  <2>1. IsConsistent(id) /\ wire[id] \in {"none", "request", "answer", "read"}
    BY DEF CallInv, CallsAreConsistent, TypeInv, TypeOK
  <2>2. served[id] \in {0, 1}
    BY <2>1 DEF IsConsistent
  <2> QED
    BY <2>2
<1> QED
  BY <1>1, CallInvariant, PTL

(***************************************************************************)
(* MinioClient implements RemoteCalls                                      *)
(***************************************************************************)

status     == [id \in Ids |-> StatusOf(id)]
carriedOut == {id \in Ids : served[id] > 0}

(* A step in which one call gets the status s. *)
LEMMA OneStatusChanges ==
  ASSUME NEW id \in Ids, OthersUnchanged(id), NEW s, StatusOf(id)' = s
  PROVE  status' = [status EXCEPT ![id] = s]
<1>1. \A j \in Ids \ {id} : StatusOf(j)' = StatusOf(j)
  BY DEF OthersUnchanged, StatusOf
<1> QED
  BY <1>1 DEF status

LEMMA NothingCarriedOut ==
  ASSUME UNCHANGED served
  PROVE  UNCHANGED carriedOut
BY DEF carriedOut

(* A step in which nothing changes that RemoteCalls speaks of. *)
LEMMA SameStatuses ==
  ASSUME NEW id \in Ids, OthersUnchanged(id), StatusOf(id)' = StatusOf(id), UNCHANGED served
  PROVE  UNCHANGED <<status, carriedOut>>
<1>1. \A j \in Ids : StatusOf(j)' = StatusOf(j)
  BY DEF OthersUnchanged, StatusOf
<1> QED
  BY <1>1, NothingCarriedOut DEF status

LEMMA InitRefines ==
  Init => RC!Init
<1> SUFFICES ASSUME Init PROVE RC!Init
  OBVIOUS
<1>1. ASSUME NEW id \in Ids PROVE StatusOf(id) = "unused" /\ ~(served[id] > 0)
  <2>1. phase[id] = "unused" /\ served[id] = 0
    BY DEF Init
  <2> QED
    BY <2>1 DEF StatusOf
<1> QED
  BY <1>1 DEF RC!Init

RemoteStep == RC!Next \/ UNCHANGED <<status, carriedOut>>

LEMMA StartRefines ==
  ASSUME CallInv, NEW c \in Clients, NEW args, Start(c, args)
  PROVE  RemoteStep
<1> PICK id : id = <<c, made[c] + 1>>
  OBVIOUS
<1>1. made[c] < MaxCalls /\ phase' = [phase EXCEPT ![id] = "create"]
      /\ UNCHANGED <<outcome, wire, answer, served>>
  BY DEF Start, netVars, storeVars
<1>2. id \in Ids /\ phase[id] = "unused"
  BY <1>1, NextCallIsUnused
<1>3. phase \in [Ids -> Phases]
  BY DEF CallInv, TypeInv, TypeOK
<1>4. OthersUnchanged(id)
  BY <1>1, <1>2, <1>3 DEF OthersUnchanged
<1>5. StatusOf(id) = "unused" /\ StatusOf(id)' = "open"
  <2>1. phase'[id] = "create"
    BY <1>1, <1>2, <1>3
  <2> QED
    BY <1>2, <2>1 DEF StatusOf
<1>6. status[id] = "unused" /\ status' = [status EXCEPT ![id] = "open"] /\ UNCHANGED carriedOut
  BY <1>1, <1>2, <1>4, <1>5, OneStatusChanges, NothingCarriedOut DEF status
<1>7. RC!Invoke(id)
  BY <1>6 DEF RC!Invoke, RC!Become, status, carriedOut
<1> QED
  BY <1>2, <1>7 DEF RC!Next, RemoteStep

LEMMA ThrowRefines ==
  ASSUME CallInv, NEW c \in Clients, NEW args, NEW e, Throw(c, args, e), e \notin {"returned", "NoResponse"}
  PROVE  RemoteStep
<1> PICK id : id = <<c, made[c] + 1>>
  OBVIOUS
<1>1. /\ made[c] < MaxCalls /\ phase' = [phase EXCEPT ![id] = "over"]
      /\ outcome' = [outcome EXCEPT ![id] = e] /\ UNCHANGED <<wire, answer, served>>
  BY DEF Throw, netVars, storeVars
<1>2. id \in Ids /\ phase[id] = "unused" /\ served[id] = 0
  BY <1>1, NextCallIsUnused
<1>3. phase \in [Ids -> Phases] /\ outcome \in [Ids -> Results]
  BY DEF CallInv, TypeInv, TypeOK
<1>4. OthersUnchanged(id)
  BY <1>1, <1>2, <1>3 DEF OthersUnchanged
<1>5. StatusOf(id) = "unused" /\ StatusOf(id)' = "refused"
  <2>1. phase'[id] = "over" /\ outcome'[id] = e
    BY <1>1, <1>2, <1>3
  <2> QED
    BY <1>2, <2>1 DEF StatusOf
<1>6. /\ status[id] = "unused" /\ status' = [status EXCEPT ![id] = "refused"]
      /\ id \notin carriedOut /\ UNCHANGED carriedOut
  BY <1>1, <1>2, <1>4, <1>5, OneStatusChanges, NothingCarriedOut DEF status, carriedOut
<1>7. RC!Refuse(id)
  BY <1>6 DEF RC!Refuse, RC!Become, status, carriedOut
<1> QED
  BY <1>2, <1>7 DEF RC!Next, RemoteStep

LEMMA ExecuteRefines ==
  ASSUME CallInv, NEW id \in Ids, Execute(id)
  PROVE  RemoteStep
<1> USE DEF clientVars, netVars, storeVars
<1>1. IsConsistent(id)
  BY DEF CallInv, CallsAreConsistent
<1>2. /\ phase \in [Ids -> Phases] /\ outcome \in [Ids -> Results]
      /\ wire \in [Ids -> {"none", "request", "answer", "read"}]
  BY DEF CallInv, TypeInv, TypeOK
<1>3. ASSUME UNCHANGED served, OthersUnchanged(id), StatusOf(id) = "open",
             StatusOf(id)' \in {"open", "unknown", "refused", "done"},
             StatusOf(id)' = "refused" => served[id] = 0,
             StatusOf(id)' = "done" => served[id] = 1
      PROVE  RemoteStep
  <2>1. CASE StatusOf(id)' = "open"
    BY <1>3, <2>1, SameStatuses DEF RemoteStep
  <2>2. status[id] = "open" /\ UNCHANGED carriedOut
    BY <1>3, NothingCarriedOut DEF status
  <2>3. CASE StatusOf(id)' = "unknown"
    <3>1. status' = [status EXCEPT ![id] = "unknown"]
      BY <1>3, <2>3, OneStatusChanges
    <3>2. RC!LoseTrack(id)
      BY <2>2, <3>1 DEF RC!LoseTrack, RC!Become, status, carriedOut
    <3> QED
      BY <3>2 DEF RC!Next, RemoteStep
  <2>4. CASE StatusOf(id)' = "refused"
    <3>1. status' = [status EXCEPT ![id] = "refused"]
      BY <1>3, <2>4, OneStatusChanges
    <3>2. id \notin carriedOut
      BY <1>3, <2>4 DEF carriedOut
    <3>3. RC!Refuse(id)
      BY <2>2, <3>1, <3>2 DEF RC!Refuse, RC!Become, status, carriedOut
    <3> QED
      BY <3>3 DEF RC!Next, RemoteStep
  <2>5. CASE StatusOf(id)' = "done"
    <3>1. status' = [status EXCEPT ![id] = "done"]
      BY <1>3, <2>5, OneStatusChanges
    <3>2. id \in carriedOut
      BY <1>3, <2>5 DEF carriedOut
    <3>3. RC!Return(id)
      BY <2>2, <3>1, <3>2 DEF RC!Return, RC!Become, status, carriedOut
    <3> QED
      BY <3>3 DEF RC!Next, RemoteStep
  <2> QED
    BY <1>3, <2>1, <2>3, <2>4, <2>5
<1>4. CASE Create(id)
  <2>1. /\ phase[id] = "create" /\ UNCHANGED <<wire, answer, served>>
        /\ \/ phase' = [phase EXCEPT ![id] = "over"]
              /\ outcome' = [outcome EXCEPT ![id] = "InvalidBucketName"]
           \/ phase' = [phase EXCEPT ![id] = "sign"] /\ UNCHANGED outcome
    BY <1>4 DEF Create, Finish
  <2>2. OthersUnchanged(id)
    BY <1>2, <2>1 DEF OthersUnchanged
  <2>3. StatusOf(id) = "open" /\ StatusOf(id)' \in {"open", "refused"} /\ served[id] = 0
    BY <1>1, <1>2, <2>1 DEF StatusOf, IsConsistent
  <2> QED
    BY <1>3, <2>1, <2>2, <2>3
<1>5. CASE Send(id)
  <2>1. /\ phase[id] = "sign" /\ phase' = [phase EXCEPT ![id] = "wait"]
        /\ wire' = [wire EXCEPT ![id] = "request"] /\ UNCHANGED <<outcome, answer, served>>
    BY <1>5 DEF Send
  <2>2. OthersUnchanged(id)
    BY <1>2, <2>1 DEF OthersUnchanged
  <2>3. StatusOf(id) = "open" /\ StatusOf(id)' = "open"
    BY <1>2, <2>1 DEF StatusOf
  <2> QED
    BY <1>3, <2>1, <2>2, <2>3
<1>6. CASE NoResponse(id)
  <2>1. /\ phase[id] = "wait" /\ phase' = [phase EXCEPT ![id] = "over"]
        /\ outcome' = [outcome EXCEPT ![id] = "NoResponse"] /\ UNCHANGED <<wire, answer, served>>
    BY <1>6 DEF NoResponse, ConnectionFails, Finish
  <2>2. OthersUnchanged(id)
    BY <1>2, <2>1 DEF OthersUnchanged
  <2>3. StatusOf(id) = "open" /\ StatusOf(id)' = "unknown"
    BY <1>2, <2>1 DEF StatusOf
  <2> QED
    BY <1>3, <2>1, <2>2, <2>3
<1>7. CASE Receive(id)
  <2> DEFINE result == ResultOf(call[id], answer[id])
  <2>1. result # "NoResponse" /\ (result = "returned" <=> IsSuccessful(answer[id]))
    BY CodesAreErrors DEF ResultOf, ErrorCodes
  <2>2. PICK r : r = result
    OBVIOUS
  <2> HIDE DEF result
  <2>3. /\ phase[id] = "wait" /\ wire[id] = "answer" /\ wire' = [wire EXCEPT ![id] = "read"]
        /\ phase' = [phase EXCEPT ![id] = "over"] /\ outcome' = [outcome EXCEPT ![id] = r]
        /\ UNCHANGED <<answer, served>>
    BY <1>7, <2>2 DEF Receive, Finish, result
  <2>4. OthersUnchanged(id)
    BY <1>2, <2>3 DEF OthersUnchanged
  <2>5. served[id] = IF r = "returned" THEN 1 ELSE 0
    BY <1>1, <2>1, <2>2, <2>3 DEF IsConsistent
  <2>6. StatusOf(id) = "open" /\ StatusOf(id)' = IF r = "returned" THEN "done" ELSE "refused"
    BY <1>2, <2>1, <2>2, <2>3 DEF StatusOf
  <2> QED
    BY <1>3, <2>3, <2>4, <2>5, <2>6
<1> QED
  BY <1>4, <1>5, <1>6, <1>7 DEF Execute

(* The store's steps change no outcome. *)
LEMMA AnswerKeepsStatuses ==
  ASSUME NEW id \in Ids, NEW response, Answer(id, response)
  PROVE  UNCHANGED status
<1>1. UNCHANGED <<phase, outcome>>
  BY DEF Answer, callVars
<1> QED
  BY <1>1 DEF status, StatusOf

LEMMA ServeRefines ==
  ASSUME CallInv, NEW id \in Ids, Serve(id)
  PROVE  RemoteStep
<1>1. CASE \E f \in Faults : Answer(id, f) /\ served' = served
  BY <1>1, AnswerKeepsStatuses, NothingCarriedOut DEF RemoteStep
<1>2. CASE \E st \in Nat \ (200..299) : \E ecode : Refusal(id, st, ecode)
  BY <1>2, AnswerKeepsStatuses, NothingCarriedOut DEF Refusal, RemoteStep
<1>3. CASE Success(id)
  <2>1. Answer(id, Reply(200, "")) /\ wire[id] = "request" /\ served' = [served EXCEPT ![id] = @ + 1]
    BY <1>3 DEF Success, Answer
  <2>2. UNCHANGED status
    BY <2>1, AnswerKeepsStatuses
  <2>3. IsConsistent(id) /\ phase \in [Ids -> Phases] /\ served \in [Ids -> Nat]
    BY DEF CallInv, CallsAreConsistent, TypeInv, TypeOK
  <2>4. served[id] = 0 /\ phase[id] \in {"wait", "over"}
        /\ (phase[id] = "over" => outcome[id] = "NoResponse")
    BY <2>1, <2>3 DEF IsConsistent, Phases
  <2>5. status[id] \in {"open", "unknown"}
    BY <2>4 DEF status, StatusOf
  <2>6. id \notin carriedOut
    BY <2>4 DEF carriedOut
  <2>7. carriedOut' = carriedOut \cup {id}
    <3>1. served'[id] = served[id] + 1 /\ \A j \in Ids \ {id} : served'[j] = served[j]
      BY <2>1, <2>3
    <3>2. served'[id] > 0
      BY <2>4, <3>1
    <3> QED
      BY <3>1, <3>2 DEF carriedOut
  <2>8. RC!CarryOut(id)
    BY <2>2, <2>5, <2>6, <2>7 DEF RC!CarryOut, status, carriedOut
  <2> QED
    BY <2>8 DEF RC!Next, RemoteStep
<1> QED
  BY <1>1, <1>2, <1>3, ServeCases

LEMMA StepRefines ==
  CallInv /\ [Next]_vars => RemoteStep
<1> SUFFICES ASSUME CallInv, [Next]_vars PROVE RemoteStep
  OBVIOUS
<1>1. ASSUME NEW c \in Clients, Call(c) PROVE RemoteStep
  <2>1. ASSUME NEW b, BucketExists(c, b) PROVE RemoteStep
    BY <2>1, StartRefines DEF BucketExists
  <2>2. ASSUME NEW b, NEW r, MakeBucket(c, b, r) PROVE RemoteStep
    BY <2>2, StartRefines, ThrowRefines DEF MakeBucket
  <2>3. ASSUME NEW b, NEW o, NEW d, NEW t, Upload(c, b, o, d, t) PROVE RemoteStep
    BY <2>3, StartRefines, ThrowRefines DEF Upload
  <2>4. ASSUME NEW b, NEW o, NEW d, NEW t, PutObject(c, b, o, d, t) PROVE RemoteStep
    BY <2>3, <2>4, ThrowRefines DEF PutObject
  <2>5. ASSUME NEW slices, NEW d, NEW t, ForwardObject(c, slices, d, t) PROVE RemoteStep
    BY <2>3, <2>5, ThrowRefines DEF ForwardObject
  <2> QED
    BY <1>1, <2>1, <2>2, <2>4, <2>5 DEF Call
<1>2. ASSUME NEW id \in Ids, Execute(id) PROVE RemoteStep
  BY <1>2, ExecuteRefines
<1>3. ASSUME NEW id \in Ids, Serve(id) PROVE RemoteStep
  BY <1>3, ServeRefines
<1>4. CASE (\E b \in Deletable : DeleteBucket(b)) \/ Tick \/ Terminated \/ UNCHANGED vars
  <2>1. UNCHANGED <<phase, outcome, served>>
    BY <1>4 DEF DeleteBucket, Tick, Terminated, vars, clientVars, callVars, netVars, storeVars
  <2>2. UNCHANGED <<status, carriedOut>>
    BY <2>1 DEF status, carriedOut, StatusOf
  <2> QED
    BY <2>2 DEF RemoteStep
<1> QED
  BY <1>1, <1>2, <1>3, <1>4 DEF Next, Environment

(* The client keeps the promise of RemoteCalls: a call that returns was    *)
(* carried out once, one that is refused never is, and only one that ends  *)
(* with NoResponseException may still be carried out, once.                *)
THEOREM Refinement == Spec => KeepsPromise
<1>1. CallInv /\ [Next]_vars => [RC!Next]_(RC!callStateVars)
  BY StepRefines DEF RemoteStep, status, carriedOut, RC!callStateVars
<1> QED
  BY <1>1, InitRefines, CallInvariant, PTL DEF Spec, KeepsPromise, RC!Spec

=============================================================================
