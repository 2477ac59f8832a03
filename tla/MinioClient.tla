---------------------------- MODULE MinioClient ----------------------------
(***************************************************************************)
(* MinioClient objects, each used by one thread, against one object store. *)
(*                                                                         *)
(* A call of makeBucket, bucketExists or putObject runs through            *)
(*   create   createRequest() builds the request and stamps it with the    *)
(*            clock (minioclient.cpp:440)                                  *)
(*   sign     Signer::signV4() signs it with the clock (:444) and          *)
(*            httpClient_.newCall(request).execute() sends it (:462)       *)
(*   wait     the same, until there is an answer or an exception           *)
(*   over     the call has returned or thrown                              *)
(* and the clock, the network, the store and other clients may take steps  *)
(* between any two of these.                                               *)
(*                                                                         *)
(* Call <<c, n>> is the n-th call of client c.  Its connection holds at    *)
(* most one request and one answer; a call whose connection failed may     *)
(* still have its request delivered to the store.                          *)
(***************************************************************************)
EXTENDS S3Server

CONSTANTS
  Clients,             \* the MinioClient objects
  Configs,             \* what their constructor may be given
  Buckets, Objects,    \* names; "" may be among the buckets
  Data,                \* file contents
  DataSize,            \* their sizes, in bytes
  MinMultipartSize,    \* MIN_MULTIPART_SIZE
  ContentTypes,        \* types of content a caller may name; Absent for none
  RegionArgs,          \* regions passed to makeBucket; "" when left out
  Faults,              \* answers with which the store may fail any request
  Deletable,           \* buckets that other users of the store may delete
  InitialLocations,    \* where a bucket may be at the start; "" for nowhere
  MaxCalls, MaxTime    \* bounds: calls per client, seconds

Regions == {US_EAST_1} \cup RegionArgs \cup InitialLocations \cup {cfg.region : cfg \in Configs}

ASSUME ConfigsAssumption ==
  \A cfg \in Configs : DOMAIN cfg = {"secure", "host", "port", "accessKey", "secretKey", "region"}
ASSUME FaultsAssumption ==
  \A f \in Faults : DOMAIN f = {"status", "body"} /\ f.status \in Nat /\ ~IsSuccessful(f)
ASSUME DataAssumption == MinMultipartSize \in Nat /\ \A d \in Data : DataSize[d] \in Nat
ASSUME NamesAssumption ==
  "" \notin Objects /\ Buckets \ {""} \subseteq DOMAIN NameLength /\ Deletable \subseteq Buckets
ASSUME BoundsAssumption == MaxCalls \in Nat /\ MaxTime \in Nat

VARIABLES
  config,       \* of each client: what it was constructed with
  region,       \* of each client: region_
  made,         \* of each client: how many calls it has made
  call,         \* of each call: its operation and arguments
  phase,        \* of each call: how far it got
  outcome,      \* of each call: what it returned or threw
  request,      \* of each call: the HTTP request
  wire,         \* of each call: what its connection carries
  answer,       \* of each call: the response
  location,     \* of each bucket: the region it is in, "" when it does not exist
  content,      \* of each object: its data, EmptyBody when there is none
  served,       \* history: how often the store carried out each call
  found,        \* history: whether the bucket was there when the store saw the call
  clock

clientVars == <<config, region, made>>
callVars   == <<call, phase, outcome, request>>
netVars    == <<wire, answer>>
storeVars  == <<location, content, served, found>>
vars       == <<clientVars, callVars, netVars, storeVars, clock>>

Ids == Clients \X (1..MaxCalls)

Exceptions == ErrorCodes \cup {"NoResponse", "RegionConflict", "InvalidBucketName", "RuntimeError",
                             "ReadFailed"}

NoCall    == [op |-> "", bucket |-> "", object |-> "", body |-> EmptyBody,
              headers |-> NoHeaders, region |-> ""]
NoRequest == [method |-> "", path |-> Path("", ""), headers |-> NoHeaders, body |-> EmptyBody]
NoAnswer  == [status |-> 0, body |-> << >>]

(***************************************************************************)
(* Calls: the part before execute()                                        *)
(***************************************************************************)

(* The thread of client c is in none of its calls. *)
Idle(c) == \A n \in 1..MaxCalls : phase[<<c, n>>] \in {"unused", "over"}

(* The next call of an idle client enters execute(). *)
Start(c, args) ==
  LET id == <<c, made[c] + 1>>
  IN  /\ Idle(c) /\ made[c] < MaxCalls
      /\ made' = [made EXCEPT ![c] = @ + 1]
      /\ call' = [call EXCEPT ![id] = args]
      /\ phase' = [phase EXCEPT ![id] = "create"]
      /\ UNCHANGED <<config, outcome, request, netVars, storeVars, clock>>

(* The next call of an idle client throws before execute(). *)
Throw(c, args, exception) ==
  LET id == <<c, made[c] + 1>>
  IN  /\ Idle(c) /\ made[c] < MaxCalls
      /\ made' = [made EXCEPT ![c] = @ + 1]
      /\ call' = [call EXCEPT ![id] = args]
      /\ phase' = [phase EXCEPT ![id] = "over"]
      /\ outcome' = [outcome EXCEPT ![id] = exception]
      /\ UNCHANGED <<config, region, request, netVars, storeVars, clock>>

(* getRegion: an unset region_ becomes us-east-1, and stays so. *)
GetRegion(c) == IF region[c] = "" THEN US_EAST_1 ELSE region[c]

(* bucketExists, through executeHead. *)
BucketExists(c, b) ==
  /\ Start(c, [NoCall EXCEPT !.op = "bucketExists", !.bucket = b, !.region = GetRegion(c)])
  /\ region' = [region EXCEPT ![c] = GetRegion(c)]

(* A mutant: the region asked for is not compared with the client's. *)
NeverConflicts(c, reg) == FALSE

(* makeBucket's test of the region asked for, reg, against region_. *)
RegionConflict(c, reg) == reg # "" /\ reg # region[c]

(* The region makeBucket uses when it is passed r. *)
EffectiveRegion(c, r) == IF r = "" THEN region[c] ELSE r

(* The CreateBucketConfiguration makeBucket sends: none for us-east-1. *)
BucketConfiguration(reg) ==
  IF reg \in {"", US_EAST_1} THEN EmptyBody ELSE <<"LocationConstraint", reg>>

(* makeBucket: always signed for us-east-1, and region_ is left alone. *)
MakeBucket(c, b, r) ==
  LET reg  == EffectiveRegion(c, r)
      args == [NoCall EXCEPT !.op = "makeBucket", !.bucket = b, !.region = US_EAST_1,
                             !.body = BucketConfiguration(reg)]
  IN  \/ RegionConflict(c, reg) /\ Throw(c, args, "RegionConflict")
      \/ ~RegionConflict(c, reg) /\ Start(c, args) /\ UNCHANGED region

(* The headers of an upload: text/plain unless its caller names a type. *)
UploadHeaders(type) ==
  Set(NoHeaders, "content-type", IF type = Absent THEN <<"text/plain">> ELSE type)

(* The private putObject: one PUT, as multipart transfers are not supported. *)
Upload(c, b, o, d, type) ==
  LET args == [NoCall EXCEPT !.op = "putObject", !.bucket = b, !.object = o,
                 !.body = <<"data", d>>, !.headers = UploadHeaders(type)]
  IN  \/ /\ DataSize[d] > MinMultipartSize
         /\ Throw(c, args, "RuntimeError")
      \/ /\ DataSize[d] <= MinMultipartSize
         /\ Start(c, [args EXCEPT !.region = GetRegion(c)])
         /\ region' = [region EXCEPT ![c] = GetRegion(c)]

(* putObject of a file: readAll gives its data d, or the name is empty, or *)
(* readAll throws.                                                         *)
PutObject(c, b, o, d, type) ==
  \/ Throw(c, [NoCall EXCEPT !.op = "putObject", !.bucket = b, !.object = o], "ReadFailed")
  \/ Upload(c, b, o, d, type)

(* forwardObject of a request with body d, whose path is split into slices. *)
ForwardObject(c, slices, d, type) ==
  \/ /\ Len(slices) # 2
     /\ Throw(c, [NoCall EXCEPT !.op = "putObject"], "RuntimeError")
  \/ /\ Len(slices) = 2
     /\ Upload(c, slices[1], slices[2], d, type)

(***************************************************************************)
(* execute()                                                               *)
(***************************************************************************)

(* The call leaves execute() with `result`. *)
Finish(id, result) ==
  /\ phase' = [phase EXCEPT ![id] = "over"]
  /\ outcome' = [outcome EXCEPT ![id] = result]

Method(op) == IF op = "bucketExists" THEN "HEAD" ELSE "PUT"

Create(id) ==
  LET a == call[id]
  IN  /\ phase[id] = "create"
      /\ \/ /\ InvalidName(a.bucket, a.object)
            /\ Finish(id, "InvalidBucketName")
            /\ UNCHANGED request
         \/ /\ ~InvalidName(a.bucket, a.object)
            /\ request' = [request EXCEPT ![id] =
                 CreateRequest(config[id[1]], Method(a.op), a.bucket, a.object,
                               a.headers, a.body, clock)]
            /\ phase' = [phase EXCEPT ![id] = "sign"]
            /\ UNCHANGED outcome
      /\ UNCHANGED <<clientVars, call, netVars, storeVars, clock>>

(* Signs the request, unless the client is anonymous, and hands it to      *)
(* newCall().  If it never reaches the store, wire stays as it is.         *)
Send(id) ==
  LET cfg == config[id[1]]
  IN  /\ phase[id] = "sign"
      /\ phase' = [phase EXCEPT ![id] = "wait"]
      /\ request' = IF HasCredentials(cfg)
                    THEN [request EXCEPT ![id] =
                            SignV4(@, call[id].region, cfg.accessKey, cfg.secretKey, clock)]
                    ELSE request
      /\ wire' = [wire EXCEPT ![id] = "request"]
      /\ UNCHANGED <<clientVars, call, outcome, answer, storeVars, clock>>

(* A mutant: a failed connection is tried again. *)
ConnectionFailsRetry(id) ==
  /\ phase[id] = "wait"
  /\ phase' = [phase EXCEPT ![id] = "sign"]
  /\ UNCHANGED outcome

(* A mutant: the missing answer goes unnoticed. *)
ConnectionFailsUnnoticed(id) ==
  phase[id] = "wait" /\ Finish(id, "returned")

(* newCall(...).execute() throws, or gives an empty response: execute()    *)
(* catches the exception and throws NoResponseException.                   *)
ConnectionFails(id) ==
  phase[id] = "wait" /\ Finish(id, "NoResponse")

NoResponse(id) ==
  /\ ConnectionFails(id)
  /\ UNCHANGED <<clientVars, call, request, netVars, storeVars, clock>>

(* What the caller gets for a response; bucketExists catches the exception *)
(* that says NO_SUCH_BUCKET.                                               *)
ResultOf(a, response) ==
  LET code == HandleError(a.object, a.bucket, response)
  IN  IF IsSuccessful(response) THEN "returned"
      ELSE IF a.op = "bucketExists" /\ code = "NO_SUCH_BUCKET" THEN "false"
      ELSE code

Receive(id) ==
  /\ phase[id] = "wait" /\ wire[id] = "answer"
  /\ wire' = [wire EXCEPT ![id] = "read"]
  /\ Finish(id, ResultOf(call[id], answer[id]))
  /\ UNCHANGED <<clientVars, call, request, answer, storeVars, clock>>

(***************************************************************************)
(* The network and the store (not part of the repository)                  *)
(***************************************************************************)

(* The store answers a call; an answer to HEAD has no body. *)
Answer(id, response) ==
  /\ wire[id] = "request"
  /\ wire' = [wire EXCEPT ![id] = "answer"]
  /\ answer' = [answer EXCEPT ![id] =
                  IF request[id].method = "HEAD" THEN [response EXCEPT !.body = << >>] ELSE response]
  /\ found' = [found EXCEPT ![id] =
                  IF location[request[id].path.bucket] = "" THEN "absent" ELSE "present"]
  /\ UNCHANGED <<clientVars, callVars, clock>>

(* An answer without an effect. *)
Refusal(id, status, ecode) ==
  Answer(id, Reply(status, ecode)) /\ UNCHANGED <<location, content, served>>

(* An answer to a request that is carried out. *)
Success(id) ==
  /\ Answer(id, Reply(200, ""))
  /\ served' = [served EXCEPT ![id] = @ + 1]

Fail(id) ==
  \E f \in Faults : Answer(id, f) /\ UNCHANGED <<location, content, served>>

Deny(id) == ~Authentic(request[id]) /\ Refusal(id, 403, "SignatureDoesNotMatch")

(* An authentic request for the bucket or the object of its path. *)
Obey(id) ==
  LET r == request[id]
      b == r.path.bucket
      o == r.path.object
  IN  /\ wire[id] = "request" /\ Authentic(r)
      /\ \/ /\ b = ""
            /\ Refusal(id, 405, "MethodNotAllowed")
         \/ /\ b # "" /\ r.method = "PUT" /\ o = "" /\ location[b] # ""
            /\ Refusal(id, 409, "BucketAlreadyOwnedByYou")
         \/ /\ b # "" /\ r.method = "PUT" /\ o = "" /\ location[b] = ""
            /\ Success(id)
            /\ location' = [location EXCEPT ![b] = RequestedLocation(r)]
            /\ UNCHANGED content
         \/ /\ b # "" /\ (r.method = "HEAD" \/ o # "") /\ location[b] = ""
            /\ Refusal(id, 404, "NoSuchBucket")
         \/ /\ b # "" /\ (r.method = "HEAD" \/ o # "") /\ location[b] \notin {"", SigningRegion(r)}
            /\ Refusal(id, 400, "AuthorizationHeaderMalformed")
         \/ /\ b # "" /\ (r.method = "HEAD" \/ o # "") /\ location[b] = SigningRegion(r)
            /\ Success(id)
            /\ content' = IF r.method = "PUT" THEN [content EXCEPT ![<<b, o>>] = r.body] ELSE content
            /\ UNCHANGED location

Serve(id) == Fail(id) \/ Deny(id) \/ Obey(id)

(* Another user of the store deletes an empty bucket. *)
DeleteBucket(b) ==
  /\ location[b] # "" /\ \A o \in Objects : content[<<b, o>>] = EmptyBody
  /\ location' = [location EXCEPT ![b] = ""]
  /\ UNCHANGED <<clientVars, callVars, netVars, content, served, found, clock>>

Tick ==
  /\ clock < MaxTime
  /\ clock' = clock + 1
  /\ UNCHANGED <<clientVars, callVars, netVars, storeVars>>

(***************************************************************************)
(* The specification                                                       *)
(***************************************************************************)

Init ==
  /\ config \in [Clients -> Configs]
  /\ region = [c \in Clients |-> config[c].region]
  /\ made = [c \in Clients |-> 0]
  /\ call = [i \in Ids |-> NoCall]
  /\ phase = [i \in Ids |-> "unused"]
  /\ outcome = [i \in Ids |-> "none"]
  /\ request = [i \in Ids |-> NoRequest]
  /\ wire = [i \in Ids |-> "none"]
  /\ answer = [i \in Ids |-> NoAnswer]
  /\ location \in {l \in [Buckets -> InitialLocations \cup {""}] : \A b \in Buckets : b = "" => l[b] = ""}
  /\ content = [k \in Buckets \X Objects |-> EmptyBody]
  /\ served = [i \in Ids |-> 0]
  /\ found = [i \in Ids |-> "unasked"]
  /\ clock = 0

(* Paths of forwarded requests, split: too short, or a bucket and an object. *)
ForwardedPaths == LET Named == Buckets \ {""} IN {<<b>> : b \in Named} \cup (Named \X Objects)

Call(c) ==
  \/ \E b \in Buckets : BucketExists(c, b)
  \/ \E b \in Buckets, r \in RegionArgs : MakeBucket(c, b, r)
  \/ \E d \in Data, t \in ContentTypes :
       \/ \E b \in Buckets, o \in Objects : PutObject(c, b, o, d, t)
       \/ \E slices \in ForwardedPaths : ForwardObject(c, slices, d, t)

Execute(id) == Create(id) \/ Send(id) \/ NoResponse(id) \/ Receive(id)

Environment ==
  \/ \E id \in Ids : Serve(id)
  \/ \E b \in Deletable : DeleteBucket(b)
  \/ Tick

(* Every client has made its calls. *)
Terminated ==
  /\ \A c \in Clients : made[c] = MaxCalls /\ Idle(c)
  /\ UNCHANGED vars

Next ==
  \/ \E c \in Clients : Call(c)
  \/ \E id \in Ids : Execute(id)
  \/ Environment
  \/ Terminated

Spec == Init /\ [][Next]_vars

(* The thread of a call runs, and blocks only in newCall().execute(), which *)
(* ends when the answer arrives or the connection breaks: one of the two   *)
(* must happen, as the code sets no timeout of its own.  Nothing makes the *)
(* client call or the clock move.                                          *)
Fairness ==
  \A id \in Ids :
    /\ WF_vars(Create(id)) /\ WF_vars(Send(id))
    /\ WF_vars(phase[id] = "wait" /\ (Serve(id) \/ Receive(id) \/ NoResponse(id)))

(***************************************************************************)
(* Properties                                                              *)
(***************************************************************************)

(* The bodies of bucket requests, and all bodies. *)
BucketConfigurations == {EmptyBody} \cup {<<"LocationConstraint", r>> : r \in Regions \ {""}}
Payloads == BucketConfigurations \cup {<<"data", d>> : d \in Data}

Calls   == [op : {"", "bucketExists", "makeBucket", "putObject"},
            bucket : Buckets \cup {""}, object : Objects \cup {""}, body : Payloads,
            headers : [HeaderNames -> {Absent, <<"text/plain">>} \cup ContentTypes],
            region : Regions \cup {""}]
Phases  == {"unused", "create", "sign", "wait", "over"}
Results == {"none", "returned", "false"} \cup Exceptions

(* A request for a bucket and an object of the model, with all its headers. *)
IsRequest(r) ==
  /\ DOMAIN r = {"method", "path", "headers", "body"}
  /\ r.method \in {"", "HEAD", "PUT"}
  /\ r.path \in [bucket : Buckets \cup {""}, object : Objects \cup {""}]
  /\ r.body \in Payloads
  /\ DOMAIN r.headers = HeaderNames

(* The state's types: every exception is one the headers declare, with a   *)
(* code other than NO_ERROR, and every bucket is in a region of the model. *)
TypeOK ==
  /\ config \in [Clients -> Configs]
  /\ region \in [Clients -> Regions \cup {""}]
  /\ made \in [Clients -> 0..MaxCalls]
  /\ call \in [Ids -> Calls]
  /\ phase \in [Ids -> Phases]
  /\ outcome \in [Ids -> Results]
  /\ request = [i \in Ids |-> request[i]] /\ \A i \in Ids : IsRequest(request[i])
  /\ wire \in [Ids -> {"none", "request", "answer", "read"}]
  /\ answer = [i \in Ids |-> answer[i]] /\ \A i \in Ids : answer[i].status \in Nat
  /\ location \in [Buckets -> Regions \cup {""}]
  /\ content \in [Buckets \X Objects -> Payloads]
  /\ served \in [Ids -> Nat]
  /\ found \in [Ids -> {"unasked", "present", "absent"}]
  /\ clock \in 0..MaxTime

(* A call, or a request, that names no object has a bucket's body. *)
BodiesFitObjects ==
  \A id \in Ids :
    /\ call[id].object = "" => call[id].body \in BucketConfigurations
    /\ request[id].path.object = "" => request[id].body \in BucketConfigurations

(* How far a call got decides what its connection may carry, what the      *)
(* store may have done for it, and what the caller may have been told.     *)
IsConsistent(id) ==
  /\ phase[id] = "unused" <=> id[2] > made[id[1]]
  /\ phase[id] \in {"unused", "create", "sign"} => wire[id] = "none"
  /\ phase[id] = "wait" => wire[id] \in {"request", "answer"}
  /\ phase[id] = "over" /\ outcome[id] # "NoResponse" => wire[id] \in {"none", "read"}
  /\ wire[id] \in {"none", "request"} => served[id] = 0
  /\ wire[id] \in {"answer", "read"} => served[id] = IF IsSuccessful(answer[id]) THEN 1 ELSE 0
  /\ phase[id] = "over" /\ outcome[id] # "NoResponse"
       => (outcome[id] = "returned" <=> served[id] = 1)

CallsAreConsistent == \A id \in Ids : IsConsistent(id)

(* What the caller of a call knows of it. *)
StatusOf(id) ==
  IF phase[id] = "unused" THEN "unused"
  ELSE IF phase[id] # "over" THEN "open"
  ELSE IF outcome[id] = "returned" THEN "done"
  ELSE IF outcome[id] = "NoResponse" THEN "unknown"
  ELSE "refused"

RC == INSTANCE RemoteCalls WITH
        status     <- [id \in Ids |-> StatusOf(id)],
        carriedOut <- {id \in Ids : served[id] > 0}

(* execute() keeps the promise of RemoteCalls whatever the network, the    *)
(* store and the other clients do between its steps.                       *)
KeepsPromise == RC!Spec

(* No call is carried out twice: execute() sends its request once and does *)
(* not try again, so makeBucket and putObject need not be idempotent.      *)
CarriedOutOnce == \A id \in Ids : served[id] <= 1

(* bucketExists() is true, or a call says NO_SUCH_BUCKET, only when the    *)
(* bucket was there, or was not, at the moment the store saw the request:  *)
(* handleError() guesses the reason from the status of a bodyless answer.  *)
BucketReportsAreTrue ==
  \A id \in Ids :
    /\ outcome[id] \in {"false", "NO_SUCH_BUCKET"} => found[id] = "absent"
    /\ outcome[id] = "returned" /\ call[id].op = "bucketExists" => found[id] = "present"

(* The credentials of a client are ones the store knows. *)
GoodCredentials(cfg) ==
  cfg.accessKey \in DOMAIN SecretOf /\ HasCredentials(cfg) /\ cfg.secretKey = SecretOf[cfg.accessKey]

StampedAt(r) == r.headers["x-amz-date"][1]
SignedAt(r)  == r.headers["authorization"][1].signature.text.date

(* A request sent with good credentials is authentic exactly when the      *)
(* clock read for its x-amz-date header and the one read by signV4 agree.  *)
AuthenticUnlessClockMoved ==
  \A id \in Ids :
    wire[id] = "request" /\ GoodCredentials(config[id[1]]) =>
      (Authentic(request[id]) <=> StampedAt(request[id]) = SignedAt(request[id]))

(* What aws_signer.cpp:29 asks for: the time of a signature is the one in  *)
(* the request's x-amz-date header, so good credentials are enough.        *)
GoodCredentialsSuffice ==
  \A id \in Ids :
    wire[id] = "request" /\ GoodCredentials(config[id[1]]) => Authentic(request[id])

(* The other requests of a client are signed for the region that its       *)
(* makeBucket puts buckets in, in whichever order the calls are made:      *)
(* region_ is set by getRegion() but tested by makeBucket().               *)
OneHomeRegion ==
  \A i, j \in Ids :
    /\ i[1] = j[1]
    /\ call[i].op = "makeBucket" /\ wire[i] # "none"
    /\ call[j].op # "makeBucket" /\ wire[j] # "none"
    => call[j].region = RequestedLocation(request[i])

(* makeBucket's comment and message, minioclient.cpp:77-81: the region     *)
(* passed to it can only conflict with one the constructor was given.      *)
ConflictOnlyWithConstructor ==
  \A id \in Ids : outcome[id] = "RegionConflict" => config[id[1]].region # ""

UploadsTo(b, o) == {id \in Ids : call[id].op = "putObject" /\ call[id].bucket = b /\ call[id].object = o}

(* Upload i may still reach the store, or the caller cannot know if it did. *)
Unsettled(i) == phase[i] # "over" \/ outcome[i] = "NoResponse"

(* An object holds what a successful upload put there, which none of its   *)
(* client's later successful uploads replaced, unless an upload that is    *)
(* running or went unanswered (minioclient.cpp:467-473) put it there; it   *)
(* is empty only when no upload has succeeded.                             *)
LastUploadWins ==
  \A b \in Buckets, o \in Objects :
    LET uploads    == UploadsTo(b, o)
        successful == {i \in uploads : outcome[i] = "returned"}
    IN  \/ content[<<b, o>>] = EmptyBody /\ successful = {}
        \/ \E i \in uploads :
             /\ content[<<b, o>>] = call[i].body
             /\ \/ Unsettled(i)
                \/ i \in successful /\ \A j \in successful : j[1] = i[1] => j[2] <= i[2]

(* Every call that is made ends: it returns or throws. *)
CallsEnd == \A id \in Ids : phase[id] = "create" ~> phase[id] = "over"
=============================================================================
