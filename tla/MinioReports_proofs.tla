------------------------- MODULE MinioReports_proofs -------------------------
(***************************************************************************)
(* Theorems about what the clients of MinioClient send, that every request *)
(* is the one createRequest() and signV4() make of a call, and about what  *)
(* follows for signatures and regions, for what the callers are told of    *)
(* buckets, and for what their uploads leave in the store.                 *)
(***************************************************************************)
EXTENDS MinioClient_proofs

(***************************************************************************)
(* The steps of the specification                                          *)
(***************************************************************************)

HomeStays == \A d \in Clients : GetRegion(d)' = GetRegion(d)

(* What an operation may throw itself, before execute(). *)
EarlyExceptions == {"RegionConflict", "RuntimeError", "ReadFailed"}

(* What starting a call, or throwing before it is sent, does. *)
Opens(c, args, id) ==
  /\ id = <<c, made[c] + 1>> /\ made[c] < MaxCalls /\ Idle(c)
  /\ made' = [made EXCEPT ![c] = @ + 1]
  /\ call' = [call EXCEPT ![id] = args]
  /\ \/ phase' = [phase EXCEPT ![id] = "create"] /\ outcome' = outcome
     \/ phase' = [phase EXCEPT ![id] = "over"] /\ \E e \in EarlyExceptions : outcome' = [outcome EXCEPT ![id] = e]
  /\ UNCHANGED <<config, request, wire, answer, location, content, served, found, clock>>

LEMMA StartOpens ==
  ASSUME NEW c \in Clients, NEW args, Start(c, args)
  PROVE  Opens(c, args, <<c, made[c] + 1>>)
BY DEF Start, Opens, netVars, storeVars

LEMMA ThrowOpens ==
  ASSUME NEW c \in Clients, NEW args, NEW e \in EarlyExceptions, Throw(c, args, e)
  PROVE  Opens(c, args, <<c, made[c] + 1>>)
BY DEF Throw, Opens, netVars, storeVars

(* What an operation passes to execute(), for a client whose getRegion()   *)
(* gives home.                                                             *)
IsPassed(a, home) ==
  /\ a.op \in {"bucketExists", "makeBucket", "putObject"}
  /\ a.op = "putObject" <=> a.object # ""
  /\ \A n \in HeaderNames \ {"content-type"} : a.headers[n] = Absent
  /\ a.region # ""
  /\ IF a.op = "makeBucket" THEN RequestedLocation(a) = home ELSE a.region = home

LEMMA HomesAreNames ==
  ASSUME NEW c \in Clients
  PROVE  GetRegion(c) # ""
BY DEF GetRegion, US_EAST_1

(* getRegion() latches what it has returned. *)
LEMMA LatchingKeepsHomes ==
  ASSUME TypeInv, NEW c \in Clients,
         region' = region \/ region' = [region EXCEPT ![c] = GetRegion(c)]
  PROVE  HomeStays
<1> SUFFICES ASSUME NEW d \in Clients PROVE GetRegion(d)' = GetRegion(d)
  BY DEF HomeStays
<1>1. region \in [Clients -> Regions \cup {""}]
  BY DEF TypeInv, TypeOK
<1>2. region'[d] = region[d] \/ region'[d] = GetRegion(d)
  BY <1>1
<1> QED
  BY <1>2, HomesAreNames DEF GetRegion

(* A call either passes its arguments to execute() or throws before. *)
PassesOr(c, args) ==
  /\ Opens(c, args, <<c, made[c] + 1>>)
  /\ \/ phase' = [phase EXCEPT ![<<c, made[c] + 1>>] = "over"]
     \/ IsPassed(args, GetRegion(c))
  /\ HomeStays

LEMMA NoHeadersAbsent ==
  \A n \in HeaderNames : NoHeaders[n] = Absent
BY DEF NoHeaders

LEMMA ThrowPasses ==
  ASSUME TypeInv, NEW c \in Clients, NEW args, NEW e \in EarlyExceptions, Throw(c, args, e)
  PROVE  PassesOr(c, args)
<1>1. phase' = [phase EXCEPT ![<<c, made[c] + 1>>] = "over"] /\ region' = region
  BY DEF Throw
<1> QED
  BY <1>1, ThrowOpens, LatchingKeepsHomes DEF PassesOr

LEMMA BucketExistsPasses ==
  ASSUME TypeInv, NEW c \in Clients, NEW b, BucketExists(c, b)
  PROVE  \E args : PassesOr(c, args)
<1> DEFINE args == [NoCall EXCEPT !.op = "bucketExists", !.bucket = b, !.region = GetRegion(c)]
<1>1. Start(c, args) /\ region' = [region EXCEPT ![c] = GetRegion(c)]
  BY DEF BucketExists
<1>2. IsPassed(args, GetRegion(c))
  BY HomesAreNames, NoHeadersAbsent DEF NoCall, IsPassed
<1>3. PassesOr(c, args)
  BY <1>1, <1>2, StartOpens, LatchingKeepsHomes DEF PassesOr
<1> QED
  BY <1>3

(* makeBucket that finds no conflict asks for the client's home region. *)
LEMMA MakeBucketPasses ==
  ASSUME TypeInv, NEW c \in Clients, NEW b, NEW r, MakeBucket(c, b, r)
  PROVE  \E args : PassesOr(c, args)
<1> DEFINE reg  == EffectiveRegion(c, r)
           args == [NoCall EXCEPT !.op = "makeBucket", !.bucket = b, !.region = US_EAST_1,
                                  !.body = BucketConfiguration(reg)]
<1>1. CASE Throw(c, args, "RegionConflict")
  BY <1>1, ThrowPasses DEF EarlyExceptions
<1>2. CASE ~RegionConflict(c, reg) /\ Start(c, args) /\ UNCHANGED region
  <2>1. reg = region[c]
    BY <1>2 DEF RegionConflict, EffectiveRegion
  <2>2. \A x, y : <<x, y>> # << >> /\ <<x, y>>[2] = y
    OBVIOUS
  <2>3. RequestedLocation(args) = GetRegion(c)
    <3>1. args.body = BucketConfiguration(region[c])
      BY <2>1 DEF NoCall
    <3> HIDE DEF args, reg
    <3> QED
      BY <2>2, <3>1 DEF RequestedLocation, BucketConfiguration, GetRegion, EmptyBody
  <2>4. IsPassed(args, GetRegion(c))
    BY <2>3, NoHeadersAbsent DEF NoCall, IsPassed, US_EAST_1
  <2>5. PassesOr(c, args)
    BY <1>2, <2>4, StartOpens, LatchingKeepsHomes DEF PassesOr
  <2> QED
    BY <2>5
<1> QED
  BY <1>1, <1>2 DEF MakeBucket

LEMMA UploadPasses ==
  ASSUME TypeInv, NEW c \in Clients, NEW b, NEW o \in Objects, NEW d, NEW t, Upload(c, b, o, d, t)
  PROVE  \E args : PassesOr(c, args)
<1> DEFINE args == [NoCall EXCEPT !.op = "putObject", !.bucket = b, !.object = o,
                      !.body = <<"data", d>>, !.headers = UploadHeaders(t)]
           located == [args EXCEPT !.region = GetRegion(c)]
<1>1. CASE Throw(c, args, "RuntimeError")
  BY <1>1, ThrowPasses DEF EarlyExceptions
<1>2. CASE Start(c, located) /\ region' = [region EXCEPT ![c] = GetRegion(c)]
  <2>1. \A n \in HeaderNames \ {"content-type"} : UploadHeaders(t)[n] = Absent
    BY NoHeadersAbsent DEF UploadHeaders, Set, NoHeaders
  <2>2. IsPassed(located, GetRegion(c))
    BY <2>1, HomesAreNames, NamesAssumption DEF NoCall, IsPassed
  <2>3. PassesOr(c, located)
    BY <1>2, <2>2, StartOpens, LatchingKeepsHomes DEF PassesOr
  <2> QED
    BY <2>3
<1> QED
  BY <1>1, <1>2 DEF Upload

LEMMA CallPasses ==
  ASSUME TypeInv, NEW c \in Clients, Call(c)
  PROVE  \E args : PassesOr(c, args)
<1>1. ASSUME NEW b, NEW o, NEW d, NEW t, o \in Objects, PutObject(c, b, o, d, t)
      PROVE  \E args : PassesOr(c, args)
  BY <1>1, UploadPasses, ThrowPasses DEF PutObject, EarlyExceptions
<1>2. ASSUME NEW slices \in ForwardedPaths, NEW d, NEW t, ForwardObject(c, slices, d, t)
      PROVE  \E args : PassesOr(c, args)
  <2>1. CASE Throw(c, [NoCall EXCEPT !.op = "putObject"], "RuntimeError")
    BY <2>1, ThrowPasses DEF EarlyExceptions
  <2>2. CASE Len(slices) = 2 /\ Upload(c, slices[1], slices[2], d, t)
    <3>1. \A b : Len(<<b>>) # 2
      OBVIOUS
    <3>2. slices[2] \in Objects
      BY <2>2, <3>1 DEF ForwardedPaths
    <3> QED
      BY <2>2, <3>2, UploadPasses
  <2> QED
    BY <1>2, <2>1, <2>2 DEF ForwardObject
<1> QED
  BY <1>1, <1>2, BucketExistsPasses, MakeBucketPasses DEF Call

(* What a step of execute() does to its own call, and to the others.       *)
ExecuteShape(id) ==
  /\ UNCHANGED <<config, region, made, call, answer, location, content, served, found, clock>>
  /\ \A j \in Ids \ {id} : /\ phase'[j] = phase[j] /\ outcome'[j] = outcome[j]
                           /\ wire'[j] = wire[j] /\ request'[j] = request[j]

LEMMA ExecuteChanges ==
  ASSUME TypeInv, NEW id \in Ids, Execute(id)
  PROVE  ExecuteShape(id)
<1> USE DEF clientVars, netVars, storeVars, Finish
<1>1. /\ phase \in [Ids -> Phases] /\ outcome \in [Ids -> Results]
      /\ wire \in [Ids -> {"none", "request", "answer", "read"}] /\ request = [i \in Ids |-> request[i]]
  BY DEF TypeInv, TypeOK
<1>2. UNCHANGED <<config, region, made, call, answer, location, content, served, found, clock>>
  BY DEF Execute, Create, Send, NoResponse, Receive
<1>3. /\ phase' = phase \/ \E p : phase' = [phase EXCEPT ![id] = p]
      /\ outcome' = outcome \/ \E r : outcome' = [outcome EXCEPT ![id] = r]
      /\ wire' = wire \/ \E w : wire' = [wire EXCEPT ![id] = w]
      /\ request' = request \/ \E r : request' = [request EXCEPT ![id] = r]
  <2>1. CASE Create(id)
    BY <2>1 DEF Create
  <2>2. CASE Send(id)
    BY <2>2 DEF Send
  <2>3. CASE NoResponse(id) \/ Receive(id)
    BY <2>3 DEF NoResponse, ConnectionFails, Receive
  <2> QED
    BY <2>1, <2>2, <2>3 DEF Execute
<1>4. \A j \in Ids \ {id} : /\ phase'[j] = phase[j] /\ outcome'[j] = outcome[j]
                            /\ wire'[j] = wire[j] /\ request'[j] = request[j]
  BY <1>1, <1>3
<1> QED
  BY <1>2, <1>4 DEF ExecuteShape

LEMMA ServeAnswers ==
  ASSUME NEW id \in Ids, Serve(id)
  PROVE  /\ \E response : Answer(id, response)
         /\ wire[id] = "request" /\ wire' = [wire EXCEPT ![id] = "answer"]
         /\ UNCHANGED <<config, region, made, call, phase, outcome, request, clock>>
<1>1. PICK response : Answer(id, response)
  BY DEF Serve, Fail, Deny, Obey, Refusal, Success
<1> QED
  BY <1>1 DEF Answer, clientVars, callVars

(* Every step is one of a client, of a thread, of the store, or another    *)
(* that touches no call.                                                   *)
LEMMA StepCases ==
  ASSUME [Next]_vars
  PROVE  \/ \E c \in Clients : Call(c)
         \/ \E id \in Ids : Execute(id)
         \/ \E id \in Ids : Serve(id)
         \/ /\ \/ \E b \in Deletable : DeleteBucket(b)
               \/ UNCHANGED <<location, content>>
            /\ UNCHANGED <<clientVars, callVars, netVars, served, found>>
<1>1. CASE Environment
  BY <1>1 DEF Environment, DeleteBucket, Tick, storeVars
<1>2. CASE Terminated \/ UNCHANGED vars
  BY <1>2 DEF Terminated, vars, storeVars
<1> QED
  BY <1>1, <1>2 DEF Next

(***************************************************************************)
(* Every request is made of its call                                       *)
(***************************************************************************)

(* The call has entered execute() and was not rejected there. *)
Active(id) == phase[id] \in {"create", "sign", "wait"} \/ wire[id] # "none"

(* What createRequest() makes of the call at time t, and what signV4()     *)
(* makes of that at time u.                                                *)
Created(id, t) ==
  CreateRequest(config[id[1]], Method(call[id].op), call[id].bucket, call[id].object,
                call[id].headers, call[id].body, t)

Signed(id, t, u) ==
  LET cfg == config[id[1]]
  IN  IF HasCredentials(cfg)
      THEN SignV4(Created(id, t), call[id].region, cfg.accessKey, cfg.secretKey, u)
      ELSE Created(id, t)

IsMade(id) ==
  /\ Active(id) => IsPassed(call[id], GetRegion(id[1]))
  /\ phase[id] = "sign" => \E t : request[id] = Created(id, t)
  /\ wire[id] # "none" => \E t, u : request[id] = Signed(id, t, u)

RequestInv == CallInv /\ \A id \in Ids : IsMade(id)

LEMMA InitMade == Init => \A id \in Ids : IsMade(id)
BY DEF Init, IsMade, Active

(* A call whose own state stays as it is stays made. *)
LEMMA SameMade ==
  ASSUME NEW id \in Ids, IsMade(id), HomeStays, UNCHANGED config,
         call'[id] = call[id], phase'[id] = phase[id], wire'[id] = wire[id], request'[id] = request[id]
  PROVE  IsMade(id)'
<1>1. GetRegion(id[1])' = GetRegion(id[1])
  BY IdsArePairs DEF HomeStays
<1>2. \A t, u : Created(id, t)' = Created(id, t) /\ Signed(id, t, u)' = Signed(id, t, u)
  BY DEF Created, Signed
<1> QED
  BY <1>1, <1>2 DEF IsMade, Active

LEMMA CallMakes ==
  ASSUME RequestInv, NEW c \in Clients, Call(c), NEW j \in Ids
  PROVE  IsMade(j)'
<1>1. PICK args : PassesOr(c, args)
  BY CallPasses DEF RequestInv, CallInv
<1>2. PICK id : id = <<c, made[c] + 1>>
  OBVIOUS
<1>3. id \in Ids /\ phase[id] = "unused" /\ wire[id] = "none"
  BY <1>1, <1>2, NextCallIsUnused DEF PassesOr, Opens, RequestInv
<1>4. call \in [Ids -> Calls] /\ phase \in [Ids -> Phases]
  BY DEF RequestInv, CallInv, TypeInv, TypeOK
<1>5. /\ call' = [call EXCEPT ![id] = args] /\ UNCHANGED <<config, request, wire>>
      /\ \/ phase' = [phase EXCEPT ![id] = "create"]
         \/ phase' = [phase EXCEPT ![id] = "over"]
      /\ phase' = [phase EXCEPT ![id] = "over"] \/ IsPassed(args, GetRegion(c))
      /\ HomeStays
  BY <1>1, <1>2 DEF PassesOr, Opens
<1>6. CASE j = id
  <2>1. call'[j] = args /\ wire'[j] = "none" /\ phase'[j] \in {"create", "over"}
        /\ (phase'[j] = "over" \/ IsPassed(args, GetRegion(c)))
    BY <1>3, <1>4, <1>5, <1>6
  <2>2. GetRegion(j[1])' = GetRegion(c) /\ j[1] = c
    BY <1>2, <1>5, <1>6 DEF HomeStays
  <2> QED
    BY <2>1, <2>2 DEF IsMade, Active
<1>7. CASE j # id
  <2>1. call'[j] = call[j] /\ phase'[j] = phase[j] /\ wire'[j] = wire[j] /\ request'[j] = request[j]
    BY <1>4, <1>5, <1>7
  <2> QED
    BY <1>5, <2>1, SameMade DEF RequestInv
<1> QED
  BY <1>6, <1>7

LEMMA ExecuteMakes ==
  ASSUME RequestInv, NEW id \in Ids, Execute(id), NEW j \in Ids
  PROVE  IsMade(j)'
<1>1. ExecuteShape(id)
  BY ExecuteChanges DEF RequestInv, CallInv
<1>2. HomeStays
  BY <1>1 DEF ExecuteShape, HomeStays, GetRegion
<1>3. CASE j # id
  BY <1>1, <1>2, <1>3, SameMade DEF ExecuteShape, RequestInv
<1>4. CASE j = id
  <2>1. IsMade(id) /\ IsConsistent(id)
    BY DEF RequestInv, CallInv, CallsAreConsistent
  <2>2. /\ phase \in [Ids -> Phases] /\ wire \in [Ids -> {"none", "request", "answer", "read"}]
        /\ request = [i \in Ids |-> request[i]]
    BY DEF RequestInv, CallInv, TypeInv, TypeOK
  <2>3. /\ GetRegion(id[1])' = GetRegion(id[1]) /\ UNCHANGED <<config, call>>
    BY <1>1, <1>2, IdsArePairs DEF ExecuteShape, HomeStays
  <2>4. \A t, u : Created(id, t)' = Created(id, t) /\ Signed(id, t, u)' = Signed(id, t, u)
    BY <2>3 DEF Created, Signed
  <2>5. CASE Create(id)
    <3>1. phase[id] = "create" /\ wire' = wire /\ wire[id] = "none"
      BY <2>1, <2>5 DEF Create, IsConsistent, netVars
    <3>2. CASE phase' = [phase EXCEPT ![id] = "over"]
      BY <1>4, <2>2, <3>1, <3>2 DEF IsMade, Active
    <3>3. CASE phase' = [phase EXCEPT ![id] = "sign"] /\ request' = [request EXCEPT ![id] = Created(id, clock)]
      <4>1. PICK r : r = Created(id, clock)
        OBVIOUS
      <4>2. request'[id] = Created(id, clock) /\ phase'[id] = "sign"
        BY <2>2, <3>3, <4>1
      <4> QED
        BY <1>4, <2>1, <2>3, <2>4, <3>1, <4>2 DEF IsMade, Active
    <3> QED
      BY <1>4, <2>5, <3>2, <3>3 DEF Create, Finish, Created
  <2>6. CASE Send(id)
    <3>1. PICK t : request[id] = Created(id, t)
      BY <2>1, <2>6 DEF Send, IsMade
    <3>2. request'[id] = Signed(id, t, clock)
      <4>1. CASE HasCredentials(config[id[1]])
        <5>1. PICK s : s = SignV4(request[id], call[id].region, config[id[1]].accessKey,
                                  config[id[1]].secretKey, clock)
          OBVIOUS
        <5>2. request' = [request EXCEPT ![id] = s]
          BY <2>6, <4>1, <5>1 DEF Send
        <5>3. s = Signed(id, t, clock)
          BY <3>1, <4>1, <5>1 DEF Signed
        <5> QED
          BY <2>2, <5>2, <5>3
      <4>2. CASE ~HasCredentials(config[id[1]])
        BY <2>6, <3>1, <4>2 DEF Send, Signed
      <4> QED
        BY <4>1, <4>2
    <3>3. phase[id] = "sign" /\ phase'[id] = "wait"
      BY <2>2, <2>6 DEF Send
    <3> QED
      BY <1>4, <2>1, <2>3, <2>4, <3>2, <3>3 DEF IsMade, Active
  <2>7. CASE NoResponse(id) \/ Receive(id)
    <3>1. phase[id] = "wait" /\ wire[id] # "none" /\ phase'[id] = "over" /\ request' = request
      BY <2>1, <2>2, <2>7 DEF NoResponse, ConnectionFails, Receive, Finish, IsConsistent
    <3> QED
      BY <1>4, <2>1, <2>3, <2>4, <3>1 DEF IsMade, Active
  <2> QED
    BY <2>5, <2>6, <2>7 DEF Execute
<1> QED
  BY <1>3, <1>4

LEMMA ServeMakes ==
  ASSUME RequestInv, NEW id \in Ids, Serve(id), NEW j \in Ids
  PROVE  IsMade(j)'
<1>1. /\ wire[id] = "request" /\ wire' = [wire EXCEPT ![id] = "answer"]
      /\ UNCHANGED <<config, region, call, phase, request>>
  BY ServeAnswers
<1>2. HomeStays
  BY <1>1 DEF HomeStays, GetRegion
<1>3. wire \in [Ids -> {"none", "request", "answer", "read"}] /\ IsMade(j)
  BY DEF RequestInv, CallInv, TypeInv, TypeOK
<1>4. CASE j # id
  BY <1>1, <1>2, <1>3, <1>4, SameMade
<1>5. CASE j = id
  <2>1. GetRegion(j[1])' = GetRegion(j[1])
    BY <1>2, IdsArePairs DEF HomeStays
  <2>2. \A t, u : Created(j, t)' = Created(j, t) /\ Signed(j, t, u)' = Signed(j, t, u)
    BY <1>1 DEF Created, Signed
  <2> QED
    BY <1>1, <1>3, <1>5, <2>1, <2>2 DEF IsMade, Active
<1> QED
  BY <1>4, <1>5

LEMMA StepMakes ==
  RequestInv /\ [Next]_vars => \A id \in Ids : IsMade(id)'
<1> SUFFICES ASSUME RequestInv, [Next]_vars, NEW j \in Ids PROVE IsMade(j)'
  OBVIOUS
<1>1. CASE UNCHANGED <<clientVars, callVars, netVars>>
  BY <1>1, SameMade DEF RequestInv, clientVars, callVars, netVars, HomeStays, GetRegion
<1> QED
  BY <1>1, StepCases, CallMakes, ExecuteMakes, ServeMakes

LEMMA InitRequests == Init => RequestInv
BY InitType, InitConsistent, InitMade DEF RequestInv, CallInv

LEMMA StepRequests == RequestInv /\ [Next]_vars => RequestInv'
BY StepType, StepConsistent, StepMakes DEF RequestInv, CallInv

LEMMA RequestInvariant == Spec => []RequestInv
BY InitRequests, StepRequests, PTL DEF Spec

(* Both kinds of request have the call's method, names and body. *)
LEMMA MadeOfItsCall ==
  ASSUME RequestInv, NEW id \in Ids, wire[id] # "none" \/ phase[id] = "sign"
  PROVE  /\ request[id].method = Method(call[id].op)
         /\ request[id].path = Path(call[id].bucket, call[id].object)
         /\ request[id].body = call[id].body
<1>1. \A t : /\ Created(id, t).method = Method(call[id].op)
             /\ Created(id, t).path = Path(call[id].bucket, call[id].object)
             /\ Created(id, t).body = call[id].body
  BY DEF Created, CreateRequest
<1>2. \A t : IsRequest(Created(id, t))
  BY CreatedRequest DEF Created, RequestInv, CallInv, TypeInv, TypeOK
<1>3. \A t, u : /\ Signed(id, t, u).method = Method(call[id].op)
                /\ Signed(id, t, u).path = Path(call[id].bucket, call[id].object)
                /\ Signed(id, t, u).body = call[id].body
  BY <1>1, <1>2, SignedRequest DEF Signed
<1> QED
  BY <1>1, <1>3 DEF RequestInv, IsMade

(***************************************************************************)
(* Regions                                                                 *)
(***************************************************************************)

(* Whatever a client is constructed with, and in whichever order it calls: *)
(* the region that makeBucket puts its buckets in is the one that all its  *)
(* other requests are signed for.  (What getRegion latches is what it has  *)
(* returned before, and makeBucket conflicts with everything else.)        *)
THEOREM BucketsAreMadeAtHome == Spec => []OneHomeRegion
<1>1. RequestInv => OneHomeRegion
  <2> SUFFICES ASSUME RequestInv, NEW i \in Ids, NEW j \in Ids, i[1] = j[1],
                      call[i].op = "makeBucket", wire[i] # "none",
                      call[j].op # "makeBucket", wire[j] # "none"
               PROVE  call[j].region = RequestedLocation(request[i])
    BY DEF OneHomeRegion
  <2>1. IsPassed(call[i], GetRegion(i[1])) /\ IsPassed(call[j], GetRegion(j[1]))
    BY DEF RequestInv, IsMade, Active
  <2>2. RequestedLocation(request[i]) = RequestedLocation(call[i])
    BY MadeOfItsCall DEF RequestedLocation
  <2> QED
    BY <2>1, <2>2 DEF IsPassed
<1> QED
  BY <1>1, RequestInvariant, PTL

(***************************************************************************)
(* Signatures                                                              *)
(***************************************************************************)

LEMMA SetValue ==
  ASSUME NEW headers, DOMAIN headers = HeaderNames, NEW name, NEW value, NEW n \in HeaderNames
  PROVE  Set(headers, name, value)[n] = IF n = name /\ value # Absent THEN value ELSE headers[n]
BY DEF Set

(* The headers that createRequest adds to a call's content type. *)
LEMMA HeadersOfRequest ==
  ASSUME NEW cfg, NEW headers, DOMAIN headers = HeaderNames,
         \A n \in HeaderNames \ {"content-type"} : headers[n] = Absent,
         NEW body, NEW t
  PROVE  LET h == RequestHeaders(cfg, headers, body, t)
         IN  /\ DOMAIN h = HeaderNames
             /\ h["x-amz-date"] = <<t>>
             /\ h["x-amz-content-sha256"] = PayloadHash(cfg, body) /\ h["authorization"] = Absent
             /\ h["content-md5"] = BodyMd5(cfg, body)
             /\ h["authorization"] = Absent
<1> DEFINE md5    == Set(headers, "content-md5", BodyMd5(cfg, body))
           host   == Set(md5, "host", Host(cfg))
           agent  == Set(host, "user-agent", <<"A-SKY WriterProxy 0.0001">>)
           sha256 == Set(agent, "x-amz-content-sha256", PayloadHash(cfg, body))
           h      == Set(sha256, "x-amz-date", <<t>>)
<1>1. RequestHeaders(cfg, headers, body, t) = h
  BY DEF RequestHeaders
<1>2. {"x-amz-date", "x-amz-content-sha256", "content-md5", "authorization"}
        \subseteq HeaderNames \ {"content-type"}
  BY DEF HeaderNames
<1>3. /\ DOMAIN md5 = HeaderNames /\ md5["content-md5"] = BodyMd5(cfg, body)
      /\ md5["x-amz-content-sha256"] = Absent /\ md5["authorization"] = Absent
  BY <1>2, SetDomain, SetValue
<1> HIDE DEF md5
<1>4. /\ DOMAIN host = HeaderNames /\ host["content-md5"] = BodyMd5(cfg, body)
      /\ host["x-amz-content-sha256"] = Absent /\ host["authorization"] = Absent
  BY <1>2, <1>3, SetDomain, SetValue
<1> HIDE DEF host
<1>5. /\ DOMAIN agent = HeaderNames /\ agent["content-md5"] = BodyMd5(cfg, body)
      /\ agent["x-amz-content-sha256"] = Absent /\ agent["authorization"] = Absent
  <2>1. PICK v : v = <<"A-SKY WriterProxy 0.0001">>
    OBVIOUS
  <2>2. agent = Set(host, "user-agent", v)
    BY <2>1
  <2> HIDE DEF agent
  <2> QED
    BY <1>2, <1>4, <2>2, SetDomain, SetValue
<1> HIDE DEF agent
<1>6. /\ DOMAIN sha256 = HeaderNames /\ sha256["content-md5"] = BodyMd5(cfg, body)
      /\ sha256["x-amz-content-sha256"] = PayloadHash(cfg, body) /\ sha256["authorization"] = Absent
  BY <1>2, <1>5, SetDomain, SetValue
<1> HIDE DEF sha256
<1>7. <<t>> # Absent
  BY DEF Absent
<1>8. /\ DOMAIN h = HeaderNames /\ h["content-md5"] = BodyMd5(cfg, body) /\ h["x-amz-date"] = <<t>>
      /\ h["x-amz-content-sha256"] = PayloadHash(cfg, body) /\ h["authorization"] = Absent
  BY <1>2, <1>6, <1>7, SetDomain, SetValue
<1> QED
  BY <1>1, <1>8

(* What is signed of a request leaves out the signature itself. *)
LEMMA CanonicalOfSigned ==
  ASSUME NEW r, IsRequest(r), NEW value
  PROVE  LET s == [r EXCEPT !.headers = Set(r.headers, "authorization", value)]
         IN  /\ CanonicalRequest(s) = CanonicalRequest(r)
             /\ SignedHeaders(s.headers) = SignedHeaders(r.headers)
             /\ \A n \in HeaderNames \ {"authorization"} : s.headers[n] = r.headers[n]
             /\ value # Absent => s.headers["authorization"] = value
<1> DEFINE h == Set(r.headers, "authorization", value)
           s == [r EXCEPT !.headers = h]
<1>1. DOMAIN r.headers = HeaderNames /\ DOMAIN r = {"method", "path", "headers", "body"}
  BY DEF IsRequest
<1>2. "authorization" \in HeaderNames /\ "x-amz-content-sha256" \in HeaderNames \ {"authorization"}
  BY DEF HeaderNames
<1>3. /\ \A n \in HeaderNames \ {"authorization"} : h[n] = r.headers[n]
      /\ value # Absent => h["authorization"] = value
  BY <1>1, <1>2, SetValue
<1> HIDE DEF h
<1>4. s.headers = h /\ s.method = r.method /\ s.path = r.path
  BY <1>1
<1>5. SignedHeaders(h) = SignedHeaders(r.headers)
  BY <1>3 DEF SignedHeaders, IgnoredHeaders
<1>6. CanonicalHeaders(h) = CanonicalHeaders(r.headers)
  BY <1>3, <1>5 DEF CanonicalHeaders, SignedHeaders, IgnoredHeaders
<1>7. CanonicalRequest(s) = CanonicalRequest(r)
  BY <1>2, <1>3, <1>4, <1>6 DEF CanonicalRequest
<1> QED
  BY <1>3, <1>4, <1>5, <1>7 DEF h

(* The date of a signature can be read off it. *)
LEMMA AuthorizationsDiffer ==
  ASSUME NEW r, NEW t, NEW u, NEW reg, NEW ak, NEW sk
  PROVE  /\ Authorization(r, u, reg, ak, sk) = Authorization(r, t, reg, ak, sk) <=> u = t
         /\ Authorization(r, u, reg, ak, sk).signature.text.date = u
         /\ Authorization(r, u, reg, ak, sk).scope.region = reg
         /\ Authorization(r, u, reg, ak, sk).accessKey = ak
<1>1. \A x : /\ Authorization(r, x, reg, ak, sk).signature.text.date = x
             /\ Authorization(r, x, reg, ak, sk).scope.region = reg
             /\ Authorization(r, x, reg, ak, sk).accessKey = ak
  BY DEF Authorization, Signature, StringToSign, Scope
<1> QED
  BY <1>1

(* A request that is stamped at t and signed at u with good credentials is *)
(* authentic exactly when t is u.                                          *)
LEMMA SignedIsAuthentic ==
  ASSUME NEW cfg, GoodCredentials(cfg), NEW a \in Calls, NEW t, NEW u, NEW r, NEW s,
         \A n \in HeaderNames \ {"content-type"} : a.headers[n] = Absent,
         r = CreateRequest(cfg, Method(a.op), a.bucket, a.object, a.headers, a.body, t),
         s = SignV4(r, a.region, cfg.accessKey, cfg.secretKey, u)
  PROVE  StampedAt(s) = t /\ SignedAt(s) = u /\ (Authentic(s) <=> t = u)
<1> DEFINE ak   == cfg.accessKey
           sk   == cfg.secretKey
           auth == Authorization(r, u, a.region, ak, sk)
<1>1. HasCredentials(cfg) /\ ak \in DOMAIN SecretOf /\ sk = SecretOf[ak]
  BY DEF GoodCredentials
<1>2. /\ IsRequest(r) /\ r.body = a.body /\ r.headers["x-amz-date"] = <<t>>
      /\ r.headers["x-amz-content-sha256"] = PayloadHash(cfg, a.body)
      /\ r.headers["content-md5"] = BodyMd5(cfg, a.body)
  <2>1. IsRequest(r) /\ r.body = a.body
    BY CreatedRequest
  <2>2. r.headers = RequestHeaders(cfg, a.headers, a.body, t)
    BY DEF CreateRequest
  <2>3. DOMAIN a.headers = HeaderNames
    BY DEF Calls
  <2> QED
    BY <2>1, <2>2, <2>3, HeadersOfRequest
<1>3. s = [r EXCEPT !.headers = Set(r.headers, "authorization", <<auth>>)]
  BY DEF SignV4, ParseDateTime
<1>4. PICK v : v = auth
  OBVIOUS
<1>5. <<v>> # Absent /\ <<v>>[1] = v
  BY DEF Absent
<1>6. /\ CanonicalRequest(s) = CanonicalRequest(r) /\ SignedHeaders(s.headers) = SignedHeaders(r.headers)
      /\ \A n \in HeaderNames \ {"authorization"} : s.headers[n] = r.headers[n]
      /\ s.headers["authorization"] = <<v>>
  BY <1>2, <1>3, <1>4, <1>5, CanonicalOfSigned
<1>7. {"x-amz-date", "x-amz-content-sha256", "content-md5"} \subseteq HeaderNames \ {"authorization"}
  BY DEF HeaderNames
<1>8. s.headers["x-amz-date"] = <<t>> /\ s.headers["x-amz-date"][1] = t
      /\ s.headers["x-amz-date"] # Absent
  BY <1>2, <1>6, <1>7 DEF Absent
<1>9. v.signature.text.date = u /\ v.scope.region = a.region /\ v.accessKey = ak
  BY <1>4, AuthorizationsDiffer
<1>10. Authorization(s, t, a.region, ak, sk) = Authorization(r, t, a.region, ak, sk)
  BY <1>6 DEF Authorization
<1>11. SignatureMatches(s) <=> t = u
  <2>1. s.headers["authorization"] # Absent /\ s.headers["authorization"][1] = v
    BY <1>5, <1>6
  <2>2. SignatureMatches(s) <=>
          /\ v.accessKey \in DOMAIN SecretOf
          /\ v = Authorization(s, t, v.scope.region, v.accessKey, SecretOf[v.accessKey])
    BY <1>8, <2>1 DEF SignatureMatches
  <2>3. SignatureMatches(s) <=> v = Authorization(s, t, a.region, ak, sk)
    BY <1>1, <1>9, <2>2
  <2> QED
    BY <1>4, <1>10, <2>3, AuthorizationsDiffer
<1>12. DigestsMatch(s)
  <2>1. s.body = a.body
    BY <1>2, SignedRequest
  <2>2. PayloadHash(cfg, a.body) \in {<<"UNSIGNED-PAYLOAD">>, Sha256(a.body)}
    BY <1>1 DEF PayloadHash
  <2>3. BodyMd5(cfg, a.body) \in {Absent, Md5(a.body)}
    BY DEF BodyMd5
  <2> QED
    BY <1>2, <1>6, <1>7, <2>1, <2>2, <2>3 DEF DigestsMatch
<1>13. StampedAt(s) = t /\ SignedAt(s) = u
  BY <1>5, <1>6, <1>8, <1>9 DEF StampedAt, SignedAt
<1> QED
  BY <1>11, <1>12, <1>13 DEF Authentic

(* That goes for every request that was sent. *)
LEMMA SentIsAuthentic ==
  ASSUME RequestInv, NEW id \in Ids, wire[id] # "none", GoodCredentials(config[id[1]])
  PROVE  Authentic(request[id]) <=> StampedAt(request[id]) = SignedAt(request[id])
<1>1. IsPassed(call[id], GetRegion(id[1])) /\ call[id] \in Calls
  BY DEF RequestInv, IsMade, Active, CallInv, TypeInv, TypeOK
<1>2. PICK t, u : request[id] = Signed(id, t, u)
  BY DEF RequestInv, IsMade
<1>3. PICK r : r = Created(id, t)
  OBVIOUS
<1>4. request[id] = SignV4(r, call[id].region, config[id[1]].accessKey, config[id[1]].secretKey, u)
  BY <1>2, <1>3 DEF Signed, GoodCredentials
<1>5. PICK a, cfg, s : a = call[id] /\ cfg = config[id[1]] /\ s = request[id]
  OBVIOUS
<1>6. r = CreateRequest(cfg, Method(a.op), a.bucket, a.object, a.headers, a.body, t)
  BY <1>3, <1>5 DEF Created
<1>7. StampedAt(s) = t /\ SignedAt(s) = u /\ (Authentic(s) <=> t = u)
  <2>1. a \in Calls /\ GoodCredentials(cfg)
        /\ \A n \in HeaderNames \ {"content-type"} : a.headers[n] = Absent
    BY <1>1, <1>5 DEF IsPassed
  <2>2. s = SignV4(r, a.region, cfg.accessKey, cfg.secretKey, u)
    BY <1>4, <1>5
  <2> QED
    BY <1>6, <2>1, <2>2, SignedIsAuthentic
<1> QED
  BY <1>5, <1>7

(* With credentials that the store knows, every request of every client is *)
(* accepted, whatever it uploads, with or without TLS, unless the clock    *)
(* has moved between createRequest() and signV4(); then none is.           *)
THEOREM SignaturesAreAuthentic == Spec => []AuthenticUnlessClockMoved
<1>1. RequestInv => AuthenticUnlessClockMoved
  BY SentIsAuthentic DEF AuthenticUnlessClockMoved
<1> QED
  BY <1>1, RequestInvariant, PTL

(* A request that the store accepts is signed for its call's region. *)
LEMMA AcceptedRegion ==
  ASSUME RequestInv, NEW id \in Ids, wire[id] # "none", Authentic(request[id])
  PROVE  SigningRegion(request[id]) = call[id].region /\ call[id].region # ""
<1>1. IsPassed(call[id], GetRegion(id[1])) /\ call[id] \in Calls
  BY DEF RequestInv, IsMade, Active, CallInv, TypeInv, TypeOK
<1>2. PICK t, u : request[id] = Signed(id, t, u)
  BY DEF RequestInv, IsMade
<1>3. PICK r : r = Created(id, t)
  OBVIOUS
<1>4. IsRequest(r) /\ r.headers["authorization"] = Absent
  <2>1. IsRequest(r)
    BY <1>1, <1>3, CreatedRequest DEF Created
  <2>2. r.headers = RequestHeaders(config[id[1]], call[id].headers, call[id].body, t)
    BY <1>3 DEF Created, CreateRequest
  <2>3. DOMAIN call[id].headers = HeaderNames
    BY <1>1 DEF Calls
  <2>4. \A n \in HeaderNames \ {"content-type"} : call[id].headers[n] = Absent
    BY <1>1 DEF IsPassed
  <2> QED
    BY <2>1, <2>2, <2>3, <2>4, HeadersOfRequest
<1>5. CASE ~HasCredentials(config[id[1]])
  BY <1>2, <1>3, <1>4, <1>5 DEF Signed, Authentic, SignatureMatches
<1>6. CASE HasCredentials(config[id[1]])
  <2>1. PICK ak, sk, v : /\ ak = config[id[1]].accessKey /\ sk = config[id[1]].secretKey
                         /\ v = Authorization(r, u, call[id].region, ak, sk)
    OBVIOUS
  <2>2. request[id] = [r EXCEPT !.headers = Set(r.headers, "authorization", <<v>>)]
    BY <1>2, <1>3, <1>6, <2>1 DEF Signed, SignV4, ParseDateTime
  <2>3. <<v>> # Absent /\ <<v>>[1] = v /\ v.scope.region = call[id].region
    BY <2>1, AuthorizationsDiffer DEF Absent
  <2>4. request[id].headers["authorization"] = <<v>>
    <3>1. PICK w : w = <<v>>
      OBVIOUS
    <3>2. request[id] = [r EXCEPT !.headers = Set(r.headers, "authorization", w)] /\ w # Absent
      BY <2>2, <2>3, <3>1
    <3>3. request[id].headers["authorization"] = w
      BY <1>4, <3>2, CanonicalOfSigned
    <3> QED
      BY <3>1, <3>3
  <2> QED
    BY <1>1, <2>3, <2>4 DEF SigningRegion, IsPassed
<1> QED
  BY <1>5, <1>6

(***************************************************************************)
(* Reports of buckets                                                      *)
(***************************************************************************)

(* The answers with which the store may fail any request do not look like  *)
(* a missing bucket: the XML error is another one, and the status, which   *)
(* is all that is left of an answer to HEAD, is none that handleError()    *)
(* takes for it.                                                           *)
HonestFaults ==
  \A f \in Faults : f.status \notin {404, 409} /\ Extract(f.body, CodeTags) # <<"NoSuchBucket">>

SaysMissing == {"false", "NO_SUCH_BUCKET"}

(* What a caller is told for a response is true of a bucket that was seen  *)
(* to be `there`.                                                          *)
TrueReport(a, response, there) ==
  /\ ResultOf(a, response) \in SaysMissing => there = "absent"
  /\ ResultOf(a, response) = "returned" /\ a.op = "bucketExists" => there = "present"

(* What makes handleError() say that there is no bucket. *)
LEMMA MissingMeans ==
  ASSUME NEW a, NEW response, ResultOf(a, response) \in SaysMissing
  PROVE  /\ ~IsSuccessful(response)
         /\ \/ Extract(response.body, CodeTags) = <<"NoSuchBucket">>
            \/ Extract(response.body, CodeTags) = << >> /\ response.status \in {404, 409}
<1>1. ~IsSuccessful(response) /\ HandleError(a.object, a.bucket, response) = "NO_SUCH_BUCKET"
  BY CodesAreErrors DEF ResultOf, SaysMissing, ErrorCodes
<1>2. \A ecode : CodeOfXml(ecode) = "NO_SUCH_BUCKET" => ecode = <<"NoSuchBucket">>
  BY DEF CodeOfXml
<1>3. CodeOfStatus(a.object, a.bucket, response.status) = "NO_SUCH_BUCKET" => response.status \in {404, 409}
  BY DEF CodeOfStatus
<1> QED
  BY <1>1, <1>2, <1>3 DEF HandleError

LEMMA ReturnedMeans ==
  ASSUME NEW a, NEW response, ResultOf(a, response) = "returned"
  PROVE  IsSuccessful(response)
BY CodesAreErrors DEF ResultOf, ErrorCodes

(* An answer without a body has no XML error. *)
LEMMA NothingExtracted ==
  ASSUME NEW tags
  PROVE  Extract(<< >>, tags) = << >>
<1>1. Occurrences(<< >>, tags.open, 1) = {}
  BY DEF Occurrences
<1> QED
  BY <1>1 DEF Extract

(* What stands alone between the tags is found. *)
LEMMA ElementExtracted ==
  ASSUME NEW tags, NEW text, text # tags.open, text # tags.close, tags.open # tags.close,
         NEW s, s = <<tags.open, text, tags.close>>
  PROVE  Len(Extract(s, tags)) = 1 /\ Extract(s, tags)[1] = text
<1>1. PICK open, close : open = tags.open /\ close = tags.close
  OBVIOUS
<1>2. s \in Seq({open, text, close}) /\ Len(s) = 3 /\ s[1] = open /\ s[2] = text /\ s[3] = close
  BY <1>1
<1>3. \A i : i \in DOMAIN s <=> i = 1 \/ i = 2 \/ i = 3
  <2>1. DOMAIN s = 1..3
    BY <1>2
  <2> QED
    BY <2>1
<1>4. Occurrences(s, open, 1) = {1}
  <2>1. \A i : i \in Occurrences(s, open, 1) <=> i = 1
    BY <1>1, <1>2, <1>3 DEF Occurrences
  <2> QED
    BY <2>1
<1>5. Occurrences(s, close, 2) = {3}
  <2>1. \A i : i \in Occurrences(s, close, 2) <=> i = 3
    BY <1>1, <1>2, <1>3 DEF Occurrences
  <2> QED
    BY <2>1
<1>6. \A n \in Nat : Min({n}) = n
  BY DEF Min
<1>7. Min({1}) + 1 = 2 /\ Min({3}) - 1 = 2
  BY <1>6
<1>8. Extract(s, tags) = SubSeq(s, 2, 2)
  BY <1>1, <1>4, <1>5, <1>7 DEF Extract, ClosingTags
<1>9. Len(SubSeq(s, 2, 2)) = 1 /\ SubSeq(s, 2, 2)[1] = text
  BY <1>2
<1> QED
  BY <1>8, <1>9

(* The same, as an implication. *)
LEMMA ElementOfBody ==
  ASSUME NEW tags, NEW text, NEW body, body = <<tags.open, text, tags.close>>
  PROVE  text # tags.open /\ text # tags.close /\ tags.open # tags.close
           => Len(Extract(body, tags)) = 1 /\ Extract(body, tags)[1] = text
BY ElementExtracted

(* The code of an XML error is found. *)
LEMMA CodeExtracted ==
  ASSUME NEW ecode, ecode \notin {"", "<Code>", "</Code>"}, NEW code
  PROVE  LET e == Extract(Reply(code, ecode).body, CodeTags) IN Len(e) = 1 /\ e[1] = ecode
<1>1. CodeTags.open = "<Code>" /\ CodeTags.close = "</Code>"
  BY DEF CodeTags
<1>2. Reply(code, ecode).body = <<CodeTags.open, ecode, CodeTags.close>>
  <2>1. Reply(code, ecode).body = <<"<Code>", ecode, "</Code>">>
    BY Zenon DEF Reply
  <2> QED
    BY <1>1, <2>1, Zenon
<1>3. CodeTags.open # CodeTags.close /\ ecode # CodeTags.open /\ ecode # CodeTags.close
  BY <1>1, Zenon
<1> QED
  BY <1>2, <1>3, ElementOfBody, Zenon

LEMMA OthersAreNotMissing ==
  ASSUME NEW a, NEW response, NEW e, e = Extract(response.body, CodeTags), e # <<"NoSuchBucket">>,
         e # << >> \/ response.status \notin {404, 409}
  PROVE  ResultOf(a, response) \notin SaysMissing
BY MissingMeans

LEMMA SingletonsDiffer ==
  ASSUME NEW e, NEW x, Len(e) = 1, e[1] = x, NEW y, x # y
  PROVE  e # << >> /\ e # <<y>>
OBVIOUS

(* Neither an error with another code, nor a bodyless answer with another  *)
(* status, is taken for a missing bucket.                                  *)
LEMMA OtherCodesAreNotMissing ==
  ASSUME NEW a, NEW ecode, ecode \notin {"", "<Code>", "</Code>", "NoSuchBucket"}, NEW code
  PROVE  ResultOf(a, Reply(code, ecode)) \notin SaysMissing
<1>1. PICK r : r = Reply(code, ecode)
  OBVIOUS
<1>2. Len(Extract(r.body, CodeTags)) = 1 /\ Extract(r.body, CodeTags)[1] = ecode
  BY <1>1, CodeExtracted, Zenon
<1>3. PICK e : e = Extract(r.body, CodeTags)
  OBVIOUS
<1>4. ecode # "NoSuchBucket"
  BY Zenon
<1>5. e # << >> /\ e # <<"NoSuchBucket">>
  BY <1>2, <1>3, <1>4, SingletonsDiffer, Zenon
<1> QED
  BY <1>1, <1>3, <1>5, OthersAreNotMissing, Zenon

LEMMA BodylessIsNotMissing ==
  ASSUME NEW a, NEW response, response.body = << >>, response.status \notin {404, 409}
  PROVE  ResultOf(a, response) \notin SaysMissing
<1>1. Extract(response.body, CodeTags) = << >>
  BY NothingExtracted
<1>2. << >> # <<"NoSuchBucket">>
  OBVIOUS
<1> QED
  BY <1>1, <1>2, OthersAreNotMissing

(* The answer that arrives, and what is recorded of the bucket. *)
Arriving(id, response) ==
  IF request[id].method = "HEAD" THEN [response EXCEPT !.body = << >>] ELSE response

LEMMA AnswerArrives ==
  ASSUME TypeOK, NEW id \in Ids, NEW response, Answer(id, response)
  PROVE  /\ answer'[id] = Arriving(id, response)
         /\ found'[id] = IF location[request[id].path.bucket] = "" THEN "absent" ELSE "present"
         /\ \A j \in Ids \ {id} : answer'[j] = answer[j] /\ found'[j] = found[j]
<1>1. PICK r, f : /\ r = Arriving(id, response)
                  /\ f = IF location[request[id].path.bucket] = "" THEN "absent" ELSE "present"
  OBVIOUS
<1>2. answer' = [answer EXCEPT ![id] = r] /\ found' = [found EXCEPT ![id] = f]
  BY <1>1 DEF Answer, Arriving
<1>3. answer = [i \in Ids |-> answer[i]] /\ found \in [Ids -> {"unasked", "present", "absent"}]
  BY DEF TypeOK
<1> QED
  BY <1>1, <1>2, <1>3

(* The XML errors of the store. *)
StoreCodes ==
  {"SignatureDoesNotMatch", "MethodNotAllowed", "BucketAlreadyOwnedByYou", "NoSuchBucket",
   "AuthorizationHeaderMalformed"}

LEMMA RefusalArrives ==
  ASSUME TypeOK, NEW id \in Ids, NEW code, NEW ecode, Refusal(id, code, ecode)
  PROVE  /\ answer'[id].status = code
         /\ IF request[id].method = "HEAD" THEN answer'[id].body = << >>
            ELSE answer'[id] = Reply(code, ecode)
         /\ found'[id] = IF location[request[id].path.bucket] = "" THEN "absent" ELSE "present"
<1>1. Answer(id, Reply(code, ecode))
  BY DEF Refusal
<1>2. PICK r : r = Reply(code, ecode)
  OBVIOUS
<1>3. /\ answer'[id] = Arriving(id, r)
      /\ found'[id] = IF location[request[id].path.bucket] = "" THEN "absent" ELSE "present"
  BY <1>1, <1>2, AnswerArrives
<1>4. DOMAIN r = {"status", "body"} /\ r.status = code
  BY <1>2 DEF Reply
<1> QED
  BY <1>2, <1>3, <1>4 DEF Arriving

(* A refusal of a request whose bucket is there does not look like one of  *)
(* a request whose bucket is missing.                                      *)
IsJustified(id, code, ecode) ==
  /\ code \in Nat \ (200..299) /\ ecode \in StoreCodes
  /\ location[request[id].path.bucket] # ""
       => ecode # "NoSuchBucket" /\ (request[id].method = "HEAD" => code \notin {404, 409})

LEMMA RefusalTells ==
  ASSUME TypeOK, NEW id \in Ids, NEW code, NEW ecode, IsJustified(id, code, ecode),
         Refusal(id, code, ecode)
  PROVE  TrueReport(call[id], answer'[id], found'[id])
<1>1. answer'[id].status = code
  BY RefusalArrives
<1>2. ResultOf(call[id], answer'[id]) # "returned"
  BY <1>1, ReturnedMeans DEF IsSuccessful, IsJustified
<1>3. ASSUME location[request[id].path.bucket] # ""
      PROVE  ResultOf(call[id], answer'[id]) \notin SaysMissing
  <2>1. CASE request[id].method = "HEAD"
    <3>1. answer'[id].body = << >>
      BY <2>1, RefusalArrives
    <3>2. answer'[id].status \notin {404, 409}
      BY <1>1, <1>3, <2>1 DEF IsJustified
    <3> QED
      BY <3>1, <3>2, BodylessIsNotMissing
  <2>2. CASE request[id].method # "HEAD"
    <3>1. ecode \notin {"", "<Code>", "</Code>", "NoSuchBucket"}
      BY <1>3, Zenon DEF StoreCodes, IsJustified
    <3>2. answer'[id] = Reply(code, ecode)
      BY <2>2, RefusalArrives
    <3> QED
      BY <3>1, <3>2, OtherCodesAreNotMissing, Zenon
  <2> QED
    BY <2>1, <2>2
<1> QED
  BY <1>2, <1>3, RefusalArrives DEF TrueReport

LEMMA FaultTells ==
  ASSUME HonestFaults, TypeOK, NEW id \in Ids, NEW f \in Faults, Answer(id, f)
  PROVE  TrueReport(call[id], answer'[id], found'[id])
<1>1. answer'[id] = Arriving(id, f)
  BY AnswerArrives
<1>2. f.status \notin {404, 409} /\ Extract(f.body, CodeTags) # <<"NoSuchBucket">>
      /\ ~IsSuccessful(f) /\ DOMAIN f = {"status", "body"}
  BY FaultsAssumption DEF HonestFaults
<1>3. answer'[id].status = f.status /\ ~IsSuccessful(answer'[id])
  BY <1>1, <1>2 DEF Arriving, IsSuccessful
<1>4. ResultOf(call[id], answer'[id]) \notin SaysMissing
  <2>1. CASE request[id].method = "HEAD"
    <3>1. answer'[id].body = << >>
      BY <1>1, <1>2, <2>1 DEF Arriving
    <3> QED
      BY <1>2, <1>3, <3>1, BodylessIsNotMissing
  <2>2. CASE request[id].method # "HEAD"
    BY <1>1, <1>2, <2>2, MissingMeans DEF Arriving
  <2> QED
    BY <2>1, <2>2
<1> QED
  BY <1>3, <1>4, ReturnedMeans DEF TrueReport

(* A request that is carried out finds its bucket, unless it makes it. *)
LEMMA SuccessTells ==
  ASSUME RequestInv, NEW id \in Ids, Obey(id), Success(id)
  PROVE  TrueReport(call[id], answer'[id], found'[id])
<1> PICK r, a : r = request[id] /\ a = call[id]
  OBVIOUS
<1>1. PICK ok : ok = Reply(200, "")
  OBVIOUS
<1>2. /\ answer'[id] = Arriving(id, ok)
      /\ found'[id] = IF location[r.path.bucket] = "" THEN "absent" ELSE "present"
  BY <1>1, AnswerArrives DEF Success, RequestInv, CallInv, TypeInv
<1>3. DOMAIN ok = {"status", "body"} /\ ok.status = 200
  BY <1>1 DEF Reply
<1>4. answer'[id].status = 200
  BY <1>2, <1>3 DEF Arriving
<1>5. ResultOf(a, answer'[id]) \notin SaysMissing
  BY <1>4 DEF ResultOf, IsSuccessful, SaysMissing
<1>6. ASSUME a.op = "bucketExists" PROVE location[r.path.bucket] # ""
  <2>1. wire[id] = "request" /\ Authentic(r)
    BY DEF Obey
  <2>2. r.method = "HEAD" /\ SigningRegion(r) # ""
    BY <1>6, <2>1, MadeOfItsCall, AcceptedRegion DEF Method
  <2>3. location[r.path.bucket] = SigningRegion(r)
    <3>1. ASSUME NEW code, NEW ecode, Refusal(id, code, ecode) PROVE served' = served
      BY <3>1 DEF Refusal
    <3>2. served' # served
      <4>1. served \in [Ids -> Nat] /\ served' = [served EXCEPT ![id] = @ + 1]
        BY DEF RequestInv, CallInv, TypeInv, TypeOK, Success
      <4>2. served'[id] = served[id] + 1 /\ served[id] \in Nat
        BY <4>1
      <4> QED
        BY <4>2
    <3> QED
      BY <2>2, <3>1, <3>2 DEF Obey
  <2> QED
    BY <2>2, <2>3
<1> QED
  BY <1>2, <1>5, <1>6 DEF TrueReport

(* Whatever the store answers, its caller will be told the truth of it. *)
LEMMA ServeTells ==
  ASSUME HonestFaults, RequestInv, NEW id \in Ids, Serve(id)
  PROVE  TrueReport(call[id], answer'[id], found'[id])
<1>1. TypeOK
  BY DEF RequestInv, CallInv, TypeInv
<1>2. CASE Fail(id)
  BY <1>1, <1>2, FaultTells DEF Fail
<1>3. CASE Obey(id) /\ Success(id)
  BY <1>3, SuccessTells
<1>4. ASSUME NEW n, NEW e, Refusal(id, n, e), IsJustified(id, n, e)
      PROVE  TrueReport(call[id], answer'[id], found'[id])
  BY <1>1, <1>4, RefusalTells
<1>5. /\ IsJustified(id, 403, "SignatureDoesNotMatch") /\ IsJustified(id, 405, "MethodNotAllowed")
      /\ IsJustified(id, 400, "AuthorizationHeaderMalformed")
  BY DEF IsJustified, StoreCodes
<1>6. request[id].method = "PUT" => IsJustified(id, 409, "BucketAlreadyOwnedByYou")
  BY DEF IsJustified, StoreCodes
<1>7. ASSUME location[request[id].path.bucket] = "" PROVE IsJustified(id, 404, "NoSuchBucket")
  <2>1. 404 \in Nat \ (200..299) /\ "NoSuchBucket" \in StoreCodes
    BY DEF StoreCodes
  <2> QED
    BY <1>7, <2>1 DEF IsJustified
<1>8. CASE Deny(id)
  BY <1>4, <1>5, <1>8 DEF Deny
<1>9. CASE Obey(id)
  <2>1. CASE Refusal(id, 405, "MethodNotAllowed") \/ Refusal(id, 400, "AuthorizationHeaderMalformed")
    BY <1>4, <1>5, <2>1
  <2>2. CASE Refusal(id, 409, "BucketAlreadyOwnedByYou") /\ request[id].method = "PUT"
    BY <1>4, <1>6, <2>2
  <2>3. CASE Refusal(id, 404, "NoSuchBucket") /\ location[request[id].path.bucket] = ""
    BY <1>4, <1>7, <2>3
  <2> QED
    BY <1>3, <1>9, <2>1, <2>2, <2>3 DEF Obey
<1> QED
  BY <1>2, <1>8, <1>9 DEF Serve

(* What a call was answered is true, and what it returned is the answer. *)
IsReported(id) ==
  /\ wire[id] \in {"answer", "read"} => TrueReport(call[id], answer[id], found[id])
  /\ outcome[id] \in SaysMissing \cup {"returned"}
       => wire[id] = "read" /\ outcome[id] = ResultOf(call[id], answer[id])

LEMMA SameReported ==
  ASSUME NEW id \in Ids, IsReported(id),
         call'[id] = call[id], wire'[id] = wire[id], answer'[id] = answer[id],
         outcome'[id] = outcome[id], found'[id] = found[id]
  PROVE  IsReported(id)'
BY DEF IsReported, TrueReport

LEMMA EarlyOutcomesSayNothing ==
  "none" \notin SaysMissing \cup {"returned"} /\ "InvalidBucketName" \notin SaysMissing \cup {"returned"}
  /\ "NoResponse" \notin SaysMissing \cup {"returned"}
  /\ \A e \in EarlyExceptions : e \notin SaysMissing \cup {"returned"}
BY DEF SaysMissing, EarlyExceptions

LEMMA CallReports ==
  ASSUME CallInv, NEW c \in Clients, Call(c), NEW j \in Ids, IsReported(j)
  PROVE  IsReported(j)'
<1>1. PICK args : PassesOr(c, args)
  BY CallPasses DEF CallInv
<1>2. PICK id : id = <<c, made[c] + 1>>
  OBVIOUS
<1>3. id \in Ids /\ wire[id] = "none"
  BY <1>1, <1>2, NextCallIsUnused DEF PassesOr, Opens
<1>4. call \in [Ids -> Calls] /\ outcome \in [Ids -> Results]
  BY DEF CallInv, TypeInv, TypeOK
<1>5. /\ call' = [call EXCEPT ![id] = args] /\ UNCHANGED <<wire, answer, found>>
      /\ outcome' = outcome \/ \E e \in EarlyExceptions : outcome' = [outcome EXCEPT ![id] = e]
  BY <1>1, <1>2 DEF PassesOr, Opens
<1>6. CASE j # id
  <2>1. call'[j] = call[j] /\ outcome'[j] = outcome[j]
    BY <1>4, <1>5, <1>6
  <2> QED
    BY <1>5, <2>1, SameReported
<1>7. CASE j = id
  <2>1. outcome[j] \notin SaysMissing \cup {"returned"}
    BY <1>3, <1>7 DEF IsReported
  <2>2. outcome'[j] = outcome[j] \/ outcome'[j] \in EarlyExceptions
    BY <1>3, <1>4, <1>5, <1>7
  <2>3. outcome'[j] \notin SaysMissing \cup {"returned"} /\ wire'[j] = "none"
    BY <1>3, <1>5, <1>7, <2>1, <2>2, EarlyOutcomesSayNothing
  <2> QED
    BY <2>3 DEF IsReported
<1> QED
  BY <1>6, <1>7

LEMMA ExecuteReports ==
  ASSUME CallInv, NEW id \in Ids, Execute(id), NEW j \in Ids, IsReported(j)
  PROVE  IsReported(j)'
<1>1. ExecuteShape(id)
  BY ExecuteChanges DEF CallInv
<1>2. UNCHANGED <<call, answer, found>>
  BY <1>1 DEF ExecuteShape
<1>3. CASE j # id
  BY <1>1, <1>2, <1>3, SameReported DEF ExecuteShape
<1>4. CASE j = id
  <2>1. outcome \in [Ids -> Results] /\ wire \in [Ids -> {"none", "request", "answer", "read"}]
    BY DEF CallInv, TypeInv, TypeOK
  <2>2. IsConsistent(j)
    BY DEF CallInv, CallsAreConsistent
  <2>3. phase[j] # "over" /\ Execute(j)
    BY <1>4 DEF Execute, Create, Send, NoResponse, ConnectionFails, Receive
  <2>4. CASE Create(j)
    <3>1. phase[j] = "create" /\ wire'[j] = wire[j]
          /\ (outcome' = outcome \/ outcome' = [outcome EXCEPT ![j] = "InvalidBucketName"])
      BY <2>4 DEF Create, Finish, netVars
    <3>2. wire[j] = "none"
      BY <2>2, <3>1 DEF IsConsistent
    <3>3. outcome'[j] = outcome[j] \/ outcome'[j] = "InvalidBucketName"
      BY <2>1, <3>1
    <3> QED
      BY <3>1, <3>2, <3>3, EarlyOutcomesSayNothing DEF IsReported
  <2>5. CASE Send(j)
    <3>1. phase[j] = "sign" /\ outcome' = outcome /\ wire' = [wire EXCEPT ![j] = "request"]
      BY <2>5 DEF Send
    <3>2. wire[j] = "none" /\ wire'[j] = "request"
      BY <2>1, <2>2, <3>1 DEF IsConsistent
    <3> QED
      BY <3>1, <3>2 DEF IsReported
  <2>6. CASE NoResponse(j)
    <3>1. phase[j] = "wait" /\ wire' = wire /\ outcome' = [outcome EXCEPT ![j] = "NoResponse"]
      BY <2>6 DEF NoResponse, ConnectionFails, Finish, netVars
    <3>2. outcome'[j] = "NoResponse"
      BY <2>1, <3>1
    <3> QED
      BY <1>2, <3>1, <3>2, EarlyOutcomesSayNothing DEF IsReported, TrueReport
  <2>7. CASE Receive(j)
    <3>1. PICK r : r = ResultOf(call[j], answer[j])
      OBVIOUS
    <3>2. /\ wire[j] = "answer" /\ wire' = [wire EXCEPT ![j] = "read"]
          /\ outcome' = [outcome EXCEPT ![j] = r]
      BY <2>7, <3>1 DEF Receive, Finish
    <3>3. wire'[j] = "read" /\ outcome'[j] = r
      BY <2>1, <3>2
    <3>4. TrueReport(call[j], answer[j], found[j]) /\ UNCHANGED <<call[j], answer[j], found[j]>>
      BY <1>2, <3>2 DEF IsReported
    <3> QED
      BY <3>1, <3>3, <3>4 DEF IsReported, TrueReport
  <2> QED
    BY <2>3, <2>4, <2>5, <2>6, <2>7 DEF Execute
<1> QED
  BY <1>3, <1>4

LEMMA ServeReports ==
  ASSUME HonestFaults, RequestInv, NEW id \in Ids, Serve(id), NEW j \in Ids, IsReported(j)
  PROVE  IsReported(j)'
<1>1. PICK response : Answer(id, response)
  BY ServeAnswers
<1>2. wire[id] = "request" /\ wire' = [wire EXCEPT ![id] = "answer"] /\ UNCHANGED <<call, outcome>>
  BY ServeAnswers
<1>3. wire \in [Ids -> {"none", "request", "answer", "read"}] /\ TypeOK
  BY DEF RequestInv, CallInv, TypeInv, TypeOK
<1>4. CASE j # id
  BY <1>1, <1>2, <1>3, <1>4, AnswerArrives, SameReported
<1>5. CASE j = id
  <2>1. TrueReport(call[j], answer'[j], found'[j])
    BY <1>5, ServeTells
  <2>2. outcome'[j] \notin SaysMissing \cup {"returned"} /\ call'[j] = call[j]
    BY <1>2, <1>5 DEF IsReported
  <2> QED
    BY <2>1, <2>2 DEF IsReported, TrueReport
<1> QED
  BY <1>4, <1>5

AllReported == \A id \in Ids : IsReported(id)

LEMMA StepReports ==
  HonestFaults /\ RequestInv /\ AllReported /\ [Next]_vars => AllReported'
<1> SUFFICES ASSUME HonestFaults, RequestInv, AllReported, [Next]_vars, NEW j \in Ids
             PROVE  IsReported(j)'
  BY DEF AllReported
<1>1. IsReported(j) /\ CallInv
  BY DEF AllReported, RequestInv
<1>2. CASE UNCHANGED <<clientVars, callVars, netVars, served, found>>
  BY <1>1, <1>2, SameReported DEF callVars, netVars
<1> QED
  BY <1>1, <1>2, StepCases, CallReports, ExecuteReports, ServeReports

(* When the faults of the store do not look like a missing bucket: if      *)
(* bucketExists() is true the bucket was there when the store saw the      *)
(* request, and if it is false, or a call throws NO_SUCH_BUCKET, it was    *)
(* not; whatever the clock, the network, the other clients and those who   *)
(* delete buckets do.  With a fault that does, one call suffices for a     *)
(* false report.                                                           *)
THEOREM BucketsAreReportedTruly ==
  ASSUME HonestFaults
  PROVE  Spec => []BucketReportsAreTrue
<1>1. Init => AllReported
  BY EarlyOutcomesSayNothing DEF Init, AllReported, IsReported
<1>2. RequestInv /\ AllReported /\ [Next]_vars => AllReported'
  BY StepReports
<1>3. AllReported => BucketReportsAreTrue
  <2> SUFFICES ASSUME AllReported, NEW id \in Ids, IsReported(id)
               PROVE  /\ outcome[id] \in {"false", "NO_SUCH_BUCKET"} => found[id] = "absent"
                      /\ outcome[id] = "returned" /\ call[id].op = "bucketExists"
                           => found[id] = "present"
    BY DEF AllReported, BucketReportsAreTrue
  <2> QED
    BY DEF IsReported, TrueReport, SaysMissing
<1> QED
  BY <1>1, <1>2, <1>3, RequestInvariant, PTL DEF Spec

(***************************************************************************)
(* What uploads leave in the store                                         *)
(***************************************************************************)

(* A thread makes its calls one after the other, and only a call that is   *)
(* over has told its caller anything.                                      *)
CallsInOrder ==
  \A id \in Ids :
    /\ id[2] < made[id[1]] => phase[id] = "over"
    /\ outcome[id] # "none" => phase[id] = "over"

LEMMA CallKeepsOrder ==
  ASSUME CallInv, CallsInOrder, NEW c \in Clients, Call(c)
  PROVE  CallsInOrder'
<1>1. PICK args : PassesOr(c, args)
  BY CallPasses DEF CallInv
<1>2. PICK id : id = <<c, made[c] + 1>>
  OBVIOUS
<1>3. id \in Ids /\ phase[id] = "unused" /\ Idle(c)
  BY <1>1, <1>2, NextCallIsUnused DEF PassesOr, Opens
<1>4. phase \in [Ids -> Phases] /\ outcome \in [Ids -> Results] /\ made \in [Clients -> 0..MaxCalls]
  BY DEF CallInv, TypeInv, TypeOK
<1>5. /\ made' = [made EXCEPT ![c] = @ + 1]
      /\ \/ phase' = [phase EXCEPT ![id] = "create"] /\ outcome' = outcome
         \/ phase' = [phase EXCEPT ![id] = "over"]
            /\ \E e \in EarlyExceptions : outcome' = [outcome EXCEPT ![id] = e]
  BY <1>1, <1>2 DEF PassesOr, Opens
<1> SUFFICES ASSUME NEW j \in Ids
             PROVE  /\ j[2] < made'[j[1]] => phase'[j] = "over"
                    /\ outcome'[j] # "none" => phase'[j] = "over"
  BY DEF CallsInOrder
<1>6. j = <<j[1], j[2]>> /\ j[1] \in Clients /\ j[2] \in 1..MaxCalls
  BY IdsArePairs
<1>7. made'[c] = made[c] + 1 /\ made[c] \in Nat /\ (j[1] # c => made'[j[1]] = made[j[1]])
  BY <1>4, <1>5, <1>6, BoundsAssumption
<1>8. CASE j = id
  <2>1. outcome[j] = "none"
    BY <1>3, <1>8 DEF CallsInOrder
  <2>2. ~(j[2] < made'[j[1]])
    BY <1>2, <1>7, <1>8
  <2>3. outcome'[j] # "none" => phase'[j] = "over"
    BY <1>3, <1>4, <1>5, <1>8, <2>1
  <2> QED
    BY <2>2, <2>3
<1>9. CASE j # id
  <2>1. phase'[j] = phase[j] /\ outcome'[j] = outcome[j]
    BY <1>4, <1>5, <1>9
  <2>2. ASSUME j[1] = c, j[2] < made'[c] PROVE phase[j] = "over"
    <3>1. ~(j[2] > made[c])
      BY <1>6, <1>7, <2>2, BoundsAssumption
    <3>2. phase[j] # "unused"
      BY <2>2, <3>1 DEF CallInv, CallsAreConsistent, IsConsistent
    <3>3. phase[<<c, j[2]>>] \in {"unused", "over"} /\ j = <<c, j[2]>>
      BY <1>3, <1>6, <2>2 DEF Idle
    <3> QED
      BY <3>2, <3>3
  <2> QED
    BY <1>7, <2>1, <2>2 DEF CallsInOrder
<1> QED
  BY <1>8, <1>9

LEMMA ExecuteKeepsOrder ==
  ASSUME CallInv, CallsInOrder, NEW id \in Ids, Execute(id)
  PROVE  CallsInOrder'
<1>1. ExecuteShape(id)
  BY ExecuteChanges DEF CallInv
<1>2. phase[id] # "over"
  BY DEF Execute, Create, Send, NoResponse, ConnectionFails, Receive
<1>3. ~(id[2] < made[id[1]]) /\ outcome[id] = "none" /\ made' = made
  BY <1>1, <1>2 DEF CallsInOrder, ExecuteShape
<1>4. outcome' = outcome \/ phase'[id] = "over"
  <2>1. phase \in [Ids -> Phases]
    BY DEF CallInv, TypeInv, TypeOK
  <2> QED
    BY <2>1 DEF Execute, Create, Send, NoResponse, ConnectionFails, Receive, Finish
<1> SUFFICES ASSUME NEW j \in Ids
             PROVE  /\ j[2] < made'[j[1]] => phase'[j] = "over"
                    /\ outcome'[j] # "none" => phase'[j] = "over"
  BY DEF CallsInOrder
<1>5. CASE j = id
  BY <1>3, <1>4, <1>5
<1>6. CASE j # id
  BY <1>1, <1>3, <1>6 DEF ExecuteShape, CallsInOrder
<1> QED
  BY <1>5, <1>6

LEMMA StepKeepsOrder ==
  CallInv /\ CallsInOrder /\ [Next]_vars => CallsInOrder'
<1> SUFFICES ASSUME CallInv, CallsInOrder, [Next]_vars PROVE CallsInOrder'
  OBVIOUS
<1>1. CASE \E id \in Ids : Serve(id)
  <2>1. UNCHANGED <<made, phase, outcome>>
    BY <1>1, ServeAnswers
  <2> QED
    BY <2>1 DEF CallsInOrder
<1>2. CASE UNCHANGED <<clientVars, callVars, netVars, served, found>>
  BY <1>2 DEF CallsInOrder, clientVars, callVars
<1> QED
  BY <1>1, <1>2, StepCases, CallKeepsOrder, ExecuteKeepsOrder

(* No upload to the object was carried out. *)
IsUntouched(b, o) ==
  content[<<b, o>>] = EmptyBody /\ \A j \in UploadsTo(b, o) : served[j] = 0

(* The object holds what upload w put there; the caller of w cannot know   *)
(* it, or no later upload of the same client was carried out.              *)
IsNewest(w, b, o) ==
  /\ w \in UploadsTo(b, o) /\ served[w] = 1
  /\ content[<<b, o>>] = call[w].body
  /\ \/ outcome[w] = "NoResponse"
     \/ \A j \in UploadsTo(b, o) : served[j] = 1 /\ j[1] = w[1] => j[2] <= w[2]

IsStored(b, o) == IsUntouched(b, o) \/ \E w \in Ids : IsNewest(w, b, o)

StoreInv == \A b \in Buckets, o \in Objects : IsStored(b, o)

(* For this object, call j counts afterwards if and only if it did before. *)
CountsAsBefore(j, b, o) ==
  /\ j \in UploadsTo(b, o)' /\ served'[j] # 0 => j \in UploadsTo(b, o) /\ served[j] = served'[j]
  /\ j \in UploadsTo(b, o) /\ served[j] = 1 =>
       /\ j \in UploadsTo(b, o)' /\ served'[j] = 1 /\ call'[j] = call[j]
       /\ outcome[j] = "NoResponse" => outcome'[j] = "NoResponse"

LEMMA StaysStored ==
  ASSUME NEW b, NEW o, IsStored(b, o), content'[<<b, o>>] = content[<<b, o>>],
         \A j \in Ids : CountsAsBefore(j, b, o)
  PROVE  IsStored(b, o)'
<1>1. UploadsTo(b, o) \subseteq Ids /\ UploadsTo(b, o)' \subseteq Ids
  BY DEF UploadsTo
<1>2. CASE IsUntouched(b, o)
  <2>1. ASSUME NEW j \in UploadsTo(b, o)' PROVE served'[j] = 0
    BY <1>1, <1>2, <2>1 DEF CountsAsBefore, IsUntouched
  <2> QED
    BY <1>2, <2>1 DEF IsStored, IsUntouched
<1>3. ASSUME NEW w \in Ids, IsNewest(w, b, o) PROVE IsNewest(w, b, o)'
  <2>1. /\ w \in UploadsTo(b, o)' /\ served'[w] = 1 /\ call'[w] = call[w]
        /\ outcome[w] = "NoResponse" => outcome'[w] = "NoResponse"
    BY <1>3 DEF CountsAsBefore, IsNewest
  <2>2. \A j \in UploadsTo(b, o)' : served'[j] = 1 => j \in UploadsTo(b, o) /\ served[j] = 1
    BY <1>1 DEF CountsAsBefore
  <2> QED
    BY <1>3, <2>1, <2>2 DEF IsNewest
<1> QED
  BY <1>2, <1>3 DEF IsStored

LEMMA CallKeepsStore ==
  ASSUME CallInv, StoreInv, NEW c \in Clients, Call(c)
  PROVE  StoreInv'
<1>1. PICK args : PassesOr(c, args)
  BY CallPasses DEF CallInv
<1>2. PICK id : id = <<c, made[c] + 1>>
  OBVIOUS
<1>3. id \in Ids /\ served[id] = 0
  BY <1>1, <1>2, NextCallIsUnused DEF PassesOr, Opens
<1>4. call \in [Ids -> Calls] /\ outcome \in [Ids -> Results]
  BY DEF CallInv, TypeInv, TypeOK
<1>5. /\ call' = [call EXCEPT ![id] = args] /\ UNCHANGED <<content, served>>
      /\ outcome' = outcome \/ \E e \in EarlyExceptions : outcome' = [outcome EXCEPT ![id] = e]
  BY <1>1, <1>2 DEF PassesOr, Opens
<1>6. \A j \in Ids \ {id} : call'[j] = call[j] /\ outcome'[j] = outcome[j]
  BY <1>4, <1>5
<1>7. ASSUME NEW j \in Ids, NEW b, NEW o PROVE CountsAsBefore(j, b, o)
  BY <1>3, <1>5, <1>6 DEF CountsAsBefore, UploadsTo
<1> QED
  BY <1>5, <1>7, StaysStored DEF StoreInv

LEMMA ExecuteKeepsStore ==
  ASSUME CallInv, CallsInOrder, StoreInv, NEW id \in Ids, Execute(id)
  PROVE  StoreInv'
<1>1. ExecuteShape(id)
  BY ExecuteChanges DEF CallInv
<1>2. outcome[id] = "none"
  BY DEF CallsInOrder, Execute, Create, Send, NoResponse, ConnectionFails, Receive
<1>3. ASSUME NEW j \in Ids, NEW b, NEW o PROVE CountsAsBefore(j, b, o)
  BY <1>1, <1>2 DEF CountsAsBefore, UploadsTo, ExecuteShape
<1> QED
  BY <1>1, <1>3, StaysStored DEF StoreInv, ExecuteShape

(* What a request that is carried out changes: an upload replaces its      *)
(* object, and nothing else changes an object.                             *)
LEMMA SuccessStores ==
  ASSUME RequestInv, NEW id \in Ids, Obey(id), Success(id)
  PROVE  LET a == call[id]
         IN  \/ a.op # "putObject" /\ UNCHANGED content
             \/ /\ a.op = "putObject" /\ a.bucket \in Buckets /\ a.object \in Objects
                /\ content' = [content EXCEPT ![<<a.bucket, a.object>>] = a.body]
<1> PICK a, r : a = call[id] /\ r = request[id]
  OBVIOUS
<1>1. wire[id] = "request"
  BY DEF Obey
<1>2. IsPassed(a, GetRegion(id[1])) /\ a \in Calls
  BY <1>1 DEF RequestInv, IsMade, Active, CallInv, TypeInv, TypeOK
<1>3. r.method = Method(a.op) /\ r.path = Path(a.bucket, a.object) /\ r.body = a.body
  BY <1>1, MadeOfItsCall
<1>4. r.path.bucket = a.bucket /\ r.path.object = a.object
  BY <1>3 DEF Path
<1>5. a.bucket \in Buckets \cup {""} /\ a.object \in Objects \cup {""}
  BY <1>2 DEF Calls
<1>6. served' # served
  <2>1. served \in [Ids -> Nat] /\ served' = [served EXCEPT ![id] = @ + 1]
    BY DEF RequestInv, CallInv, TypeInv, TypeOK, Success
  <2>2. served'[id] = served[id] + 1 /\ served[id] \in Nat
    BY <2>1
  <2> QED
    BY <2>2
<1>7. ASSUME NEW code, NEW ecode, Refusal(id, code, ecode) PROVE FALSE
  BY <1>6, <1>7 DEF Refusal
<1>8. CASE /\ r.path.bucket # "" /\ r.method = "PUT" /\ r.path.object = "" /\ UNCHANGED content
  BY <1>2, <1>4, <1>8 DEF IsPassed
<1>9. CASE /\ r.path.bucket # "" /\ (r.method = "HEAD" \/ r.path.object # "")
           /\ content' = IF r.method = "PUT"
                         THEN [content EXCEPT ![<<r.path.bucket, r.path.object>>] = r.body]
                         ELSE content
  <2>1. CASE r.method = "PUT"
    <3>1. a.object # "" /\ a.op = "putObject"
      BY <1>2, <1>4, <1>9, <2>1 DEF IsPassed
    <3> QED
      BY <1>3, <1>4, <1>5, <1>9, <2>1, <3>1
  <2>2. CASE r.method # "PUT"
    <3>1. a.op # "putObject"
      BY <1>3, <2>2 DEF Method
    <3> QED
      BY <1>9, <2>2, <3>1
  <2> QED
    BY <2>1, <2>2
<1> QED
  BY <1>7, <1>8, <1>9 DEF Obey

LEMMA SuccessKeepsStore ==
  ASSUME RequestInv, CallsInOrder, StoreInv, NEW id \in Ids, Obey(id), Success(id)
  PROVE  StoreInv'
<1> PICK a : a = call[id]
  OBVIOUS
<1>1. wire[id] = "request" /\ UNCHANGED <<made, call, phase, outcome>>
  BY DEF Obey, Success, Answer, clientVars, callVars
<1>2. CallInv /\ IsConsistent(id)
  BY DEF RequestInv, CallInv, CallsAreConsistent
<1>3. served[id] = 0 /\ phase[id] \in {"wait", "over"}
      /\ (phase[id] = "over" => outcome[id] = "NoResponse")
  <2>1. phase[id] \in Phases
    BY <1>2 DEF CallInv, TypeInv, TypeOK
  <2> QED
    BY <1>1, <1>2, <2>1 DEF IsConsistent, Phases
<1>4. served'[id] = 1 /\ \A j \in Ids \ {id} : served'[j] = served[j]
  <2>1. served \in [Ids -> Nat] /\ served' = [served EXCEPT ![id] = @ + 1]
    BY <1>2 DEF CallInv, TypeInv, TypeOK, Success
  <2> QED
    BY <1>3, <2>1
<1>5. \A b, o : UploadsTo(b, o)' = UploadsTo(b, o)
  BY <1>1 DEF UploadsTo
<1>6. content \in [Buckets \X Objects -> Payloads]
  BY <1>2 DEF CallInv, TypeInv, TypeOK
<1> SUFFICES ASSUME NEW b \in Buckets, NEW o \in Objects PROVE IsStored(b, o)'
  BY DEF StoreInv
<1>7. CASE id \notin UploadsTo(b, o)
  <2>1. content'[<<b, o>>] = content[<<b, o>>]
    <3>1. a.op = "putObject" => <<a.bucket, a.object>> # <<b, o>>
      BY <1>7 DEF UploadsTo
    <3> QED
      BY <1>6, <3>1, SuccessStores
  <2>2. ASSUME NEW j \in Ids PROVE CountsAsBefore(j, b, o)
    BY <1>1, <1>4, <1>5, <1>7 DEF CountsAsBefore
  <2> QED
    BY <2>1, <2>2, StaysStored DEF StoreInv
<1>8. CASE id \in UploadsTo(b, o)
  <2>1. a.op = "putObject" /\ a.bucket = b /\ a.object = o
    BY <1>8 DEF UploadsTo
  <2>2. content'[<<b, o>>] = call'[id].body
    BY <1>1, <1>6, <2>1, SuccessStores
  <2>3. ASSUME NEW j \in UploadsTo(b, o)', served'[j] = 1, j[1] = id[1], phase[id] = "wait"
        PROVE  j[2] <= id[2]
    <3>1. j \in Ids
      BY <2>3 DEF UploadsTo
    <3>2. ~(id[2] < made[id[1]])
      BY <2>3 DEF CallsInOrder
    <3>3. IsConsistent(j)
      BY <1>2, <3>1 DEF CallInv, CallsAreConsistent
    <3>4. id[2] \in Nat /\ j[2] \in Nat /\ made[id[1]] \in Nat
      <4>1. id[1] \in Clients /\ id[2] \in 1..MaxCalls /\ j[2] \in 1..MaxCalls
        BY <3>1, IdsArePairs
      <4>2. made[id[1]] \in 0..MaxCalls
        BY <1>2, <4>1 DEF CallInv, TypeInv, TypeOK
      <4> QED
        BY <4>1, <4>2, BoundsAssumption
    <3>5. CASE j = id
      BY <3>4, <3>5
    <3>6. CASE j # id
      <4>1. served[j] = 1
        BY <1>4, <2>3, <3>1, <3>6
      <4>2. phase[j] # "unused"
        BY <3>3, <4>1 DEF IsConsistent
      <4>3. ~(j[2] > made[j[1]])
        BY <3>3, <4>2 DEF IsConsistent
      <4> QED
        BY <2>3, <3>2, <3>4, <4>3
    <3> QED
      BY <3>5, <3>6
  <2>4. IsNewest(id, b, o)'
    BY <1>1, <1>3, <1>4, <1>5, <1>8, <2>2, <2>3 DEF IsNewest
  <2> QED
    BY <2>4 DEF IsStored
<1> QED
  BY <1>7, <1>8

LEMMA StepKeepsStore ==
  RequestInv /\ CallsInOrder /\ StoreInv /\ [Next]_vars => StoreInv'
<1> SUFFICES ASSUME RequestInv, CallsInOrder, StoreInv, [Next]_vars PROVE StoreInv'
  OBVIOUS
<1>1. CallInv
  BY DEF RequestInv
<1>2. ASSUME UNCHANGED <<call, outcome, content, served>> PROVE StoreInv'
  <2>1. ASSUME NEW j \in Ids, NEW b, NEW o PROVE CountsAsBefore(j, b, o)
    BY <1>2 DEF CountsAsBefore, UploadsTo
  <2> QED
    BY <1>2, <2>1, StaysStored DEF StoreInv
<1>3. ASSUME NEW id \in Ids, Serve(id) PROVE StoreInv'
  <2>1. CASE Obey(id) /\ Success(id)
    BY <2>1, SuccessKeepsStore
  <2>2. CASE UNCHANGED <<content, served>>
    BY <1>2, <1>3, <2>2, ServeAnswers
  <2> QED
    BY <1>3, <2>1, <2>2 DEF Serve, Fail, Deny, Obey, Refusal
<1>4. CASE /\ (\E b \in Deletable : DeleteBucket(b)) \/ UNCHANGED <<location, content>>
           /\ UNCHANGED <<clientVars, callVars, netVars, served, found>>
  <2>1. UNCHANGED content
    BY <1>4 DEF DeleteBucket
  <2> QED
    BY <1>2, <1>4, <2>1 DEF callVars
<1> QED
  BY <1>1, <1>3, <1>4, StepCases, CallKeepsStore, ExecuteKeepsStore

(* An object holds what a successful upload of some client put there, none *)
(* of whose later uploads succeeded, unless an upload that is running or   *)
(* that ended with NoResponseException did; it is empty only when no       *)
(* upload has succeeded.  This holds for any number of clients and calls,  *)
(* however the store delays, fails or drops their requests.                *)
THEOREM UploadsAreNotLost == Spec => []LastUploadWins
<1>1. Init => CallsInOrder /\ StoreInv
  <2> SUFFICES ASSUME Init PROVE CallsInOrder /\ StoreInv
    OBVIOUS
  <2>1. CallsInOrder
    <3>1. ASSUME NEW id \in Ids PROVE outcome[id] = "none" /\ ~(id[2] < made[id[1]])
      <4>1. outcome[id] = "none" /\ made[id[1]] = 0
        BY IdsArePairs DEF Init
      <4>2. ~(id[2] < 0)
        BY IdsArePairs, BoundsAssumption
      <4> QED
        BY <4>1, <4>2
    <3> QED
      BY <3>1 DEF CallsInOrder
  <2>2. StoreInv
    <3>1. ASSUME NEW b \in Buckets, NEW o \in Objects PROVE IsUntouched(b, o)
      BY DEF Init, IsUntouched, UploadsTo
    <3> QED
      BY <3>1 DEF StoreInv, IsStored
  <2> QED
    BY <2>1, <2>2
<1>2. RequestInv /\ CallsInOrder /\ StoreInv /\ [Next]_vars => CallsInOrder' /\ StoreInv'
  BY StepKeepsOrder, StepKeepsStore DEF RequestInv
<1>3. RequestInv /\ CallsInOrder /\ StoreInv => LastUploadWins
  <2> SUFFICES ASSUME RequestInv, CallsInOrder, NEW b \in Buckets, NEW o \in Objects, IsStored(b, o)
               PROVE  LET uploads    == UploadsTo(b, o)
                          successful == {i \in uploads : outcome[i] = "returned"}
                      IN  \/ content[<<b, o>>] = EmptyBody /\ successful = {}
                          \/ \E i \in uploads :
                               /\ content[<<b, o>>] = call[i].body
                               /\ \/ Unsettled(i)
                                  \/ /\ i \in successful
                                     /\ \A j \in successful : j[1] = i[1] => j[2] <= i[2]
    BY DEF StoreInv, LastUploadWins
  <2> DEFINE successful == {i \in UploadsTo(b, o) : outcome[i] = "returned"}
  <2>1. ASSUME NEW j \in UploadsTo(b, o)
        PROVE  /\ outcome[j] = "returned" => served[j] = 1
               /\ served[j] = 1 => Unsettled(j) \/ outcome[j] = "returned"
    <3>1. j \in Ids
      BY DEF UploadsTo
    <3>2. IsConsistent(j) /\ (outcome[j] # "none" => phase[j] = "over")
      BY <3>1 DEF RequestInv, CallInv, CallsAreConsistent, CallsInOrder
    <3> QED
      BY <3>2 DEF IsConsistent, Unsettled
  <2>2. CASE IsUntouched(b, o)
    <3>1. successful = {}
      BY <2>1, <2>2 DEF IsUntouched
    <3> QED
      BY <2>2, <3>1 DEF IsUntouched
  <2>3. ASSUME NEW w \in Ids, IsNewest(w, b, o)
        PROVE  /\ w \in UploadsTo(b, o) /\ content[<<b, o>>] = call[w].body
               /\ \/ Unsettled(w)
                  \/ w \in successful /\ \A j \in successful : j[1] = w[1] => j[2] <= w[2]
    BY <2>1, <2>3 DEF IsNewest, Unsettled
  <2> QED
    BY <2>2, <2>3 DEF IsStored
<1> QED
  BY <1>1, <1>2, <1>3, RequestInvariant, PTL DEF Spec
=============================================================================
