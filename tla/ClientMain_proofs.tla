-------------------------- MODULE ClientMain_proofs --------------------------
(***************************************************************************)
(* Theorems about any number of programs, for every fault of the store and *)
(* every configuration: what they do to the store is what MinioClient      *)
(* allows, what they print of their uploads is so, one that fails has a    *)
(* reason, and its trace tells how each of its requests ended.             *)
(***************************************************************************)
EXTENDS ClientMain, MinioReports_proofs, SequenceTheorems, FiniteSetTheorems

(***************************************************************************)
(* Programs are clients                                                    *)
(***************************************************************************)

(* The calls of main() are ones of MinioClient. *)
LEMMA MainCallStep ==
  ASSUME NEW c \in Clients,
         \/ BucketExists(c, Bucket)
         \/ MakeBucket(c, Bucket, "")
         \/ PutObject(c, Bucket, Object, File, Absent)
  PROVE  Call(c)
BY MainAssumption DEF Call

(* A step of a program is a call or none of MinioClient's business. *)
LEMMA MainCases ==
  ASSUME NEW c \in Clients, Main(c)
  PROVE  \/ UNCHANGED vars
         \/ BucketExists(c, Bucket)
         \/ MakeBucket(c, Bucket, "")
         \/ PutObject(c, Bucket, Object, File, Absent)
BY DEF Main, Usage, BadEndpoint, Begin, BucketIsThere, MakeMissingBucket, BucketIsMade, Report, Catch

LEMMA MainStep == [MainNext]_<<vars, mainVars>> => [Next]_vars
<1> SUFFICES ASSUME [MainNext]_<<vars, mainVars>> PROVE [Next]_vars
  OBVIOUS
<1>1. ASSUME NEW c \in Clients, Main(c) PROVE [Next]_vars
  BY <1>1, MainCases, MainCallStep DEF Next
<1>2. ASSUME NEW id \in Ids, TracedExecute(id) PROVE [Next]_vars
  BY <1>2 DEF TracedExecute, Next, Execute
<1>3. CASE Environment
  BY <1>3 DEF Next
<1>4. CASE Ended \/ UNCHANGED <<vars, mainVars>>
  BY <1>4 DEF Ended
<1> QED
  BY <1>1, <1>2, <1>3, <1>4 DEF MainNext

(* The programs of client.cpp use MinioClient as its specification says:   *)
(* main() makes one call at a time and has no other effects.               *)
THEOREM ProgramsAreClients == MainSpec => Spec
<1>1. MainInit => Init
  BY DEF MainInit
<1> QED
  BY <1>1, MainStep, PTL DEF MainSpec, Spec

(* However many programs race, none of their calls is carried out twice,   *)
(* and what main() is told of each call is true of the store.              *)
THEOREM ProgramsAreToldTheTruth == MainSpec => []CarriedOutOnce /\ KeepsPromise
  BY ProgramsAreClients, CallsCarriedOutOnce, Refinement, PTL

(***************************************************************************)
(* The calls of main()                                                     *)
(***************************************************************************)

Uploaded == <<"data", File>>

OpensNext(c, args) == Opens(c, args, <<c, made[c] + 1>>) /\ HomeStays

LEMMA StartOpensNext ==
  ASSUME CallInv, NEW c \in Clients, NEW args, Start(c, args),
         region' = region \/ region' = [region EXCEPT ![c] = GetRegion(c)]
  PROVE  OpensNext(c, args) /\ outcome' = outcome
BY StartOpens, LatchingKeepsHomes DEF OpensNext, Start, CallInv

LEMMA ThrowOpensNext ==
  ASSUME CallInv, NEW c \in Clients, NEW args, NEW e \in EarlyExceptions, Throw(c, args, e)
  PROVE  /\ OpensNext(c, args)
         /\ phase'[<<c, made[c] + 1>>] = "over" /\ outcome'[<<c, made[c] + 1>>] = e
<1>1. OpensNext(c, args)
  BY ThrowOpens, LatchingKeepsHomes DEF OpensNext, Throw, CallInv
<1>2. PICK id : id = <<c, made[c] + 1>>
  OBVIOUS
<1>3. id \in Ids
  BY <1>1, <1>2, NextCallIsUnused DEF OpensNext, Opens
<1>4. phase' = [phase EXCEPT ![id] = "over"] /\ outcome' = [outcome EXCEPT ![id] = e]
  BY <1>2 DEF Throw
<1>5. phase \in [Ids -> Phases] /\ outcome \in [Ids -> Results]
  BY DEF CallInv, TypeInv, TypeOK
<1>6. phase'[id] = "over" /\ outcome'[id] = e
  BY <1>3, <1>4, <1>5
<1> QED
  BY <1>1, <1>2, <1>6

(* What main() passes to its three calls, and what they may throw.         *)
LEMMA BucketExistsOpens ==
  ASSUME CallInv, NEW c \in Clients, BucketExists(c, Bucket)
  PROVE  \E args : /\ OpensNext(c, args) /\ outcome' = outcome
                   /\ args.op = "bucketExists" /\ args.bucket = Bucket /\ args.object = ""
<1> DEFINE args == [NoCall EXCEPT !.op = "bucketExists", !.bucket = Bucket, !.region = GetRegion(c)]
<1>1. Start(c, args) /\ region' = [region EXCEPT ![c] = GetRegion(c)]
  BY DEF BucketExists
<1>2. args.op = "bucketExists" /\ args.bucket = Bucket /\ args.object = ""
  BY DEF NoCall
<1> QED
  BY <1>1, <1>2, StartOpensNext

(* A makeBucket that is passed no region never finds a conflict. *)
LEMMA MakeBucketOpens ==
  ASSUME CallInv, NEW c \in Clients, MakeBucket(c, Bucket, "")
  PROVE  \E args : /\ OpensNext(c, args) /\ outcome' = outcome
                   /\ args.op = "makeBucket" /\ args.bucket = Bucket /\ args.object = ""
<1> DEFINE args == [NoCall EXCEPT !.op = "makeBucket", !.bucket = Bucket, !.region = US_EAST_1,
                                  !.body = BucketConfiguration(EffectiveRegion(c, ""))]
<1>1. ~RegionConflict(c, EffectiveRegion(c, ""))
  BY DEF RegionConflict, EffectiveRegion
<1>2. Start(c, args) /\ region' = region
  BY <1>1 DEF MakeBucket
<1>3. args.op = "makeBucket" /\ args.bucket = Bucket /\ args.object = ""
  BY DEF NoCall
<1> QED
  BY <1>2, <1>3, StartOpensNext

LEMMA UploadOpens ==
  ASSUME CallInv, NEW c \in Clients, PutObject(c, Bucket, Object, File, Absent)
  PROVE  \E args : /\ OpensNext(c, args)
                   /\ args.op = "putObject" /\ args.bucket = Bucket /\ args.object = Object
                   /\ args.body = Uploaded \/ phase'[<<c, made[c] + 1>>] = "over"
                   /\ outcome' = outcome \/ outcome'[<<c, made[c] + 1>>] \in {"RuntimeError", "ReadFailed"}
<1>1. {"RuntimeError", "ReadFailed"} \subseteq EarlyExceptions
  BY DEF EarlyExceptions
<1>2. CASE Upload(c, Bucket, Object, File, Absent)
  <2> DEFINE args == [NoCall EXCEPT !.op = "putObject", !.bucket = Bucket, !.object = Object,
                        !.body = <<"data", File>>, !.headers = UploadHeaders(Absent)]
             located == [args EXCEPT !.region = GetRegion(c)]
  <2>1. \/ Throw(c, args, "RuntimeError")
        \/ Start(c, located) /\ region' = [region EXCEPT ![c] = GetRegion(c)]
    BY <1>2 DEF Upload
  <2>2. /\ args.op = "putObject" /\ args.bucket = Bucket /\ args.object = Object /\ args.body = Uploaded
        /\ located.op = "putObject" /\ located.bucket = Bucket /\ located.object = Object
        /\ located.body = Uploaded
    BY DEF NoCall, Uploaded
  <2> HIDE DEF args, located
  <2> QED
    BY <1>1, <2>1, <2>2, StartOpensNext, ThrowOpensNext
<1>3. CASE Throw(c, [NoCall EXCEPT !.op = "putObject", !.bucket = Bucket, !.object = Object], "ReadFailed")
  <2> DEFINE args == [NoCall EXCEPT !.op = "putObject", !.bucket = Bucket, !.object = Object]
  <2>1. args.op = "putObject" /\ args.bucket = Bucket /\ args.object = Object
    BY DEF NoCall
  <2> HIDE DEF args
  <2> QED
    BY <1>1, <1>3, <2>1, ThrowOpensNext DEF args
<1> QED
  BY <1>2, <1>3 DEF PutObject

(* A call is new, and the others keep what they have. *)
LEMMA OpenChanges ==
  ASSUME CallInv, NEW c \in Clients, NEW args, OpensNext(c, args),
         NEW id, id = <<c, made[c] + 1>>
  PROVE  /\ id \in Ids /\ phase[id] = "unused" /\ wire[id] = "none" /\ served[id] = 0
         /\ call'[id] = args /\ phase'[id] \in {"create", "over"}
         /\ \A j \in Ids \ {id} : call'[j] = call[j] /\ phase'[j] = phase[j] /\ outcome'[j] = outcome[j]
         /\ config' = config /\ request' = request /\ wire' = wire /\ answer' = answer
         /\ location' = location /\ content' = content /\ served' = served /\ found' = found
<1>1. id \in Ids /\ phase[id] = "unused" /\ wire[id] = "none" /\ served[id] = 0
  BY NextCallIsUnused DEF OpensNext, Opens
<1>2. /\ call \in [Ids -> Calls] /\ phase \in [Ids -> Phases] /\ outcome \in [Ids -> Results]
  BY DEF CallInv, TypeInv, TypeOK
<1>3. /\ call' = [call EXCEPT ![id] = args]
      /\ \/ phase' = [phase EXCEPT ![id] = "create"] /\ outcome' = outcome
         \/ phase' = [phase EXCEPT ![id] = "over"]
            /\ \E e \in EarlyExceptions : outcome' = [outcome EXCEPT ![id] = e]
      /\ UNCHANGED <<config, request, wire, answer, location, content, served, found>>
  BY DEF OpensNext, Opens
<1> QED
  BY <1>1, <1>2, <1>3

(* What main() passes, to a call that may throw at once. *)
Passed(args, id) ==
  /\ args.op # "" /\ args.bucket = Bucket
  /\ IF args.op = "putObject"
     THEN args.object = Object /\ (args.body = Uploaded \/ phase'[id] = "over")
     ELSE args.object = ""

(* What a call of main() does, and what it may throw at once. *)
MainPasses(c, args) ==
  LET id == <<c, made[c] + 1>>
  IN  /\ OpensNext(c, args) /\ Passed(args, id)
      /\ outcome' = outcome \/ outcome'[id] \in {"RuntimeError", "ReadFailed"}

LEMMA MainOpens ==
  ASSUME CallInv, NEW c \in Clients, Main(c)
  PROVE  UNCHANGED vars \/ \E args : MainPasses(c, args)
<1>1. CASE BucketExists(c, Bucket)
  <2>1. PICK args : /\ OpensNext(c, args) /\ outcome' = outcome
                    /\ args.op = "bucketExists" /\ args.bucket = Bucket /\ args.object = ""
    BY <1>1, BucketExistsOpens
  <2> QED
    BY <2>1 DEF MainPasses, Passed
<1>2. CASE MakeBucket(c, Bucket, "")
  <2>1. PICK args : /\ OpensNext(c, args) /\ outcome' = outcome
                    /\ args.op = "makeBucket" /\ args.bucket = Bucket /\ args.object = ""
    BY <1>2, MakeBucketOpens
  <2> QED
    BY <2>1 DEF MainPasses, Passed
<1>3. CASE PutObject(c, Bucket, Object, File, Absent)
  <2>1. PICK args : /\ OpensNext(c, args)
                    /\ args.op = "putObject" /\ args.bucket = Bucket /\ args.object = Object
                    /\ args.body = Uploaded \/ phase'[<<c, made[c] + 1>>] = "over"
                    /\ outcome' = outcome \/ outcome'[<<c, made[c] + 1>>] \in {"RuntimeError", "ReadFailed"}
    BY <1>3, UploadOpens
  <2> QED
    BY <2>1 DEF MainPasses, Passed
<1> QED
  BY <1>1, <1>2, <1>3, MainCases

(***************************************************************************)
(* The store: an upload that was carried out left the file in the object   *)
(***************************************************************************)

FileIsStored == content[<<Bucket, Object>>] = Uploaded

(* Every call names the bucket, and only a putObject names an object, which *)
(* is main()'s; one that is not given the file never sends anything.       *)
CallFits(id) ==
  LET a == call[id]
  IN  /\ a.op # "" => a.bucket = Bucket
      /\ IF a.op = "putObject"
         THEN /\ a.object = Object
              /\ a.body = Uploaded \/ (phase[id] = "over" /\ wire[id] = "none")
         ELSE a.object = ""

UploadIsStored(id) == call[id].op = "putObject" /\ served[id] = 1 => FileIsStored

Fits(id) == CallFits(id) /\ UploadIsStored(id)

FileInv == RequestInv /\ \A id \in Ids : Fits(id)

(* A call of main() that begins fits, and disturbs no other. *)
LEMMA OpenFits ==
  ASSUME FileInv, NEW c \in Clients, NEW args, OpensNext(c, args), Passed(args, <<c, made[c] + 1>>)
  PROVE  \A j \in Ids : Fits(j)'
<1> SUFFICES ASSUME NEW j \in Ids PROVE Fits(j)'
  OBVIOUS
<1>1. PICK id : id = <<c, made[c] + 1>>
  OBVIOUS
<1>2. /\ wire[id] = "none" /\ served[id] = 0 /\ call'[id] = args
      /\ \A i \in Ids \ {id} : call'[i] = call[i] /\ phase'[i] = phase[i]
      /\ wire' = wire /\ content' = content /\ served' = served
  <2>1. CallInv
    BY DEF FileInv, RequestInv
  <2> QED
    BY <1>1, <2>1, OpenChanges
<1>3. CASE j = id
  <2>1. Passed(args, j)
    BY <1>1, <1>3
  <2>2. CallFits(j)'
    BY <1>2, <1>3, <2>1 DEF CallFits, Passed
  <2>3. UploadIsStored(j)'
    BY <1>2, <1>3 DEF UploadIsStored
  <2> QED
    BY <2>2, <2>3 DEF Fits
<1>4. CASE j # id
  <2>1. call'[j] = call[j] /\ phase'[j] = phase[j] /\ wire'[j] = wire[j] /\ served'[j] = served[j]
    BY <1>2, <1>4
  <2>2. Fits(j) /\ content' = content
    BY <1>2 DEF FileInv
  <2> QED
    BY <2>1, <2>2 DEF Fits, CallFits, UploadIsStored, FileIsStored
<1> QED
  BY <1>3, <1>4

LEMMA MainFits ==
  ASSUME FileInv, NEW c \in Clients, Main(c)
  PROVE  (\A j \in Ids : Fits(j)') /\ (FileIsStored => FileIsStored')
<1>1. CASE UNCHANGED vars
  BY <1>1 DEF vars, callVars, netVars, storeVars, FileInv, Fits, CallFits, UploadIsStored, FileIsStored
<1>2. ASSUME NEW args, MainPasses(c, args)
      PROVE  (\A j \in Ids : Fits(j)') /\ (FileIsStored => FileIsStored')
  <2>1. content' = content
    BY <1>2 DEF MainPasses, OpensNext, Opens
  <2> QED
    BY <1>2, <2>1, OpenFits DEF MainPasses, FileIsStored
<1> QED
  BY <1>1, <1>2, MainOpens DEF FileInv, RequestInv

(* execute() gives no call other arguments, and stores nothing. *)
LEMMA ExecuteFits ==
  ASSUME FileInv, NEW id \in Ids, Execute(id)
  PROVE  (\A j \in Ids : Fits(j)') /\ (FileIsStored => FileIsStored')
<1>1. ExecuteShape(id)
  BY ExecuteChanges DEF FileInv, RequestInv, CallInv
<1>2. UNCHANGED <<call, content, served>> /\ phase[id] # "over"
  BY <1>1 DEF ExecuteShape, Execute, Create, Send, NoResponse, ConnectionFails, Receive
<1>3. ASSUME NEW j \in Ids PROVE CallFits(j)'
  <2>1. CallFits(j)
    BY DEF FileInv, Fits
  <2>2. CASE j = id
    BY <1>2, <2>1, <2>2 DEF CallFits
  <2>3. CASE j # id
    BY <1>1, <2>1, <2>3 DEF ExecuteShape, CallFits
  <2> QED
    BY <2>2, <2>3
<1> QED
  BY <1>2, <1>3 DEF FileInv, Fits, UploadIsStored, FileIsStored

(* A request that is waiting at the store and names an object is one of    *)
(* main()'s uploads.                                                       *)
LEMMA WaitingUpload ==
  ASSUME FileInv, NEW id \in Ids, wire[id] = "request"
  PROVE  /\ call[id].op = "putObject" =>
              /\ request[id].method = "PUT" /\ request[id].body = Uploaded
              /\ request[id].path.bucket = Bucket /\ request[id].path.object = Object
         /\ call[id].op # "putObject" => request[id].path.object = ""
<1>1. /\ request[id].method = Method(call[id].op)
      /\ request[id].path = Path(call[id].bucket, call[id].object) /\ request[id].body = call[id].body
  BY MadeOfItsCall DEF FileInv
<1>2. CallFits(id)
  BY DEF FileInv, Fits
<1>3. request[id].path.bucket = call[id].bucket /\ request[id].path.object = call[id].object
  BY <1>1 DEF Path
<1>4. CASE call[id].op = "putObject"
  <2>1. call[id].bucket = Bucket /\ call[id].object = Object /\ call[id].body = Uploaded
    BY <1>2, <1>4 DEF CallFits
  <2>2. Method(call[id].op) = "PUT"
    BY <1>4 DEF Method
  <2> QED
    BY <1>1, <1>3, <1>4, <2>1, <2>2
<1>5. CASE call[id].op # "putObject"
  BY <1>2, <1>3, <1>5 DEF CallFits
<1> QED
  BY <1>4, <1>5

(* What the store does to an object: nothing, or put the file there for    *)
(* an upload; and an upload is not carried out in any other way.           *)
LEMMA ServeStores ==
  ASSUME FileInv, NEW id \in Ids, Serve(id)
  PROVE  /\ content' = content \/ FileIsStored'
         /\ call[id].op = "putObject" /\ served' # served => FileIsStored'
<1>1. wire[id] = "request"
  BY DEF Serve, Fail, Deny, Obey, Refusal, Answer
<1>2. content \in [Buckets \X Objects -> Payloads] /\ <<Bucket, Object>> \in Buckets \X Objects
      /\ Object # ""
  BY MainAssumption, NamesAssumption DEF FileInv, RequestInv, CallInv, TypeInv, TypeOK
<1>3. CASE UNCHANGED <<content, served>>
  BY <1>3
<1>4. CASE /\ request[id].method = "PUT" /\ request[id].path.object = ""
           /\ UNCHANGED content
  <2>1. call[id].op # "putObject"
    BY <1>1, <1>2, <1>4, WaitingUpload
  <2> QED
    BY <1>4, <2>1
<1>5. CASE /\ request[id].method = "HEAD" \/ request[id].path.object # ""
           /\ content' = IF request[id].method = "PUT"
                         THEN [content EXCEPT ![<<request[id].path.bucket, request[id].path.object>>] =
                                 request[id].body]
                         ELSE content
  <2>1. CASE call[id].op = "putObject"
    <3>1. /\ request[id].method = "PUT" /\ request[id].path.bucket = Bucket
          /\ request[id].path.object = Object /\ request[id].body = Uploaded
      BY <1>1, <2>1, WaitingUpload
    <3>2. content' = [content EXCEPT ![<<Bucket, Object>>] = Uploaded]
      BY <1>5, <3>1
    <3> QED
      BY <1>2, <3>2 DEF FileIsStored
  <2>2. CASE call[id].op # "putObject"
    <3>1. request[id].path.object = ""
      BY <1>1, <2>2, WaitingUpload
    <3>2. content' = content
      BY <1>5, <3>1
    <3> QED
      BY <2>2, <3>2
  <2> QED
    BY <2>1, <2>2
<1> QED
  <2>1. CASE Fail(id) \/ Deny(id)
    BY <1>3, <2>1 DEF Fail, Deny, Refusal
  <2>2. CASE Obey(id)
    BY <1>3, <1>4, <1>5, <2>2 DEF Obey, Refusal
  <2> QED
    BY <2>1, <2>2 DEF Serve

LEMMA ServeFits ==
  ASSUME FileInv, NEW id \in Ids, Serve(id)
  PROVE  (\A j \in Ids : Fits(j)') /\ (FileIsStored => FileIsStored')
<1>1. PICK response : Answer(id, response) /\ (served' = served \/ served' = [served EXCEPT ![id] = @ + 1])
  BY DEF Serve, Fail, Deny, Obey, Refusal, Success
<1>2. wire[id] = "request" /\ wire' = [wire EXCEPT ![id] = "answer"] /\ UNCHANGED callVars
  BY <1>1 DEF Answer
<1>3. wire \in [Ids -> {"none", "request", "answer", "read"}] /\ served \in [Ids -> Nat]
  BY DEF FileInv, RequestInv, CallInv, TypeInv, TypeOK
<1>4. FileIsStored => FileIsStored'
  BY ServeStores DEF FileIsStored
<1>5. ASSUME NEW j \in Ids PROVE Fits(j)'
  <2>1. Fits(j)
    BY DEF FileInv
  <2>2. wire'[j] = "none" <=> wire[j] = "none"
    BY <1>2, <1>3
  <2>3. CallFits(j)'
    BY <1>2, <2>1, <2>2 DEF callVars, Fits, CallFits
  <2>4. UploadIsStored(j)'
    <3>1. CASE served'[j] = served[j]
      BY <1>2, <1>4, <2>1, <3>1 DEF callVars, Fits, UploadIsStored
    <3>2. CASE served'[j] # served[j]
      <4>1. j = id /\ served' # served
        BY <1>1, <1>3, <3>2
      <4> QED
        BY <1>2, <4>1, ServeStores DEF callVars, UploadIsStored
    <3> QED
      BY <3>1, <3>2
  <2> QED
    BY <2>3, <2>4 DEF Fits
<1> QED
  BY <1>4, <1>5

LEMMA OthersFit ==
  ASSUME FileInv, UNCHANGED <<callVars, wire, content, served>>
  PROVE  (\A j \in Ids : Fits(j)') /\ (FileIsStored => FileIsStored')
BY DEF callVars, FileInv, Fits, CallFits, UploadIsStored, FileIsStored

LEMMA StepKeepsFile ==
  FileInv /\ [MainNext]_<<vars, mainVars>> => FileInv' /\ (FileIsStored => FileIsStored')
<1> SUFFICES ASSUME FileInv, [MainNext]_<<vars, mainVars>>
             PROVE  FileInv' /\ (FileIsStored => FileIsStored')
  OBVIOUS
<1>1. RequestInv'
  BY MainStep, StepRequests DEF FileInv
<1>2. (\A j \in Ids : Fits(j)') /\ (FileIsStored => FileIsStored')
  <2>1. CASE \E c \in Clients : Main(c)
    BY <2>1, MainFits
  <2>2. CASE \E id \in Ids : TracedExecute(id)
    BY <2>2, ExecuteFits DEF TracedExecute, Execute
  <2>3. CASE \E id \in Ids : Serve(id)
    BY <2>3, ServeFits
  <2>4. CASE (\E b \in Deletable : DeleteBucket(b)) \/ Tick \/ Ended \/ UNCHANGED <<vars, mainVars>>
    <3>1. UNCHANGED <<callVars, wire, content, served>>
      BY <2>4 DEF DeleteBucket, Tick, Ended, vars, callVars, netVars, storeVars
    <3> QED
      BY <3>1, OthersFit
  <2> QED
    BY <2>1, <2>2, <2>3, <2>4 DEF MainNext, Environment
<1> QED
  BY <1>1, <1>2 DEF FileInv

LEMMA InitFits == Init => FileInv
<1> SUFFICES ASSUME Init PROVE FileInv
  OBVIOUS
<1>1. ASSUME NEW j \in Ids PROVE Fits(j)
  <2>1. call[j] = NoCall /\ phase[j] = "unused" /\ wire[j] = "none" /\ served[j] = 0
    BY DEF Init
  <2>2. NoCall.op = "" /\ NoCall.object = ""
    BY DEF NoCall
  <2>3. CallFits(j)
    BY <2>1, <2>2 DEF CallFits
  <2>4. UploadIsStored(j)
    BY <2>1, <2>2 DEF UploadIsStored
  <2> QED
    BY <2>3, <2>4 DEF Fits
<1> QED
  BY <1>1, InitRequests DEF FileInv

(***************************************************************************)
(* Where main() is                                                         *)
(***************************************************************************)

(* MainTypeOK of a program, with the number of calls that each step means, *)
(* and that the first call is over once there is a makeBucket.             *)
Control(c) ==
  /\ at[c] = "begin" => made[c] = 0
  /\ at[c] = "bucketExists" => made[c] = 1
  /\ at[c] = "makeBucket" => made[c] = 2
  /\ at[c] = "putObject" => made[c] \in {2, 3}
  /\ at[c] \in {"bucketExists", "makeBucket", "putObject"} => call[<<c, made[c]>>].op = at[c]
  /\ \A n \in 1..MaxCalls :
       call[<<c, n>>].op = "makeBucket" =>
         n = 2 /\ outcome[<<c, 1>>] = "false" /\ phase[<<c, 1>>] = "over"

ControlInv == at \in [Clients -> Steps] /\ \A c \in Clients : Control(c)

LEMMA PairsAreIds ==
  ASSUME NEW c \in Clients
  PROVE  /\ \A n \in 1..MaxCalls : <<c, n>> \in Ids
         /\ {1, 2, 3} \subseteq 1..MaxCalls
<1>1. MaxCalls \in Nat /\ MaxCalls >= 3
  BY MainAssumption, BoundsAssumption
<1> QED
  BY <1>1 DEF Ids

LEMMA ControlType == ControlInv => MainTypeOK
<1> SUFFICES ASSUME ControlInv PROVE MainTypeOK
  OBVIOUS
<1>1. ASSUME NEW c \in Clients PROVE
        /\ at[c] = "begin" => made[c] = 0
        /\ at[c] \in {"bucketExists", "makeBucket", "putObject"} =>
             made[c] \in 1..MaxCalls /\ call[Current(c)].op = at[c]
        /\ \A n \in 1..MaxCalls :
             call[<<c, n>>].op = "makeBucket" => n = 2 /\ outcome[<<c, 1>>] = "false"
  <2>1. Control(c)
    BY DEF ControlInv
  <2>2. at[c] \in {"bucketExists", "makeBucket", "putObject"} => made[c] \in {1, 2, 3}
    BY <2>1 DEF Control
  <2> QED
    BY <2>1, <2>2, PairsAreIds DEF Control, Current
<1> QED
  BY <1>1 DEF ControlInv, MainTypeOK

(* A program that does nothing keeps its place, as long as its calls stay, *)
(* and its first one if it is over.                                        *)
LEMMA ControlStays ==
  ASSUME NEW c \in Clients, Control(c), at'[c] = at[c], made'[c] = made[c],
         \A n \in 1..MaxCalls : call'[<<c, n>>].op = call[<<c, n>>].op,
         made[c] \in 0..MaxCalls,
         phase[<<c, 1>>] = "over" =>
           phase'[<<c, 1>>] = "over" /\ outcome'[<<c, 1>>] = outcome[<<c, 1>>]
  PROVE  Control(c)'
<1>1. at[c] \in {"bucketExists", "makeBucket", "putObject"} => made[c] \in 1..MaxCalls
  <2>1. at[c] \in {"bucketExists", "makeBucket", "putObject"} => made[c] \in {1, 2, 3}
    BY DEF Control
  <2> QED
    BY <2>1, PairsAreIds
<1>2. at[c] \in {"bucketExists", "makeBucket", "putObject"} => call'[<<c, made'[c]>>].op = at'[c]
  BY <1>1 DEF Control
<1> QED
  BY <1>2 DEF Control

(* A call of one program leaves the others where they are. *)
LEMMA OpenControlsOthers ==
  ASSUME CallInv, ControlInv, NEW c \in Clients, NEW args, OpensNext(c, args),
         NEW step, at' = [at EXCEPT ![c] = step], NEW d \in Clients, d # c
  PROVE  Control(d)'
<1>1. PICK id : id = <<c, made[c] + 1>>
  OBVIOUS
<1>2. \A n \in 1..MaxCalls : <<d, n>> \in Ids \ {id}
  BY <1>1, PairsAreIds
<1>3. \A n \in 1..MaxCalls :
        /\ call'[<<d, n>>] = call[<<d, n>>] /\ phase'[<<d, n>>] = phase[<<d, n>>]
        /\ outcome'[<<d, n>>] = outcome[<<d, n>>]
  BY <1>1, <1>2, OpenChanges
<1>4. made \in [Clients -> 0..MaxCalls] /\ made' = [made EXCEPT ![c] = @ + 1]
  BY DEF CallInv, TypeInv, TypeOK, OpensNext, Opens
<1>5. at'[d] = at[d] /\ made'[d] = made[d]
  BY <1>4 DEF ControlInv
<1>6. Control(d) /\ 1 \in 1..MaxCalls
  BY PairsAreIds DEF ControlInv
<1> QED
  BY <1>3, <1>4, <1>5, <1>6, ControlStays

(* A call that main() makes in its turn. *)
LEMMA OpenControls ==
  ASSUME CallInv, ControlInv, NEW c \in Clients, NEW args, OpensNext(c, args),
         at' = [at EXCEPT ![c] = args.op],
         \/ made[c] = 0 /\ args.op = "bucketExists"
         \/ /\ made[c] = 1 /\ args.op = "makeBucket"
            /\ phase[<<c, 1>>] = "over" /\ outcome[<<c, 1>>] = "false"
         \/ made[c] \in {1, 2} /\ args.op = "putObject"
  PROVE  ControlInv'
<1>1. PICK id : id = <<c, made[c] + 1>>
  OBVIOUS
<1>2. /\ id \in Ids /\ phase[id] = "unused" /\ call'[id] = args
      /\ \A j \in Ids \ {id} : call'[j] = call[j] /\ phase'[j] = phase[j] /\ outcome'[j] = outcome[j]
  BY <1>1, OpenChanges
<1>3. made'[c] = made[c] + 1
  BY DEF CallInv, TypeInv, TypeOK, OpensNext, Opens
<1>4. Control(c) /\ at \in [Clients -> Steps]
  BY DEF ControlInv
<1>5. at'[c] = args.op /\ at' \in [Clients -> Steps]
  BY <1>4 DEF Steps
<1>6. ASSUME NEW n \in 1..MaxCalls, call'[<<c, n>>].op = "makeBucket"
      PROVE  n = 2 /\ outcome'[<<c, 1>>] = "false" /\ phase'[<<c, 1>>] = "over"
  <2>1. <<c, 1>> \in Ids /\ <<c, n>> \in Ids
    BY PairsAreIds
  <2>2. /\ n = 2 /\ phase[<<c, 1>>] = "over" /\ outcome[<<c, 1>>] = "false"
    <3>1. CASE <<c, n>> = id
      <4>1. args.op = "makeBucket" /\ n = made[c] + 1
        BY <1>1, <1>2, <1>6, <3>1
      <4> QED
        BY <4>1
    <3>2. CASE <<c, n>> # id
      BY <1>2, <1>4, <1>6, <2>1, <3>2 DEF Control
    <3> QED
      BY <3>1, <3>2
  <2>3. <<c, 1>> # id
    BY <1>2, <2>2
  <2> QED
    BY <1>2, <2>1, <2>2, <2>3
<1>7. Control(c)'
  <2>1. call'[<<c, made'[c]>>].op = at'[c]
    BY <1>1, <1>2, <1>3, <1>5
  <2>2. /\ args.op = "bucketExists" => made'[c] = 1
        /\ args.op = "makeBucket" => made'[c] = 2
        /\ args.op = "putObject" => made'[c] \in {2, 3}
        /\ args.op # "begin"
    BY <1>3
  <2> QED
    BY <1>5, <1>6, <2>1, <2>2 DEF Control
<1> QED
  BY <1>5, <1>7, OpenControlsOthers DEF ControlInv

LEMMA MainControls ==
  ASSUME FileInv, ControlInv, NEW c \in Clients, Main(c)
  PROVE  ControlInv'
<1>1. Control(c) /\ at \in [Clients -> Steps] /\ CallInv
  BY DEF ControlInv, FileInv, RequestInv
<1>2. CASE Usage(c) \/ BadEndpoint(c) \/ Report(c) \/ Catch(c)
  <2>1. at' = [at EXCEPT ![c] = "over"] /\ UNCHANGED <<made, call, phase, outcome>>
    BY <1>2 DEF Usage, BadEndpoint, Report, Catch, GoTo, vars, clientVars, callVars
  <2>2. at' \in [Clients -> Steps] /\ at'[c] = "over" /\ \A d \in Clients \ {c} : at'[d] = at[d]
    BY <1>1, <2>1 DEF Steps
  <2>3. ASSUME NEW d \in Clients PROVE Control(d)'
    BY <2>1, <2>2 DEF ControlInv, Control
  <2> QED
    BY <2>2, <2>3 DEF ControlInv
<1>3. CASE Begin(c)
  <2>1. PICK args : OpensNext(c, args) /\ args.op = "bucketExists"
    BY <1>1, <1>3, BucketExistsOpens DEF Begin
  <2>2. at' = [at EXCEPT ![c] = args.op] /\ made[c] = 0
    BY <1>1, <1>3, <2>1 DEF Begin, GoTo, Control
  <2> QED
    BY <1>1, <2>1, <2>2, OpenControls
<1>4. CASE MakeMissingBucket(c)
  <2>1. /\ at[c] = "bucketExists" /\ phase[<<c, made[c]>>] = "over" /\ outcome[<<c, made[c]>>] = "false"
        /\ at' = [at EXCEPT ![c] = "makeBucket"] /\ MakeBucket(c, Bucket, "")
    BY <1>4 DEF MakeMissingBucket, BucketIsMissing, After, GoTo, Current
  <2>2. made[c] = 1
    BY <1>1, <2>1 DEF Control
  <2>3. PICK args : OpensNext(c, args) /\ args.op = "makeBucket"
    BY <1>1, <2>1, MakeBucketOpens
  <2> QED
    BY <1>1, <2>1, <2>2, <2>3, OpenControls
<1>5. CASE BucketIsThere(c) \/ BucketIsMade(c)
  <2>1. /\ at[c] \in {"bucketExists", "makeBucket"}
        /\ at' = [at EXCEPT ![c] = "putObject"] /\ PutObject(c, Bucket, Object, File, Absent)
    BY <1>5 DEF BucketIsThere, BucketIsMade, After, GoTo
  <2>2. made[c] \in {1, 2}
    BY <1>1, <2>1 DEF Control
  <2>3. PICK args : OpensNext(c, args) /\ args.op = "putObject"
    BY <1>1, <2>1, UploadOpens
  <2> QED
    BY <1>1, <2>1, <2>2, <2>3, OpenControls
<1> QED
  BY <1>2, <1>3, <1>4, <1>5 DEF Main

(* execute() and the environment leave main() where it is, and what a call *)
(* that is over gave.                                                      *)
LEMMA ExecuteControls ==
  ASSUME CallInv, ControlInv, NEW id \in Ids, Execute(id), UNCHANGED at
  PROVE  ControlInv'
<1>1. /\ phase[id] # "over" /\ UNCHANGED <<made, call>>
      /\ \E p \in Phases : phase' = [phase EXCEPT ![id] = p]
      /\ outcome' = outcome \/ \E r : outcome' = [outcome EXCEPT ![id] = r]
  BY DEF Execute, Create, Send, NoResponse, ConnectionFails, Receive, Finish, clientVars, Phases
<1>2. /\ phase \in [Ids -> Phases] /\ outcome \in [Ids -> Results] /\ made \in [Clients -> 0..MaxCalls]
  BY DEF CallInv, TypeInv, TypeOK
<1>3. \A j \in Ids : phase[j] = "over" => phase'[j] = "over" /\ outcome'[j] = outcome[j]
  BY <1>1, <1>2
<1>4. ASSUME NEW c \in Clients PROVE Control(c)'
  <2>1. <<c, 1>> \in Ids /\ Control(c)
    BY PairsAreIds DEF ControlInv
  <2> QED
    BY <1>1, <1>2, <1>3, <2>1, ControlStays
<1> QED
  BY <1>4 DEF ControlInv

LEMMA StepControls ==
  FileInv /\ ControlInv /\ [MainNext]_<<vars, mainVars>> => ControlInv'
<1> SUFFICES ASSUME FileInv, ControlInv, [MainNext]_<<vars, mainVars>> PROVE ControlInv'
  OBVIOUS
<1>1. CASE \E c \in Clients : Main(c)
  BY <1>1, MainControls
<1>2. CASE \E id \in Ids : TracedExecute(id)
  BY <1>2, ExecuteControls DEF TracedExecute, Execute, FileInv, RequestInv
<1>3. CASE (Environment /\ UNCHANGED mainVars) \/ Ended \/ UNCHANGED <<vars, mainVars>>
  <2>1. UNCHANGED <<at, made, call, phase, outcome>>
    BY <1>3 DEF Environment, Serve, Fail, Deny, Obey, Refusal, Success, Answer, DeleteBucket, Tick,
                Ended, vars, clientVars, callVars, mainVars
  <2> QED
    BY <2>1 DEF ControlInv, Control
<1> QED
  BY <1>1, <1>2, <1>3 DEF MainNext

LEMMA InitControls == MainInit => ControlInv
<1> SUFFICES ASSUME MainInit PROVE ControlInv
  OBVIOUS
<1>1. ASSUME NEW c \in Clients PROVE Control(c)
  <2>1. NoCall.op = ""
    BY DEF NoCall
  <2>2. \A n \in 1..MaxCalls : call[<<c, n>>] = NoCall
    BY PairsAreIds DEF MainInit, Init
  <2>3. at[c] = "begin" /\ made[c] = 0
    BY DEF MainInit, Init
  <2> QED
    BY <2>1, <2>2, <2>3 DEF Control
<1> QED
  BY <1>1 DEF MainInit, ControlInv, Steps

(***************************************************************************)
(* What is printed                                                         *)
(***************************************************************************)

Values(s) == {s[i] : i \in DOMAIN s}

IsSequence(s) == s \in Seq(Values(s))

LEMMA ShortSequences ==
  /\ IsSequence(<< >>) /\ Values(<< >>) = {}
  /\ \A x : IsSequence(<<x>>) /\ Values(<<x>>) = {x}
  /\ \A x, y : IsSequence(<<x, y>>) /\ Values(<<x, y>>) = {x, y}
<1>1. IsSequence(<< >>) /\ Values(<< >>) = {}
  BY DEF IsSequence, Values
<1>2. ASSUME NEW x PROVE IsSequence(<<x>>) /\ Values(<<x>>) = {x}
  <2>1. Values(<<x>>) = {x}
    BY DEF Values
  <2> QED
    BY <2>1 DEF IsSequence
<1>3. ASSUME NEW x, NEW y PROVE IsSequence(<<x, y>>) /\ Values(<<x, y>>) = {x, y}
  <2>1. Values(<<x, y>>) = {x, y}
    BY DEF Values
  <2> QED
    BY <2>1 DEF IsSequence
<1> QED
  BY <1>1, <1>2, <1>3

LEMMA Concatenation ==
  ASSUME NEW s, NEW t, IsSequence(s), IsSequence(t)
  PROVE  IsSequence(s \o t) /\ Values(s \o t) = Values(s) \cup Values(t)
<1> DEFINE S == Values(s) \cup Values(t)
<1>1. s \in Seq(S) /\ t \in Seq(S)
  BY DEF IsSequence
<1> HIDE DEF S
<1>2. /\ s \o t \in Seq(S) /\ Len(s \o t) = Len(s) + Len(t)
      /\ \A i \in 1..(Len(s) + Len(t)) :
           (s \o t)[i] = IF i <= Len(s) THEN s[i] ELSE t[i - Len(s)]
  BY <1>1, ConcatProperties
<1>3. DOMAIN s = 1..Len(s) /\ DOMAIN t = 1..Len(t) /\ DOMAIN (s \o t) = 1..(Len(s) + Len(t))
      /\ Len(s) \in Nat /\ Len(t) \in Nat
  BY <1>1, <1>2
<1>4. Values(s \o t) \subseteq Values(s) \cup Values(t)
  <2> SUFFICES ASSUME NEW i \in 1..(Len(s) + Len(t)) PROVE (s \o t)[i] \in Values(s) \cup Values(t)
    BY <1>3 DEF Values
  <2>1. CASE i <= Len(s)
    BY <1>2, <1>3, <2>1 DEF Values
  <2>2. CASE i > Len(s)
    <3>1. i - Len(s) \in 1..Len(t)
      BY <1>3, <2>2
    <3>2. (s \o t)[i] = t[i - Len(s)]
      BY <1>2, <1>3, <2>2
    <3> QED
      BY <1>3, <3>1, <3>2 DEF Values
  <2> QED
    BY <1>3, <2>1, <2>2
<1>5. Values(s) \subseteq Values(s \o t)
  <2> SUFFICES ASSUME NEW i \in 1..Len(s) PROVE s[i] \in Values(s \o t)
    BY <1>3 DEF Values
  <2>1. i \in 1..(Len(s) + Len(t)) /\ (s \o t)[i] = s[i]
    BY <1>2, <1>3
  <2> QED
    BY <1>3, <2>1 DEF Values
<1>6. Values(t) \subseteq Values(s \o t)
  <2> SUFFICES ASSUME NEW i \in 1..Len(t) PROVE t[i] \in Values(s \o t)
    BY <1>3 DEF Values
  <2>1. PICK k : k = i + Len(s)
    OBVIOUS
  <2>2. k \in 1..(Len(s) + Len(t)) /\ ~(k <= Len(s)) /\ k - Len(s) = i
    BY <1>3, <2>1
  <2>3. (s \o t)[k] = t[i]
    BY <1>2, <2>2
  <2> QED
    BY <1>3, <2>2, <2>3 DEF Values
<1>7. Values(s \o t) = Values(s) \cup Values(t)
  BY <1>4, <1>5, <1>6
<1> QED
  BY <1>2, <1>7 DEF IsSequence, S

OutputInv ==
  /\ output = [c \in Clients |-> output[c]]
  /\ \A c \in Clients : IsSequence(output[c])

LEMMA PrintedValues ==
  ASSUME NEW c, NEW line
  PROVE  Printed(c, line) <=> line \in Values(output[c])
BY DEF Printed, Values

(* Saying something else does not report an upload. *)
LEMMA SayOther ==
  ASSUME OutputInv, NEW c \in Clients, NEW lines, IsSequence(lines), Say(c, lines),
         UploadedLine \notin Values(lines)
  PROVE  OutputInv' /\ \A d \in Clients : Printed(d, UploadedLine)' => Printed(d, UploadedLine)
<1>1. /\ output'[c] = output[c] \o lines
      /\ \A d \in Clients \ {c} : output'[d] = output[d]
      /\ output' = [d \in Clients |-> output'[d]]
  BY DEF OutputInv, Say
<1>2. IsSequence(output[c] \o lines) /\ Values(output[c] \o lines) = Values(output[c]) \cup Values(lines)
  BY Concatenation DEF OutputInv
<1>3. \A d \in Clients : IsSequence(output'[d])
  BY <1>1, <1>2 DEF OutputInv
<1>4. ASSUME NEW d \in Clients, Printed(d, UploadedLine)' PROVE Printed(d, UploadedLine)
  <2>1. UploadedLine \in Values(output'[d])
    BY <1>4 DEF Printed, Values
  <2>2. UploadedLine \in Values(output[d])
    BY <1>1, <1>2, <2>1
  <2> QED
    BY <2>2, PrintedValues
<1> QED
  BY <1>1, <1>3, <1>4 DEF OutputInv

(* The lines of a trace are no report of an upload, whatever the store     *)
(* puts into its answers.                                                  *)
LEMMA TraceLines ==
  /\ \A code : StatusLine(code) # UploadedLine
  /\ \A body : BodyLine(body) # UploadedLine
  /\ \A e : ErrorLine(e) # UploadedLine
  /\ UploadedLine \notin {StartHttp, EndHttp, NoAnswerLine, ExistsLine}
<1>1. \A x, y, z : <<x, y>> # <<z>>
  OBVIOUS
<1>2. <<"is successfully uploaded">> \notin
        {<<"START-HTTP">>, <<"END-HTTP">>, <<"<NO RESPONSE>">>, <<"Bucket already exists.">>}
  OBVIOUS
<1> QED
  BY <1>1, <1>2 DEF StatusLine, BodyLine, ErrorLine, UploadedLine, StartHttp, EndHttp, NoAnswerLine, ExistsLine

LEMMA AnswerLines ==
  ASSUME NEW response
  PROVE  IsSequence(AnswerTrace(response)) /\ UploadedLine \notin Values(AnswerTrace(response))
<1>1. /\ IsSequence(<<StatusLine(response.status)>>)
      /\ Values(<<StatusLine(response.status)>>) = {StatusLine(response.status)}
  BY ShortSequences
<1>2. /\ IsSequence(<<EndHttp>>) /\ Values(<<EndHttp>>) = {EndHttp}
      /\ IsSequence(<<BodyLine(response.body), EndHttp>>)
      /\ Values(<<BodyLine(response.body), EndHttp>>) = {BodyLine(response.body), EndHttp}
  BY ShortSequences
<1>3. PICK rest : /\ AnswerTrace(response) = <<StatusLine(response.status)>> \o rest
                  /\ rest \in {<<EndHttp>>, <<BodyLine(response.body), EndHttp>>}
  BY DEF AnswerTrace, ErrorTrace
<1>4. IsSequence(rest) /\ Values(rest) \subseteq {BodyLine(response.body), EndHttp}
  BY <1>2, <1>3
<1>5. /\ IsSequence(AnswerTrace(response))
      /\ Values(AnswerTrace(response)) = {StatusLine(response.status)} \cup Values(rest)
  BY <1>1, <1>3, <1>4, Concatenation
<1> QED
  BY <1>4, <1>5, TraceLines

(***************************************************************************)
(* What a program reports                                                  *)
(***************************************************************************)

ReportInv == FileInv /\ ControlInv /\ OutputInv /\ SuccessMeansStored

LEMMA SilentReports ==
  ASSUME ReportInv, UNCHANGED output, FileIsStored => FileIsStored'
  PROVE  OutputInv' /\ SuccessMeansStored'
BY DEF ReportInv, OutputInv, SuccessMeansStored, Printed, FileIsStored, Uploaded

LEMMA SayReports ==
  ASSUME ReportInv, NEW c \in Clients, NEW lines, IsSequence(lines), Say(c, lines),
         UploadedLine \notin Values(lines), FileIsStored => FileIsStored'
  PROVE  OutputInv' /\ SuccessMeansStored'
<1>1. OutputInv' /\ \A d \in Clients : Printed(d, UploadedLine)' => Printed(d, UploadedLine)
  BY SayOther DEF ReportInv
<1>2. ASSUME NEW d \in Clients, Printed(d, UploadedLine)' PROVE FileIsStored'
  BY <1>1, <1>2 DEF ReportInv, SuccessMeansStored, FileIsStored, Uploaded
<1> QED
  BY <1>1, <1>2 DEF SuccessMeansStored, FileIsStored, Uploaded

(* An upload that putObject has returned from was carried out. *)
LEMMA ReportStored ==
  ASSUME ReportInv, NEW c \in Clients, UploadIsDone(c)
  PROVE  FileIsStored
<1>1. PICK id : id = <<c, made[c]>>
  OBVIOUS
<1>2. at[c] = "putObject" /\ phase[id] = "over" /\ outcome[id] = "returned"
  BY <1>1 DEF UploadIsDone, After, Current
<1>3. Control(c)
  BY DEF ReportInv, ControlInv
<1>4. made[c] \in {2, 3} /\ call[id].op = "putObject"
  BY <1>1, <1>2, <1>3 DEF Control
<1>5. id \in Ids
  BY <1>1, <1>4, PairsAreIds
<1>6. Fits(id) /\ IsConsistent(id)
  BY <1>5 DEF ReportInv, FileInv, RequestInv, CallInv, CallsAreConsistent
<1>7. served[id] = 1
  BY <1>2, <1>6 DEF IsConsistent
<1> QED
  BY <1>4, <1>6, <1>7 DEF Fits, UploadIsStored

LEMMA StepOutputs ==
  ReportInv /\ [MainNext]_<<vars, mainVars>> => OutputInv' /\ SuccessMeansStored'
<1> SUFFICES ASSUME ReportInv, [MainNext]_<<vars, mainVars>> PROVE OutputInv' /\ SuccessMeansStored'
  OBVIOUS
<1>1. FileIsStored => FileIsStored'
  BY StepKeepsFile DEF ReportInv
<1>2. CASE UNCHANGED output
  BY <1>1, <1>2, SilentReports
<1>3. ASSUME NEW c \in Clients, Main(c) PROVE OutputInv' /\ SuccessMeansStored'
  <2>1. CASE Report(c)
    <3>1. FileIsStored /\ FileIsStored'
      BY <1>1, <2>1, ReportStored DEF Report
    <3>2. Say(c, <<UploadedLine>>) /\ IsSequence(<<UploadedLine>>)
      BY <2>1, ShortSequences DEF Report
    <3>3. OutputInv'
      <4>1. IsSequence(output[c] \o <<UploadedLine>>)
        BY <3>2, Concatenation DEF ReportInv, OutputInv
      <4>2. /\ output'[c] = output[c] \o <<UploadedLine>>
            /\ \A d \in Clients \ {c} : output'[d] = output[d]
            /\ output' = [d \in Clients |-> output'[d]]
        BY <3>2 DEF ReportInv, OutputInv, Say
      <4> QED
        BY <4>1, <4>2 DEF ReportInv, OutputInv
    <3> QED
      BY <3>1, <3>3 DEF SuccessMeansStored, FileIsStored, Uploaded
  <2>2. CASE UNCHANGED output
    BY <1>2, <2>2
  <2>3. ASSUME NEW line, line = ExistsLine \/ \E e : line = ErrorLine(e), Say(c, <<line>>)
        PROVE  OutputInv' /\ SuccessMeansStored'
    <3>1. IsSequence(<<line>>) /\ Values(<<line>>) = {line}
      BY ShortSequences
    <3>2. line # UploadedLine
      BY <2>3, TraceLines
    <3> QED
      BY <1>1, <2>3, <3>1, <3>2, SayReports
  <2> QED
    BY <1>3, <2>1, <2>2, <2>3
       DEF Main, Usage, BadEndpoint, Begin, BucketIsThere, MakeMissingBucket, BucketIsMade, Catch
<1>4. ASSUME NEW id \in Ids, TracedExecute(id) PROVE OutputInv' /\ SuccessMeansStored'
  <2>1. id[1] \in Clients
    BY IdsArePairs
  <2>2. CASE Say(id[1], <<StartHttp>>)
    <3>1. IsSequence(<<StartHttp>>) /\ Values(<<StartHttp>>) = {StartHttp}
      BY ShortSequences
    <3> QED
      BY <1>1, <2>1, <2>2, <3>1, TraceLines, SayReports
  <2>3. CASE Say(id[1], <<NoAnswerLine, EndHttp>>)
    <3>1. IsSequence(<<NoAnswerLine, EndHttp>>) /\ Values(<<NoAnswerLine, EndHttp>>) = {NoAnswerLine, EndHttp}
      BY ShortSequences
    <3> QED
      BY <1>1, <2>1, <2>3, <3>1, TraceLines, SayReports
  <2>4. CASE Say(id[1], AnswerTrace(answer[id]))
    BY <1>1, <2>1, <2>4, AnswerLines, SayReports
  <2> QED
    BY <1>2, <1>4, <2>2, <2>3, <2>4 DEF TracedExecute
<1>5. CASE (Environment /\ UNCHANGED mainVars) \/ Ended \/ UNCHANGED <<vars, mainVars>>
  BY <1>2, <1>5 DEF Ended, mainVars
<1> QED
  BY <1>3, <1>4, <1>5 DEF MainNext

LEMMA InitReports == MainInit => ReportInv
<1> SUFFICES ASSUME MainInit PROVE ReportInv
  OBVIOUS
<1>1. OutputInv
  BY ShortSequences DEF MainInit, OutputInv
<1>2. SuccessMeansStored
  BY DEF MainInit, SuccessMeansStored, Printed
<1> QED
  BY <1>1, <1>2, InitFits, InitControls DEF MainInit, ReportInv

LEMMA ReportInvariant == MainSpec => []ReportInv
<1>1. ReportInv /\ [MainNext]_<<vars, mainVars>> => ReportInv'
  BY StepKeepsFile, StepControls, StepOutputs DEF ReportInv
<1> QED
  BY <1>1, InitReports, PTL DEF MainSpec

(* Where main() is tells which calls it has made, for any number of        *)
(* programs: makeBucket only after bucketExists has returned false.        *)
THEOREM MainTypeCorrect == MainSpec => []MainTypeOK
<1>1. ReportInv => MainTypeOK
  BY ControlType DEF ReportInv
<1> QED
  BY <1>1, ReportInvariant, PTL

(* "successfully uploaded" (client.cpp:69) is true whenever it is printed, *)
(* and stays so: however many programs race, whatever faults and broken    *)
(* connections there are, and whenever the bucket is deleted.              *)
THEOREM ReportsAreTrue == MainSpec => []SuccessMeansStored
<1>1. ReportInv => SuccessMeansStored
  BY DEF ReportInv
<1> QED
  BY <1>1, ReportInvariant, PTL

(***************************************************************************)
(* Why a program fails                                                     *)
(***************************************************************************)

(* The outcomes of calls that had no answer. *)
Unanswered == {"none", "NoResponse", "RuntimeError", "ReadFailed"}

(* What else a call returned or threw is handleError()'s word. *)
OutcomeTells(id) ==
  outcome[id] \in Unanswered \/ (wire[id] = "read" /\ outcome[id] = ResultOf(call[id], answer[id]))

(* Every client is at home in us-east-1, and so is the bucket. *)
AtHome ==
  (\A c \in Clients : GetRegion(c) = US_EAST_1) /\ location[Bucket] \in {"", US_EAST_1}

MakesBucket(id) == call[id].op = "makeBucket" /\ served[id] = 1

(* A bucket that has been missing was made since, if it is there. *)
MissingWasMade ==
  (\E j \in Ids : found[j] = "absent") /\ location[Bucket] # "" => \E i \in Ids : MakesBucket(i)

IsFault(response) == \E f \in Faults : response.status = f.status

(* The statuses with which the store refuses a request. *)
Forbidden == 403
NotFound  == 404
Conflict  == 409

(* Why the store answered as it did. *)
AnswerTells(id) ==
  LET a == call[id]
      s == answer[id]
  IN  \/ IsSuccessful(s) \/ IsFault(s)
      \/ s.status = Forbidden /\ ~Authentic(request[id])
      \/ /\ s.status = NotFound /\ a.op # "makeBucket" /\ found[id] = "absent"
         /\ a.op = "bucketExists" => s.body = << >>
      \/ /\ s.status = Conflict /\ a.op = "makeBucket"
         /\ found[<<id[1], 1>>] = "absent" => \E i \in Ids : i[1] # id[1] /\ MakesBucket(i)

CallTells(id) == OutcomeTells(id) /\ (wire[id] \in {"answer", "read"} => AnswerTells(id))

CauseInv == AtHome /\ MissingWasMade /\ \A id \in Ids : CallTells(id)

(* How main() comes to its end: it reports the upload, or it prints why    *)
(* there is none.                                                          *)
EndTells(c) ==
  at[c] = "over" =>
    \/ \E line \in {UploadedLine, ErrorLine("usage"), ErrorLine("InvalidEndpoint")} : Printed(c, line)
    \/ /\ made[c] \in 1..MaxCalls /\ phase[Current(c)] = "over"
       /\ outcome[Current(c)] \in Exceptions /\ Printed(c, ErrorLine(outcome[Current(c)]))

EndInv == \A c \in Clients : EndTells(c)

(* A bucket that was made stays one that was made. *)
LEMMA MakersStay ==
  ASSUME RequestInv, [Next]_vars, NEW i \in Ids, MakesBucket(i)
  PROVE  MakesBucket(i)'
<1>1. CallInv /\ call \in [Ids -> Calls] /\ served \in [Ids -> Nat]
  BY DEF RequestInv, CallInv, TypeInv, TypeOK
<1>2. ASSUME NEW c \in Clients, Call(c) PROVE MakesBucket(i)'
  <2>1. PICK args : PassesOr(c, args)
    BY <1>1, <1>2, CallPasses DEF CallInv
  <2>2. PICK id : id = <<c, made[c] + 1>>
    OBVIOUS
  <2>3. id \in Ids /\ served[id] = 0
    BY <1>1, <2>1, <2>2, NextCallIsUnused DEF PassesOr, Opens
  <2>4. call' = [call EXCEPT ![id] = args] /\ served' = served
    BY <2>1, <2>2 DEF PassesOr, Opens
  <2> QED
    BY <1>1, <2>3, <2>4 DEF MakesBucket
<1>3. ASSUME NEW id \in Ids, Execute(id) PROVE MakesBucket(i)'
  BY <1>1, <1>3, ExecuteChanges DEF ExecuteShape, MakesBucket, CallInv
<1>4. ASSUME NEW id \in Ids, Serve(id) PROVE MakesBucket(i)'
  <2>1. wire[id] = "request" /\ call' = call
    BY <1>4, ServeAnswers
  <2>2. served[id] = 0
    BY <1>1, <2>1 DEF CallInv, CallsAreConsistent, IsConsistent
  <2>3. served' = served \/ served' = [served EXCEPT ![id] = @ + 1]
    BY <1>4 DEF Serve, Fail, Deny, Obey, Refusal, Success
  <2> QED
    BY <1>1, <2>1, <2>2, <2>3 DEF MakesBucket
<1>5. CASE UNCHANGED <<clientVars, callVars, netVars, served, found>>
  BY <1>5 DEF MakesBucket, callVars
<1> QED
  BY <1>2, <1>3, <1>4, <1>5, StepCases

LEMMA StepKeepsHomes ==
  RequestInv /\ [Next]_vars => HomeStays
<1> SUFFICES ASSUME RequestInv, [Next]_vars PROVE HomeStays
  OBVIOUS
<1>1. ASSUME NEW c \in Clients, Call(c) PROVE HomeStays
  BY <1>1, CallPasses DEF PassesOr, RequestInv, CallInv
<1>2. CASE UNCHANGED region
  BY <1>2 DEF HomeStays, GetRegion
<1>3. ASSUME NEW id \in Ids, Execute(id) PROVE UNCHANGED region
  BY <1>3, ExecuteChanges DEF ExecuteShape, RequestInv, CallInv
<1>4. ASSUME NEW id \in Ids, Serve(id) PROVE UNCHANGED region
  BY <1>4, ServeAnswers
<1>5. CASE UNCHANGED <<clientVars, callVars, netVars, served, found>>
  BY <1>2, <1>5 DEF clientVars
<1> QED
  BY <1>1, <1>2, <1>3, <1>4, <1>5, StepCases

MakersKept == \A i \in Ids : MakesBucket(i) => MakesBucket(i)'

(* A call whose own state stays as it is still tells. *)
LEMMA SameTells ==
  ASSUME NEW id \in Ids, CallTells(id), MakersKept,
         call'[id] = call[id], outcome'[id] = outcome[id], wire'[id] = wire[id],
         answer'[id] = answer[id], request'[id] = request[id], found'[id] = found[id],
         call[id].op = "makeBucket" => found'[<<id[1], 1>>] = found[<<id[1], 1>>]
  PROVE  CallTells(id)'
<1>1. OutcomeTells(id)'
  BY DEF CallTells, OutcomeTells
<1>2. AnswerTells(id) => AnswerTells(id)'
  BY DEF MakersKept, AnswerTells
<1> QED
  BY <1>1, <1>2 DEF CallTells

CauseHyps == FileInv /\ ControlInv /\ CauseInv

(* Before its makeBucket a program has read that the bucket is missing.    *)
LEMMA FirstIsRead ==
  ASSUME CauseHyps, NEW id \in Ids, call[id].op = "makeBucket"
  PROVE  /\ id[2] = 2 /\ <<id[1], 1>> \in Ids
         /\ outcome[<<id[1], 1>>] = "false" /\ wire[<<id[1], 1>>] = "read"
<1>1. id[1] \in Clients /\ id[2] \in 1..MaxCalls /\ id = <<id[1], id[2]>>
  BY IdsArePairs
<1>2. Control(id[1])
  BY <1>1 DEF CauseHyps, ControlInv
<1>3. id[2] = 2 /\ outcome[<<id[1], 1>>] = "false"
  BY <1>1, <1>2 DEF Control
<1>4. <<id[1], 1>> \in Ids
  BY <1>1, PairsAreIds
<1>5. OutcomeTells(<<id[1], 1>>)
  BY <1>4 DEF CauseHyps, CauseInv, CallTells
<1> QED
  BY <1>3, <1>4, <1>5 DEF OutcomeTells, Unanswered

(* Steps that change no bucket and see none missing. *)
LEMMA SameCause ==
  ASSUME CauseHyps, HomeStays, MakersKept, location'[Bucket] \in {location[Bucket], ""},
         \A j \in Ids : found'[j] = found[j]
  PROVE  AtHome' /\ MissingWasMade'
<1>1. AtHome'
  BY DEF CauseHyps, CauseInv, AtHome, HomeStays
<1>2. MissingWasMade'
  BY DEF CauseHyps, CauseInv, MissingWasMade, MakersKept
<1> QED
  BY <1>1, <1>2

LEMMA MainTells ==
  ASSUME CauseHyps, HomeStays, MakersKept, NEW c \in Clients, Main(c)
  PROVE  CauseInv'
<1>1. CASE UNCHANGED vars
  <2>1. UNCHANGED <<call, outcome, wire, answer, request, found, location>>
    BY <1>1 DEF vars, callVars, netVars, storeVars
  <2>2. \A id \in Ids : CallTells(id)'
    BY <2>1, SameTells DEF CauseHyps, CauseInv
  <2> QED
    BY <2>1, <2>2, SameCause DEF CauseInv
<1>2. ASSUME NEW args, MainPasses(c, args) PROVE CauseInv'
  <2>1. PICK id : id = <<c, made[c] + 1>>
    OBVIOUS
  <2>2. CallInv /\ OpensNext(c, args)
    BY <1>2 DEF CauseHyps, FileInv, RequestInv, MainPasses
  <2>3. /\ id \in Ids /\ wire[id] = "none"
        /\ \A j \in Ids \ {id} : call'[j] = call[j] /\ outcome'[j] = outcome[j]
        /\ request' = request /\ wire' = wire /\ answer' = answer
        /\ location' = location /\ found' = found
    BY <2>1, <2>2, OpenChanges
  <2>4. outcome' = outcome \/ outcome'[id] \in {"RuntimeError", "ReadFailed"}
    BY <1>2, <2>1 DEF MainPasses
  <2>5. CallTells(id)'
    <3>1. outcome[id] \in Unanswered
      BY <2>3 DEF CauseHyps, CauseInv, CallTells, OutcomeTells
    <3>2. outcome'[id] \in Unanswered
      BY <2>4, <3>1 DEF Unanswered
    <3> QED
      BY <2>3, <3>2 DEF CallTells, OutcomeTells
  <2>6. ASSUME NEW j \in Ids \ {id} PROVE CallTells(j)'
    BY <2>3, <2>6, SameTells DEF CauseHyps, CauseInv
  <2> QED
    BY <2>3, <2>5, <2>6, SameCause DEF CauseInv
<1> QED
  BY <1>1, <1>2, MainOpens DEF CauseHyps, FileInv, RequestInv

(* The names that main() passes are valid. *)
LEMMA NoInvalidNames ==
  ASSUME FileInv, NEW id \in Ids, phase[id] = "create"
  PROVE  ~InvalidName(call[id].bucket, call[id].object)
<1>1. IsPassed(call[id], GetRegion(id[1])) /\ CallFits(id)
  BY DEF FileInv, RequestInv, IsMade, Active, Fits
<1>2. call[id].bucket = Bucket
  BY <1>1 DEF IsPassed, CallFits
<1> QED
  BY <1>2, MainAssumption DEF InvalidName

LEMMA ExecuteTells ==
  ASSUME CauseHyps, HomeStays, MakersKept, NEW id \in Ids, Execute(id)
  PROVE  CauseInv'
<1>1. CallInv /\ CallTells(id) /\ IsConsistent(id)
  BY DEF CauseHyps, FileInv, RequestInv, CauseInv, CallInv, CallsAreConsistent
<1>2. ExecuteShape(id)
  BY <1>1, ExecuteChanges DEF CallInv
<1>3. UNCHANGED <<call, answer, location, found>>
  BY <1>2 DEF ExecuteShape
<1>4. AtHome' /\ MissingWasMade'
  BY <1>3, SameCause
<1>5. ASSUME NEW j \in Ids \ {id} PROVE CallTells(j)'
  BY <1>2, <1>3, <1>5, SameTells DEF ExecuteShape, CauseHyps, CauseInv
<1>6. outcome \in [Ids -> Results] /\ wire \in [Ids -> {"none", "request", "answer", "read"}]
  BY <1>1 DEF CallInv, TypeInv, TypeOK
<1>7. CallTells(id)'
  <2>1. CASE Create(id)
    <3>1. phase[id] = "create" /\ wire' = wire /\ outcome' = outcome
      <4>1. phase[id] = "create"
        BY <2>1 DEF Create
      <4>2. ~InvalidName(call[id].bucket, call[id].object)
        BY <4>1, NoInvalidNames DEF CauseHyps
      <4> QED
        BY <2>1, <4>1, <4>2 DEF Create, netVars
    <3>2. wire[id] = "none"
      BY <1>1, <3>1 DEF IsConsistent
    <3> QED
      BY <1>1, <3>1, <3>2 DEF CallTells, OutcomeTells
  <2>2. CASE Send(id)
    <3>1. phase[id] = "sign" /\ outcome' = outcome /\ wire' = [wire EXCEPT ![id] = "request"]
      BY <2>2 DEF Send
    <3>2. wire[id] = "none" /\ wire'[id] = "request"
      BY <1>1, <1>6, <3>1 DEF IsConsistent
    <3> QED
      BY <1>1, <3>1, <3>2 DEF CallTells, OutcomeTells
  <2>3. CASE NoResponse(id)
    <3>1. wire' = wire /\ request' = request /\ outcome' = [outcome EXCEPT ![id] = "NoResponse"]
      BY <2>3 DEF NoResponse, ConnectionFails, Finish, netVars
    <3>2. outcome'[id] = "NoResponse"
      BY <1>6, <3>1
    <3>3. AnswerTells(id) => AnswerTells(id)'
      BY <1>3, <3>1 DEF MakersKept, AnswerTells
    <3> QED
      BY <1>1, <3>1, <3>2, <3>3 DEF CallTells, OutcomeTells, Unanswered
  <2>4. CASE Receive(id)
    <3>1. PICK r : r = ResultOf(call[id], answer[id])
      OBVIOUS
    <3>2. /\ wire[id] = "answer" /\ wire' = [wire EXCEPT ![id] = "read"] /\ request' = request
          /\ outcome' = [outcome EXCEPT ![id] = r]
      BY <2>4, <3>1 DEF Receive, Finish
    <3>3. wire'[id] = "read" /\ outcome'[id] = r
      BY <1>6, <3>2
    <3>4. AnswerTells(id) => AnswerTells(id)'
      BY <1>3, <3>2 DEF MakersKept, AnswerTells
    <3>5. ResultOf(call[id], answer[id])' = r
      BY <1>3, <3>1
    <3> QED
      BY <1>1, <3>2, <3>3, <3>4, <3>5 DEF CallTells, OutcomeTells
  <2> QED
    BY <2>1, <2>2, <2>3, <2>4 DEF Execute
<1> QED
  BY <1>4, <1>5, <1>7 DEF CauseInv

(* What is waiting at the store is for the bucket, and from us-east-1. *)
LEMMA WaitingRequest ==
  ASSUME CauseHyps, NEW id \in Ids, wire[id] = "request"
  PROVE  /\ call[id].op \in {"bucketExists", "makeBucket", "putObject"}
         /\ request[id].method = "HEAD" <=> call[id].op = "bucketExists"
         /\ request[id].path.bucket = Bucket /\ Bucket # ""
         /\ request[id].path.object = "" <=> call[id].op # "putObject"
         /\ call[id].op = "makeBucket" => RequestedLocation(request[id]) = US_EAST_1
         /\ call[id].op # "makeBucket" /\ Authentic(request[id]) => SigningRegion(request[id]) = US_EAST_1
         /\ served[id] = 0
<1>1. RequestInv /\ CallFits(id)
  BY DEF CauseHyps, FileInv, Fits
<1>2. IsPassed(call[id], US_EAST_1)
  <2>1. IsPassed(call[id], GetRegion(id[1]))
    BY <1>1 DEF RequestInv, IsMade, Active
  <2>2. GetRegion(id[1]) = US_EAST_1
    BY IdsArePairs DEF CauseHyps, CauseInv, AtHome
  <2> QED
    BY <2>1, <2>2
<1>3. /\ request[id].method = Method(call[id].op)
      /\ request[id].path = Path(call[id].bucket, call[id].object)
      /\ request[id].body = call[id].body
  BY <1>1, MadeOfItsCall
<1>4. /\ request[id].path.bucket = call[id].bucket /\ request[id].path.object = call[id].object
      /\ RequestedLocation(request[id]) = RequestedLocation(call[id])
  BY <1>3 DEF Path, RequestedLocation
<1>5. call[id].op # "makeBucket" /\ Authentic(request[id]) => SigningRegion(request[id]) = US_EAST_1
  BY <1>1, <1>2, AcceptedRegion DEF IsPassed
<1>6. call[id].bucket = Bucket /\ Bucket # ""
  BY <1>1, <1>2, MainAssumption DEF CallFits, IsPassed
<1>7. request[id].method = "HEAD" <=> call[id].op = "bucketExists"
  BY <1>3 DEF Method
<1>8. served[id] = 0
  BY <1>1 DEF RequestInv, CallInv, CallsAreConsistent, IsConsistent
<1> QED
  BY <1>2, <1>4, <1>5, <1>6, <1>7, <1>8 DEF IsPassed

Refused(id, code) == \E ecode : Refusal(id, code, ecode)

LEMMA RefusedArrives ==
  ASSUME RequestInv, NEW id \in Ids, NEW code, Refused(id, code)
  PROVE  /\ answer'[id].status = code
         /\ request[id].method = "HEAD" => answer'[id].body = << >>
         /\ found'[id] = IF location[request[id].path.bucket] = "" THEN "absent" ELSE "present"
         /\ \A j \in Ids \ {id} : found'[j] = found[j]
<1>1. PICK ecode : Refusal(id, code, ecode)
  BY DEF Refused
<1>2. PICK response : Answer(id, response)
  BY <1>1 DEF Refusal
<1>3. TypeOK
  BY DEF RequestInv, CallInv, TypeInv
<1> QED
  BY <1>1, <1>2, <1>3, RefusalArrives, AnswerArrives

LEMMA RefusalRefuses ==
  ASSUME NEW id, NEW code, NEW n, n = code, NEW ecode, Refusal(id, n, ecode)
  PROVE  Refused(id, code)
BY DEF Refused

LEMMA Refusals ==
  ASSUME NEW id
  PROVE  /\ Refusal(id, 403, "SignatureDoesNotMatch") => Refused(id, Forbidden)
         /\ Refusal(id, 404, "NoSuchBucket") => Refused(id, NotFound)
         /\ Refusal(id, 409, "BucketAlreadyOwnedByYou") => Refused(id, Conflict)
<1>1. 403 = Forbidden /\ 404 = NotFound /\ 409 = Conflict
  BY DEF Forbidden, NotFound, Conflict
<1> QED
  BY <1>1, RefusalRefuses, Zenon

(* The store makes the bucket, finds it, or does not; and then something   *)
(* else is amiss.                                                          *)
StoreCases(id) ==
  \/ Fail(id)
  \/ Deny(id)
  \/ /\ call[id].op = "makeBucket" /\ location[Bucket] # ""
     /\ Refused(id, Conflict)
  \/ /\ call[id].op = "makeBucket" /\ Success(id)
     /\ location' = [location EXCEPT ![Bucket] = US_EAST_1]
  \/ /\ call[id].op # "makeBucket" /\ location[Bucket] = "" /\ Refused(id, NotFound)
  \/ Success(id) /\ UNCHANGED location

LEMMA ServeIsStoreCase ==
  ASSUME CauseHyps, NEW id \in Ids, Serve(id)
  PROVE  StoreCases(id)
<1>1. wire[id] = "request"
  BY ServeAnswers
<1>2. PICK r : r = request[id]
  OBVIOUS
<1>3. ASSUME Obey(id) PROVE StoreCases(id)
  <2>1. /\ Authentic(r) /\ r.path.bucket = Bucket /\ Bucket # ""
        /\ r.path.object = "" <=> call[id].op # "putObject"
        /\ r.method = "HEAD" <=> call[id].op = "bucketExists"
        /\ call[id].op \in {"bucketExists", "makeBucket", "putObject"}
        /\ call[id].op = "makeBucket" => RequestedLocation(r) = US_EAST_1
        /\ call[id].op # "makeBucket" => SigningRegion(r) = US_EAST_1
    BY <1>1, <1>2, <1>3, WaitingRequest DEF Obey
  <2>2. r.method = "PUT" /\ r.path.object = "" => call[id].op = "makeBucket"
    BY <2>1
  <2>3. r.method = "HEAD" \/ r.path.object # "" => call[id].op # "makeBucket"
    BY <2>1
  <2>4. location[Bucket] \in {"", US_EAST_1}
    BY DEF CauseHyps, CauseInv, AtHome
  <2>5. \/ /\ r.method = "PUT" /\ r.path.object = "" /\ location[Bucket] # ""
           /\ Refused(id, Conflict)
        \/ /\ r.method = "PUT" /\ r.path.object = "" /\ Success(id)
           /\ location' = [location EXCEPT ![Bucket] = RequestedLocation(r)]
        \/ /\ r.method = "HEAD" \/ r.path.object # ""
           /\ location[Bucket] = "" /\ Refused(id, NotFound)
        \/ /\ r.method = "HEAD" \/ r.path.object # ""
           /\ location[Bucket] \notin {"", SigningRegion(r)}
        \/ Success(id) /\ UNCHANGED location
    BY <1>2, <1>3, <2>1, Refusals DEF Obey
  <2> QED
    BY <2>1, <2>2, <2>3, <2>4, <2>5 DEF StoreCases
<1> QED
  BY <1>3 DEF Serve, StoreCases

LEMMA ServedTells ==
  ASSUME CauseHyps, HomeStays, MakersKept, NEW id \in Ids, Serve(id)
  PROVE  CallTells(id)'
<1>1. /\ wire[id] = "request" /\ wire' = [wire EXCEPT ![id] = "answer"]
      /\ UNCHANGED <<call, outcome, request>>
  BY ServeAnswers
<1>2. RequestInv /\ TypeOK /\ wire \in [Ids -> {"none", "request", "answer", "read"}]
  BY DEF CauseHyps, FileInv, RequestInv, CallInv, TypeInv, TypeOK
<1>3. wire'[id] = "answer" /\ outcome[id] \in Unanswered
  BY <1>1, <1>2 DEF CauseHyps, CauseInv, CallTells, OutcomeTells
<1>4. AnswerTells(id)'
  <2>1. CASE Fail(id)
    <3>1. PICK f \in Faults : Answer(id, f)
      BY <2>1 DEF Fail
    <3>2. answer'[id] = Arriving(id, f)
      BY <1>2, <3>1, AnswerArrives
    <3>3. answer'[id].status = f.status
      BY <3>2, FaultsAssumption DEF Arriving
    <3> QED
      BY <3>3 DEF AnswerTells, IsFault
  <2>2. CASE Deny(id)
    <3>1. answer'[id].status = Forbidden
      BY <1>2, <2>2, Refusals, RefusedArrives DEF Deny
    <3> QED
      BY <1>1, <2>2, <3>1 DEF Deny, AnswerTells
  <2>3. CASE /\ call[id].op = "makeBucket" /\ location[Bucket] # ""
             /\ Refused(id, Conflict)
    <3>1. answer'[id].status = Conflict
      BY <1>2, <2>3, RefusedArrives
    <3>2. PICK j : j = <<id[1], 1>>
      OBVIOUS
    <3>3. j \in Ids /\ j # id
      <4>1. j \in Ids /\ wire[j] = "read"
        BY <2>3, <3>2, FirstIsRead
      <4> QED
        BY <1>1, <4>1
    <3>4. found'[j] = found[j]
      <4>1. \A i \in Ids \ {id} : found'[i] = found[i]
        BY <1>2, <2>3, RefusedArrives
      <4> QED
        BY <3>3, <4>1
    <3>5. ASSUME found[j] = "absent" PROVE \E i \in Ids : i[1] # id[1] /\ MakesBucket(i)'
      <4>1. PICK i \in Ids : MakesBucket(i)
        BY <2>3, <3>3, <3>5 DEF CauseHyps, CauseInv, MissingWasMade
      <4>2. i[2] = id[2] /\ i # id
        <5>1. i[2] = id[2]
          BY <2>3, <4>1, FirstIsRead DEF MakesBucket
        <5>2. served[id] = 0
          BY <1>1, WaitingRequest
        <5> QED
          BY <4>1, <5>1, <5>2 DEF MakesBucket
      <4>3. i = <<i[1], i[2]>> /\ id = <<id[1], id[2]>>
        BY IdsArePairs
      <4>4. i[1] # id[1]
        BY <4>2, <4>3
      <4> QED
        BY <4>1, <4>4 DEF MakersKept
    <3> QED
      BY <1>1, <2>3, <3>1, <3>2, <3>4, <3>5 DEF AnswerTells
  <2>4. CASE Success(id)
    <3>1. PICK ok : ok = Reply(200, "")
      OBVIOUS
    <3>2. answer'[id] = Arriving(id, ok)
      BY <1>2, <2>4, <3>1, AnswerArrives DEF Success
    <3>3. DOMAIN ok = {"status", "body"} /\ ok.status = 200
      BY <3>1 DEF Reply
    <3>4. answer'[id].status = 200
      BY <3>2, <3>3 DEF Arriving
    <3> QED
      BY <3>4 DEF AnswerTells, IsSuccessful
  <2>5. CASE call[id].op # "makeBucket" /\ location[Bucket] = "" /\ Refused(id, NotFound)
    <3>1. request[id].path.bucket = Bucket
          /\ (call[id].op = "bucketExists" => request[id].method = "HEAD")
      BY <1>1, WaitingRequest
    <3>2. /\ answer'[id].status = NotFound
          /\ request[id].method = "HEAD" => answer'[id].body = << >>
          /\ found'[id] = "absent"
      BY <1>2, <2>5, <3>1, RefusedArrives
    <3> QED
      BY <1>1, <2>5, <3>1, <3>2 DEF AnswerTells
  <2> QED
    BY <2>1, <2>2, <2>3, <2>4, <2>5, ServeIsStoreCase DEF StoreCases
<1> QED
  BY <1>1, <1>3, <1>4 DEF CallTells, OutcomeTells

(* A request for a bucket that is missing does not bring it back, unless   *)
(* it makes it.                                                            *)
LEMMA ServeCauses ==
  ASSUME CauseHyps, HomeStays, MakersKept, NEW id \in Ids, Serve(id)
  PROVE  CauseInv'
<1>1. PICK response : Answer(id, response)
  BY ServeAnswers
<1>2. RequestInv /\ TypeOK
  BY DEF CauseHyps, FileInv, RequestInv, CallInv, TypeInv
<1>3. /\ wire[id] = "request" /\ \A j \in Ids \ {id} : wire'[j] = wire[j]
      /\ UNCHANGED <<call, outcome, request>>
  <2>1. wire \in [Ids -> {"none", "request", "answer", "read"}]
    BY <1>2 DEF TypeOK
  <2> QED
    BY <2>1, ServeAnswers
<1>4. \A j \in Ids \ {id} : answer'[j] = answer[j] /\ found'[j] = found[j]
  BY <1>1, <1>2, AnswerArrives
<1>5. found'[id] = "absent" => location[Bucket] = ""
  <2>1. request[id].path.bucket = Bucket
    BY <1>3, WaitingRequest
  <2>2. found'[id] = IF location[request[id].path.bucket] = "" THEN "absent" ELSE "present"
    BY <1>1, <1>2, AnswerArrives
  <2> QED
    BY <2>1, <2>2
<1>6. ASSUME NEW j \in Ids \ {id} PROVE CallTells(j)'
  <2>1. ASSUME call[j].op = "makeBucket" PROVE found'[<<j[1], 1>>] = found[<<j[1], 1>>]
    <3>1. PICK k : k = <<j[1], 1>>
      OBVIOUS
    <3>2. k \in Ids /\ wire[k] = "read"
      BY <2>1, <3>1, FirstIsRead
    <3>3. k \in Ids \ {id}
      BY <1>3, <3>2
    <3> QED
      BY <1>4, <3>1, <3>3
  <2>2. CallTells(j)
    BY DEF CauseHyps, CauseInv
  <2>3. /\ call'[j] = call[j] /\ outcome'[j] = outcome[j] /\ request'[j] = request[j]
        /\ wire'[j] = wire[j] /\ answer'[j] = answer[j] /\ found'[j] = found[j]
    BY <1>3, <1>4
  <2> QED
    BY <2>1, <2>2, <2>3, SameTells
<1>7. CASE /\ call[id].op = "makeBucket" /\ Success(id)
           /\ location' = [location EXCEPT ![Bucket] = US_EAST_1]
  <2>1. Bucket \in Buckets /\ location \in [Buckets -> Regions \cup {""}] /\ served \in [Ids -> Nat]
    BY <1>2, MainAssumption DEF TypeOK
  <2>2. AtHome'
    BY <1>7, <2>1 DEF CauseHyps, CauseInv, AtHome, HomeStays
  <2>3. MakesBucket(id)'
    <3>1. served' = [served EXCEPT ![id] = @ + 1]
      BY <1>7 DEF Success
    <3>2. served[id] = 0
      BY <1>3, WaitingRequest
    <3>3. served'[id] = 1
      <4>1. served'[id] = served[id] + 1
        BY <2>1, <3>1
      <4> QED
        BY <3>2, <4>1
    <3> QED
      BY <1>3, <1>7, <3>3 DEF MakesBucket
  <2> QED
    BY <1>6, <2>2, <2>3, ServedTells DEF CauseInv, MissingWasMade
<1>8. CASE UNCHANGED location
  <2>1. AtHome'
    BY <1>8 DEF CauseHyps, CauseInv, AtHome, HomeStays
  <2>2. ASSUME NEW j \in Ids, found'[j] = "absent", location[Bucket] # ""
        PROVE  \E i \in Ids : MakesBucket(i)'
    <3>1. found[j] = "absent"
      <4>1. j \in Ids \ {id}
        <5>1. CASE j = id
          <6>1. found'[id] = "absent"
            BY <2>2, <5>1
          <6> QED
            BY <1>5, <2>2, <6>1
        <5> QED
          BY <5>1
      <4>2. \A i \in Ids \ {id} : found'[i] = found[i]
        BY <1>4
      <4>3. found'[j] = found[j]
        BY <4>1, <4>2
      <4> QED
        BY <2>2, <4>3
    <3>2. PICK i \in Ids : MakesBucket(i)
      BY <2>2, <3>1 DEF CauseHyps, CauseInv, MissingWasMade
    <3> QED
      BY <3>2 DEF MakersKept
  <2>3. MissingWasMade'
    BY <1>8, <2>2 DEF MissingWasMade
  <2> QED
    BY <1>6, <2>1, <2>3, ServedTells DEF CauseInv
<1> QED
  BY <1>7, <1>8, ServeIsStoreCase DEF StoreCases, Fail, Deny, Refused, Refusal

LEMMA StepCauses ==
  CauseHyps /\ [MainNext]_<<vars, mainVars>> => CauseInv'
<1> SUFFICES ASSUME CauseHyps, [MainNext]_<<vars, mainVars>> PROVE CauseInv'
  OBVIOUS
<1>1. HomeStays /\ MakersKept
  BY MainStep, StepKeepsHomes, MakersStay DEF CauseHyps, FileInv, MakersKept
<1>2. CASE \E c \in Clients : Main(c)
  BY <1>1, <1>2, MainTells
<1>3. CASE \E id \in Ids : TracedExecute(id)
  BY <1>1, <1>3, ExecuteTells DEF TracedExecute, Execute
<1>4. CASE \E id \in Ids : Serve(id)
  BY <1>1, <1>4, ServeCauses
<1>5. CASE (\E b \in Deletable : DeleteBucket(b)) \/ Tick \/ Ended \/ UNCHANGED <<vars, mainVars>>
  <2>1. UNCHANGED <<call, outcome, wire, answer, request, found>>
    BY <1>5 DEF DeleteBucket, Tick, Ended, vars, callVars, netVars, storeVars
  <2>2. location'[Bucket] \in {location[Bucket], ""}
    <3>1. location \in [Buckets -> Regions \cup {""}] /\ Bucket \in Buckets
      BY MainAssumption DEF CauseHyps, FileInv, RequestInv, CallInv, TypeInv, TypeOK
    <3>2. location' = location \/ \E b : location' = [location EXCEPT ![b] = ""]
      BY <1>5 DEF DeleteBucket, Tick, Ended, vars, storeVars
    <3> QED
      BY <3>1, <3>2
  <2>3. \A id \in Ids : CallTells(id)'
    BY <1>1, <2>1, SameTells DEF CauseHyps, CauseInv
  <2> QED
    BY <1>1, <2>1, <2>2, <2>3, SameCause DEF CauseInv
<1> QED
  BY <1>2, <1>3, <1>4, <1>5 DEF MainNext, Environment

(* When no bucket is elsewhere to begin with. *)
LEMMA InitCauses ==
  ASSUME InitialLocations \subseteq {US_EAST_1}, Init
  PROVE  CauseInv
<1>1. AtHome
  <2>1. Bucket \in Buckets /\ location \in [Buckets -> InitialLocations \cup {""}]
    BY MainAssumption DEF Init
  <2>2. \A c \in Clients : GetRegion(c) = US_EAST_1
    BY MainAssumption DEF Init, GetRegion
  <2> QED
    BY <2>1, <2>2 DEF AtHome
<1>2. MissingWasMade
  BY DEF Init, MissingWasMade
<1>3. ASSUME NEW id \in Ids PROVE CallTells(id)
  BY DEF Init, CallTells, OutcomeTells, Unanswered
<1> QED
  BY <1>1, <1>2, <1>3 DEF CauseInv

(* What is said is printed, and stays so. *)
LEMMA SayPrints ==
  ASSUME OutputInv, NEW c \in Clients, NEW lines, IsSequence(lines), Say(c, lines)
  PROVE  /\ \A d \in Clients : \A line : Printed(d, line) => Printed(d, line)'
         /\ \A line \in Values(lines) : Printed(c, line)'
<1>1. /\ output'[c] = output[c] \o lines
      /\ \A d \in Clients \ {c} : output'[d] = output[d]
  BY DEF OutputInv, Say
<1>2. Values(output[c] \o lines) = Values(output[c]) \cup Values(lines)
  BY Concatenation DEF OutputInv
<1>3. \A d \in Clients : Values(output[d]) \subseteq Values(output'[d])
  BY <1>1, <1>2
<1>4. \A d, line : /\ Printed(d, line) <=> line \in Values(output[d])
                   /\ Printed(d, line)' <=> line \in Values(output'[d])
  BY DEF Printed, Values
<1> QED
  BY <1>1, <1>2, <1>3, <1>4

PrintsStay == \A d \in Clients : \A line : Printed(d, line) => Printed(d, line)'

LEMMA SilencePrints ==
  ASSUME UNCHANGED output
  PROVE  PrintsStay
BY DEF PrintsStay, Printed

LEMMA SayKeepsPrints ==
  ASSUME OutputInv, NEW c \in Clients, NEW lines, IsSequence(lines), Say(c, lines)
  PROVE  PrintsStay
BY SayPrints DEF PrintsStay

(* No program unsays anything. *)
LEMMA StepPrints ==
  OutputInv /\ [MainNext]_<<vars, mainVars>> => PrintsStay
<1> SUFFICES ASSUME OutputInv, [MainNext]_<<vars, mainVars>> PROVE PrintsStay
  OBVIOUS
<1>1. ASSUME NEW c \in Clients, Main(c) PROVE PrintsStay
  <2>1. UNCHANGED output \/ \E line : Say(c, <<line>>)
    BY <1>1 DEF Main, Usage, BadEndpoint, Begin, BucketIsThere, MakeMissingBucket, BucketIsMade,
                Report, Catch
  <2>2. ASSUME NEW line, Say(c, <<line>>) PROVE PrintsStay
    <3>1. IsSequence(<<line>>)
      BY ShortSequences
    <3> QED
      BY <2>2, <3>1, SayKeepsPrints
  <2> QED
    BY <2>1, <2>2, SilencePrints
<1>2. ASSUME NEW id \in Ids, TracedExecute(id) PROVE PrintsStay
  <2>1. id[1] \in Clients
    BY IdsArePairs
  <2>2. \/ UNCHANGED output
        \/ \E lines \in {<<StartHttp>>, <<NoAnswerLine, EndHttp>>, AnswerTrace(answer[id])} :
             Say(id[1], lines)
    BY <1>2 DEF TracedExecute
  <2>3. \A lines \in {<<StartHttp>>, <<NoAnswerLine, EndHttp>>, AnswerTrace(answer[id])} :
          IsSequence(lines)
    BY ShortSequences, AnswerLines
  <2> QED
    BY <2>1, <2>2, <2>3, SilencePrints, SayKeepsPrints
<1>3. CASE (Environment /\ UNCHANGED mainVars) \/ Ended \/ UNCHANGED <<vars, mainVars>>
  BY <1>3, SilencePrints DEF Ended, mainVars
<1> QED
  BY <1>1, <1>2, <1>3 DEF MainNext

(* A program that has come to its end stays there. *)
LEMMA EndStays ==
  ASSUME NEW d \in Clients, EndTells(d), PrintsStay, at'[d] = at[d], made'[d] = made[d],
         NEW id, id = Current(d),
         at[d] = "over" /\ made[d] \in 1..MaxCalls /\ phase[id] = "over" =>
           phase'[id] = "over" /\ outcome'[id] = outcome[id]
  PROVE  EndTells(d)'
<1>1. Current(d)' = id
  BY DEF Current
<1>2. \A line : Printed(d, line) => Printed(d, line)'
  BY DEF PrintsStay
<1> QED
  BY <1>1, <1>2 DEF EndTells

LEMMA MainEnds ==
  ASSUME CallInv, ControlInv, OutputInv, EndInv, PrintsStay, NEW c \in Clients, Main(c)
  PROVE  EndTells(c)'
<1>1. at \in [Clients -> Steps]
  BY DEF ControlInv
<1>2. CASE Usage(c) \/ BadEndpoint(c) \/ Report(c)
  <2>1. PICK line \in {UploadedLine, ErrorLine("usage"), ErrorLine("InvalidEndpoint")} : Say(c, <<line>>)
    BY <1>2 DEF Usage, BadEndpoint, Report
  <2>2. IsSequence(<<line>>) /\ line \in Values(<<line>>)
    BY ShortSequences
  <2>3. Printed(c, line)'
    BY <2>1, <2>2, SayPrints
  <2>4. \A x : UploadedLine' = UploadedLine /\ ErrorLine(x)' = ErrorLine(x)
    BY DEF UploadedLine, ErrorLine
  <2> QED
    BY <2>1, <2>3 DEF EndTells
<1>3. CASE Catch(c)
  <2>1. PICK step \in {"bucketExists", "makeBucket", "putObject"}, e \in Exceptions :
          After(c, step, e) /\ Say(c, <<ErrorLine(e)>>)
    BY <1>3 DEF Catch
  <2>2. PICK id : id = Current(c)
    OBVIOUS
  <2>3. made[c] \in 1..MaxCalls
    BY <2>1, ControlType DEF MainTypeOK, After
  <2>4. UNCHANGED <<made, phase, outcome>>
    BY <1>3 DEF Catch, vars, clientVars, callVars
  <2>5. Current(c)' = id /\ phase'[id] = "over" /\ outcome'[id] = e
    BY <2>1, <2>2, <2>4 DEF After, Current
  <2>6. IsSequence(<<ErrorLine(e)>>) /\ ErrorLine(e) \in Values(<<ErrorLine(e)>>)
    BY ShortSequences
  <2>7. Printed(c, ErrorLine(e))'
    BY <2>1, <2>6, SayPrints
  <2> QED
    BY <2>1, <2>3, <2>4, <2>5, <2>7 DEF EndTells
<1>4. CASE Begin(c) \/ BucketIsThere(c) \/ MakeMissingBucket(c) \/ BucketIsMade(c)
  <2>1. at'[c] \in {"bucketExists", "makeBucket", "putObject"}
    BY <1>1, <1>4 DEF Begin, BucketIsThere, MakeMissingBucket, BucketIsMade, GoTo
  <2> QED
    BY <2>1 DEF EndTells
<1> QED
  BY <1>2, <1>3, <1>4 DEF Main

LEMMA OthersEnd ==
  ASSUME CallInv, ControlInv, EndInv, PrintsStay, NEW c \in Clients, Main(c), NEW d \in Clients \ {c}
  PROVE  EndTells(d)'
<1>1. at'[d] = at[d]
  BY DEF Main, Usage, BadEndpoint, Begin, BucketIsThere, MakeMissingBucket, BucketIsMade, Report, Catch,
         GoTo, ControlInv
<1>2. PICK id : id = Current(d)
  OBVIOUS
<1>3. CASE UNCHANGED vars
  BY <1>1, <1>2, <1>3, EndStays DEF EndInv, vars, clientVars, callVars
<1>4. ASSUME NEW args, OpensNext(c, args) PROVE EndTells(d)'
  <2>1. PICK k : k = <<c, made[c] + 1>>
    OBVIOUS
  <2>2. \A j \in Ids \ {k} : phase'[j] = phase[j] /\ outcome'[j] = outcome[j]
    BY <1>4, <2>1, OpenChanges
  <2>3. made'[d] = made[d]
    BY <1>4 DEF OpensNext, Opens, CallInv, TypeInv, TypeOK
  <2>4. made[d] \in 1..MaxCalls => id \in Ids \ {k}
    BY <1>2, <2>1, PairsAreIds DEF Current
  <2> QED
    BY <1>1, <1>2, <2>2, <2>3, <2>4, EndStays DEF EndInv
<1> QED
  BY <1>3, <1>4, MainOpens DEF MainPasses

LEMMA StepEnds ==
  CallInv /\ ControlInv /\ OutputInv /\ EndInv /\ [MainNext]_<<vars, mainVars>> => EndInv'
<1> SUFFICES ASSUME CallInv, ControlInv, OutputInv, EndInv, [MainNext]_<<vars, mainVars>>,
                    NEW d \in Clients
             PROVE  EndTells(d)'
  BY DEF EndInv
<1>1. PrintsStay
  BY StepPrints
<1>2. ASSUME NEW c \in Clients, Main(c) PROVE EndTells(d)'
  <2>1. CASE d = c
    BY <1>1, <1>2, <2>1, MainEnds
  <2>2. CASE d # c
    BY <1>1, <1>2, <2>2, OthersEnd
  <2> QED
    BY <2>1, <2>2
<1>3. ASSUME NEW k \in Ids, TracedExecute(k) PROVE EndTells(d)'
  <2>1. PICK id : id = Current(d)
    OBVIOUS
  <2>2. Execute(k) /\ UNCHANGED at
    BY <1>3 DEF TracedExecute, Execute
  <2>3. phase[k] # "over"
    BY <2>2 DEF Execute, Create, Send, NoResponse, ConnectionFails, Receive
  <2>4. UNCHANGED made /\ \A j \in Ids \ {k} : phase'[j] = phase[j] /\ outcome'[j] = outcome[j]
    BY <2>2, ExecuteChanges DEF ExecuteShape, CallInv
  <2>5. made[d] \in 1..MaxCalls => id \in Ids
    BY <2>1, PairsAreIds DEF Current
  <2> QED
    BY <1>1, <2>1, <2>2, <2>3, <2>4, <2>5, EndStays DEF EndInv
<1>4. CASE (Environment /\ UNCHANGED mainVars) \/ Ended \/ UNCHANGED <<vars, mainVars>>
  <2>1. UNCHANGED <<at, made, phase, outcome>>
    BY <1>4 DEF Environment, Serve, Fail, Deny, Obey, Refusal, Success, Answer, DeleteBucket, Tick,
                Ended, vars, clientVars, callVars, mainVars
  <2> QED
    BY <1>1, <2>1, EndStays DEF EndInv
<1> QED
  BY <1>2, <1>3, <1>4 DEF MainNext

LEMMA InitEnds == MainInit => EndInv
BY DEF MainInit, EndInv, EndTells

(* What has no excuse has been sent with a good signature, and the store   *)
(* did not fail it.                                                        *)
LEMMA WithoutExcuse ==
  ASSUME CauseHyps, NEW c \in Clients, ~Excused(c), NEW n \in 1..MaxCalls,
         NEW id, id = <<c, n>>, wire[id] = "read"
  PROVE  /\ \/ IsSuccessful(answer[id])
            \/ /\ answer[id].status = NotFound /\ call[id].op # "makeBucket" /\ found[id] = "absent"
               /\ call[id].op # "putObject"
               /\ call[id].op = "bucketExists" => answer[id].body = << >>
            \/ /\ answer[id].status = Conflict /\ call[id].op = "makeBucket"
               /\ found[<<c, 1>>] = "absent" => \E i \in Ids : i[1] # c /\ MakesBucket(i)
         /\ outcome[id] \in Unanswered \/ outcome[id] = ResultOf(call[id], answer[id])
<1>1. id \in Ids /\ id[1] = c
  BY PairsAreIds
<1>2. OutcomeTells(id) /\ AnswerTells(id)
  BY <1>1 DEF CauseHyps, CauseInv, CallTells
<1>3. GoodCredentials(config[c])
  BY DEF Excused
<1>4. StampedAt(request[id]) = SignedAt(request[id])
  <2>1. ~(wire[<<c, n>>] # "none" /\ StampedAt(request[<<c, n>>]) # SignedAt(request[<<c, n>>]))
    BY DEF Excused
  <2> QED
    BY <2>1
<1>5. ~IsFault(answer[id])
  <2>1. ~\E f \in Faults : answer[<<c, n>>].status = f.status
    BY DEF Excused
  <2> QED
    BY <2>1 DEF IsFault
<1>6. ~(call[id].op = "putObject" /\ found[id] = "absent")
  <2>1. ~(call[<<c, n>>].op = "putObject" /\ found[<<c, n>>] = "absent")
    BY DEF Excused
  <2> QED
    BY <2>1
<1>7. Authentic(request[id])
  <2>1. RequestInv /\ wire[id] # "none" /\ GoodCredentials(config[id[1]])
    BY <1>1, <1>3 DEF CauseHyps, FileInv
  <2> QED
    BY <1>1, <1>4, <2>1, SentIsAuthentic
<1>8. \/ IsSuccessful(answer[id])
      \/ /\ answer[id].status = NotFound /\ call[id].op # "makeBucket" /\ found[id] = "absent"
         /\ call[id].op = "bucketExists" => answer[id].body = << >>
      \/ /\ answer[id].status = Conflict /\ call[id].op = "makeBucket"
         /\ found[<<c, 1>>] = "absent" => \E i \in Ids : i[1] # c /\ MakesBucket(i)
  BY <1>1, <1>2, <1>5, <1>7 DEF AnswerTells
<1> QED
  BY <1>2, <1>6, <1>8 DEF OutcomeTells

(* What the status 404 says of a bucket. *)
LEMMA NotFoundCodes ==
  /\ \A o, b : o = "" /\ b # "" => CodeOfStatus(o, b, NotFound) = "NO_SUCH_BUCKET"
  /\ NotFound \notin 200..299
<1>1. ASSUME NEW o, NEW b, NEW s, s = NotFound
      PROVE  o = "" /\ b # "" => CodeOfStatus(o, b, s) = "NO_SUCH_BUCKET"
  <2>1. CodeOfStatus(o, b, s) = IF o # "" THEN "NO_SUCH_KEY"
                                ELSE IF b # "" THEN "NO_SUCH_BUCKET" ELSE "RESOURCE_NOT_FOUND"
    BY <1>1 DEF CodeOfStatus, NotFound
  <2> QED
    BY <2>1, Zenon
<1>2. 404 \notin 200..299
  OBVIOUS
<1>3. NotFound = 404
  BY DEF NotFound
<1>4. \A o, b : o = "" /\ b # "" => CodeOfStatus(o, b, NotFound) = "NO_SUCH_BUCKET"
  BY <1>1, Zenon
<1>5. NotFound \notin 200..299
  BY <1>2, <1>3
<1> QED
  BY <1>4, <1>5

(* bucketExists() returns false for a bucket that is not found. *)
LEMMA NotFoundIsFalse ==
  ASSUME NEW a, a.op = "bucketExists", a.object = "", a.bucket # "",
         NEW response, response.status = NotFound, response.body = << >>
  PROVE  ResultOf(a, response) = "false"
<1>1. Extract(response.body, CodeTags) = << >> /\ Extract(response.body, MessageTags) = << >>
  BY NothingExtracted
<1>2. HandleError(a.object, a.bucket, response) = CodeOfStatus(a.object, a.bucket, response.status)
  BY <1>1 DEF HandleError
<1>3. CodeOfStatus(a.object, a.bucket, response.status) = "NO_SUCH_BUCKET"
  BY NotFoundCodes
<1>4. ~IsSuccessful(response)
  BY NotFoundCodes, Zenon DEF IsSuccessful
<1> QED
  BY <1>2, <1>3, <1>4 DEF ResultOf

(* Only bucketExists() returns false. *)
LEMMA FalseMeans ==
  ASSUME NEW a, NEW response, ResultOf(a, response) = "false"
  PROVE  a.op = "bucketExists" /\ ~IsSuccessful(response)
BY CodesAreErrors DEF ResultOf, ErrorCodes

LEMMA FailuresExplained ==
  CauseHyps /\ EndInv => FailsOnlyWhenOvertaken
<1> SUFFICES ASSUME CauseHyps, EndInv, NEW c \in Clients,
                    at[c] = "over", ~Printed(c, UploadedLine), ~Excused(c)
             PROVE  /\ call[Current(c)].op = "makeBucket" /\ found[<<c, 1>>] = "absent"
                    /\ \E i \in Ids : i[1] # c /\ call[i].op = "makeBucket" /\ served[i] = 1
  BY DEF FailsOnlyWhenOvertaken
<1>1. PICK n, id : n = made[c] /\ id = <<c, n>>
  OBVIOUS
<1>2. \A e \in {"usage", "InvalidEndpoint", "RuntimeError", "NoResponse", "ReadFailed"} :
        ~Printed(c, ErrorLine(e))
  BY DEF Excused
<1>3. /\ n \in 1..MaxCalls /\ outcome[id] \in Exceptions
      /\ Printed(c, ErrorLine(outcome[id]))
  BY <1>1, <1>2 DEF EndInv, EndTells, Current
<1>4. Current(c) = id /\ id \in Ids /\ 1 \in 1..MaxCalls
  BY <1>1, <1>3, PairsAreIds DEF Current
<1>5. outcome[id] \notin Unanswered \cup {"returned", "false"}
  BY <1>2, <1>3 DEF Unanswered, Exceptions, ErrorCodes
<1>6. wire[id] = "read" /\ outcome[id] = ResultOf(call[id], answer[id])
  BY <1>4, <1>5 DEF CauseHyps, CauseInv, CallTells, OutcomeTells
<1>7. ~IsSuccessful(answer[id])
  BY <1>5, <1>6 DEF ResultOf
<1>8. CASE answer[id].status = NotFound /\ call[id].op \notin {"makeBucket", "putObject"}
           /\ (call[id].op = "bucketExists" => answer[id].body = << >>)
  <2>1. IsPassed(call[id], GetRegion(id[1])) /\ CallFits(id)
    BY <1>4, <1>6 DEF CauseHyps, FileInv, RequestInv, IsMade, Active, Fits
  <2>2. call[id].op = "bucketExists" /\ call[id].object = "" /\ call[id].bucket # ""
    BY <1>8, <2>1, MainAssumption DEF IsPassed, CallFits
  <2> QED
    BY <1>5, <1>6, <1>8, <2>2, NotFoundIsFalse
<1>9. CASE /\ call[id].op = "makeBucket"
           /\ found[<<c, 1>>] = "absent" => \E i \in Ids : i[1] # c /\ MakesBucket(i)
  <2>1. PICK j : j = <<c, 1>>
    OBVIOUS
  <2>2. outcome[j] = "false" /\ wire[j] = "read"
    BY <1>1, <1>4, <1>9, <2>1, FirstIsRead
  <2>3. outcome[j] \notin Unanswered
    BY <2>2 DEF Unanswered
  <2>4. ResultOf(call[j], answer[j]) = "false"
    BY <1>4, <2>1, <2>2, <2>3, WithoutExcuse
  <2>5. call[j].op = "bucketExists" /\ ~IsSuccessful(answer[j])
    BY <2>4, FalseMeans
  <2>6. found[j] = "absent"
    BY <1>4, <2>1, <2>2, <2>5, WithoutExcuse
  <2> QED
    BY <1>4, <1>9, <2>1, <2>6 DEF MakesBucket
<1> QED
  BY <1>1, <1>3, <1>6, <1>7, <1>8, <1>9, WithoutExcuse

(* Where the store keeps every bucket in us-east-1, as main() takes it to  *)
(* do, a program that has its arguments and its file, that no connection,  *)
(* fault of the store or change of the clock has disturbed, and whose      *)
(* bucket nobody deletes, uploads the file: unless it found the bucket     *)
(* missing and another program made it first (client.cpp:60-65).  So it is *)
(* for any number of programs and however their calls interleave.          *)
THEOREM FailuresHaveReasons ==
  ASSUME InitialLocations \subseteq {US_EAST_1}
  PROVE  MainSpec => []FailsOnlyWhenOvertaken
<1>1. MainInit => CauseInv /\ EndInv
  BY InitCauses, InitEnds DEF MainInit
<1>2. ReportInv /\ CauseInv /\ EndInv /\ [MainNext]_<<vars, mainVars>> => CauseInv' /\ EndInv'
  BY StepCauses, StepEnds DEF ReportInv, CauseHyps, FileInv, RequestInv
<1>3. ReportInv /\ CauseInv /\ EndInv => FailsOnlyWhenOvertaken
  BY FailuresExplained DEF ReportInv, CauseHyps
<1> QED
  BY <1>1, <1>2, <1>3, ReportInvariant, PTL DEF MainSpec

(***************************************************************************)
(* What a trace tells                                                      *)
(***************************************************************************)

(* The lines of the program and of its trace.                              *)
LEMMA PartsOfTrace ==
  /\ Part(StartHttp) = "begin" /\ Part(EndHttp) = "end" /\ Part(NoAnswerLine) = "fate"
  /\ \A code : Part(StatusLine(code)) = "fate" /\ StatusLine(code) # NoAnswerLine
  /\ \A body : Part(BodyLine(body)) = "other"
  /\ \A e : Part(ErrorLine(e)) = "other"
  /\ Part(ExistsLine) = "other" /\ Part(UploadedLine) = "other"
<1>1. \A x, y, z : <<x, y>> # <<z>>
  OBVIOUS
<1>2. /\ <<"START-HTTP">> # <<"END-HTTP">> /\ <<"START-HTTP">> # <<"<NO RESPONSE>">>
      /\ <<"END-HTTP">> # <<"<NO RESPONSE>">>
      /\ \A w \in {"Bucket already exists.", "is successfully uploaded"} :
           <<w>> \notin {<<"START-HTTP">>, <<"END-HTTP">>, <<"<NO RESPONSE>">>} /\ <<w>>[1] # "HTTP"
  OBVIOUS
<1>3. \A x : <<"error", x>>[1] # "HTTP" /\ <<"body", x>>[1] # "HTTP" /\ <<"HTTP", x>>[1] = "HTTP"
  OBVIOUS
<1> QED
  BY <1>1, <1>2, <1>3, Zenon
     DEF Part, StartHttp, EndHttp, NoAnswerLine, StatusLine, BodyLine, ErrorLine, ExistsLine, UploadedLine

(* One more line is one more of its kind.                                  *)
IsLonger(t, s, line) == t = s \o <<line>>

LEMMA AnotherLine ==
  ASSUME NEW s, IsSequence(s), NEW line, NEW t, IsLonger(t, s, line)
  PROVE  /\ IsSequence(t) /\ Len(s) \in Nat /\ Len(t) = Len(s) + 1
         /\ t[Len(s) + 1] = line /\ \A i \in 1..Len(s) : t[i] = s[i]
<1> USE DEF IsLonger
<1> DEFINE S == Values(s) \cup {line}
<1>1. s \in Seq(S) /\ <<line>> \in Seq(S)
  <2>1. s \in Seq(Values(s))
    BY DEF IsSequence
  <2> QED
    BY <2>1
<1>2. IsSequence(t)
  BY Concatenation, ShortSequences
<1> HIDE DEF S
<1>3. Len(t) = Len(s) + 1 /\ Len(s) \in Nat
  BY <1>1
<1>4. t[Len(s) + 1] = line /\ \A i \in 1..Len(s) : t[i] = s[i]
  BY <1>1
<1> QED
  BY <1>2, <1>3, <1>4

Positions(s, part, i) == {j \in 1..i : Part(s[j]) = part}

LEMMA CountIsNatural ==
  ASSUME NEW s, NEW part, NEW i \in Nat
  PROVE  IsFiniteSet(Positions(s, part, i)) /\ Count(s, part, i) \in Nat
<1>1. IsFiniteSet(1..i)
  BY FS_Interval
<1>2. Positions(s, part, i) \in SUBSET (1..i)
  BY DEF Positions
<1>3. IsFiniteSet(Positions(s, part, i))
  BY <1>1, <1>2, FS_Subset
<1>4. Cardinality(Positions(s, part, i)) \in Nat
  BY <1>3, FS_CardinalityType
<1> QED
  BY <1>3, <1>4 DEF Count, Positions

One(line, part) == IF Part(line) = part THEN 1 ELSE 0

LEMMA CountAnother ==
  ASSUME NEW s, IsSequence(s), NEW line, NEW t, IsLonger(t, s, line), NEW part
  PROVE  /\ \A i \in 0..Len(s) : Count(t, part, i) = Count(s, part, i)
         /\ Count(t, part, Len(t)) = Count(s, part, Len(s)) + One(line, part)
<1>1. /\ Len(s) \in Nat /\ Len(t) = Len(s) + 1 /\ t[Len(s) + 1] = line
      /\ \A i \in 1..Len(s) : t[i] = s[i]
  BY AnotherLine
<1>2. PICK n \in Nat : n = Len(s)
  BY <1>1
<1>3. ASSUME NEW i \in 0..n PROVE Positions(t, part, i) = Positions(s, part, i)
  <2>1. \A j \in 1..i : t[j] = s[j]
    BY <1>1, <1>2
  <2> QED
    BY <2>1 DEF Positions
<1>4. \A i \in 0..n : Count(t, part, i) = Count(s, part, i)
  BY <1>3 DEF Count, Positions
<1>5. PICK P : P = Positions(s, part, n)
  OBVIOUS
<1>6. IsFiniteSet(P) /\ n + 1 \notin P /\ Count(s, part, n) = Cardinality(P) /\ Cardinality(P) \in Nat
  <2>1. IsFiniteSet(P) /\ Count(s, part, n) \in Nat
    BY <1>5, CountIsNatural
  <2>2. Count(s, part, n) = Cardinality(P)
    BY <1>5 DEF Count, Positions
  <2>3. n + 1 \notin 1..n
    BY <1>2
  <2>4. n + 1 \notin P
    BY <1>5, <2>3 DEF Positions
  <2> QED
    BY <2>1, <2>2, <2>4
<1>8. Positions(t, part, n + 1) = IF Part(line) = part THEN P \cup {n + 1} ELSE P
  <2>1. t[n + 1] = line /\ \A j \in 1..n : t[j] = s[j]
    BY <1>1, <1>2
  <2>2. \A j : j \in 1..(n + 1) <=> j \in 1..n \/ j = n + 1
    BY <1>2
  <2>3. PICK m : m = n + 1
    OBVIOUS
  <2>4. \A j : j \in Positions(t, part, m) <=> (j \in 1..n /\ Part(s[j]) = part) \/ (j = m /\ Part(line) = part)
    BY <2>1, <2>2, <2>3, Zenon DEF Positions
  <2>5. \A j : j \in P <=> j \in 1..n /\ Part(s[j]) = part
    BY <1>5 DEF Positions
  <2>6. Part(line) = part => Positions(t, part, m) = P \cup {m}
    BY <2>4, <2>5, Zenon
  <2>7. Part(line) # part => Positions(t, part, m) = P
    BY <2>4, <2>5, Zenon
  <2> QED
    BY <2>3, <2>6, <2>7, Zenon
<1>9. Cardinality(P \cup {n + 1}) = Cardinality(P) + 1
  BY <1>6, FS_AddElement
<1>10. Count(t, part, n + 1) = Cardinality(Positions(t, part, n + 1))
  BY DEF Count, Positions
<1>11. Count(t, part, n + 1) = Count(s, part, n) + One(line, part)
  <2>1. CASE Part(line) = part
    BY <1>6, <1>8, <1>9, <1>10, <2>1 DEF One
  <2>2. CASE Part(line) # part
    BY <1>6, <1>8, <1>10, <2>2 DEF One
  <2> QED
    BY <2>1, <2>2
<1> QED
  BY <1>1, <1>2, <1>4, <1>11

(* Among the first lines there are b that begin a request, f that tell a   *)
(* fate and e that end one; result gives the outcome of each call.         *)
InOrder(b, f, e) == e <= f /\ f <= b /\ b <= e + 1

IsTold(s, b, f, e, result) ==
  /\ IsSequence(s) /\ b \in Nat /\ f \in Nat /\ e \in Nat /\ InOrder(b, f, e)
  /\ Count(s, "begin", Len(s)) = b /\ Count(s, "fate", Len(s)) = f /\ Count(s, "end", Len(s)) = e
  /\ \A i \in 1..Len(s) :
       /\ InOrder(Count(s, "begin", i), Count(s, "fate", i), Count(s, "end", i))
       /\ Part(s[i]) = "fate" =>
            Count(s, "fate", i) \in 1..f /\ Tells(s[i], result[Count(s, "fate", i)])

LEMMA TellLine ==
  ASSUME NEW s, NEW b, NEW f, NEW e, NEW result, IsTold(s, b, f, e, result),
         NEW line, NEW t, IsLonger(t, s, line), NEW b2, NEW f2, NEW e2,
         b2 = b + One(line, "begin"),
         f2 = f + One(line, "fate"),
         e2 = e + One(line, "end"),
         InOrder(b2, f2, e2),
         Part(line) = "fate" => Tells(line, result[f2])
  PROVE  IsTold(t, b2, f2, e2, result)
<1>0. IsSequence(s)
  BY DEF IsTold
<1>1. /\ IsSequence(t) /\ Len(s) \in Nat /\ Len(t) = Len(s) + 1 /\ t[Len(s) + 1] = line
      /\ \A i \in 1..Len(s) : t[i] = s[i]
  BY <1>0, AnotherLine
<1>2. PICK n \in Nat : n = Len(s)
  BY <1>1
<1>3. \A part : \A i \in 1..n : Count(t, part, i) = Count(s, part, i)
  <2>1. 1..n \subseteq 0..n
    BY <1>2
  <2>2. \A part : \A i \in 0..n : Count(t, part, i) = Count(s, part, i)
    BY <1>0, <1>2, CountAnother
  <2> QED
    BY <2>1, <2>2
<1>4. b2 \in Nat /\ f2 \in Nat /\ e2 \in Nat /\ f <= f2 /\ (Part(line) = "fate" => f2 \in 1..f2)
  BY DEF IsTold, One
<1>5. Count(t, "begin", Len(t)) = b2 /\ Count(t, "fate", Len(t)) = f2 /\ Count(t, "end", Len(t)) = e2
  <2>1. \A part : Count(t, part, Len(t)) = Count(s, part, Len(s)) + One(line, part)
    BY <1>0, CountAnother
  <2>2. Count(s, "begin", Len(s)) = b /\ Count(s, "fate", Len(s)) = f /\ Count(s, "end", Len(s)) = e
    BY DEF IsTold
  <2> QED
    BY <2>1, <2>2, Zenon
<1>6. ASSUME NEW i \in 1..Len(t)
      PROVE  /\ InOrder(Count(t, "begin", i), Count(t, "fate", i), Count(t, "end", i))
             /\ Part(t[i]) = "fate" =>
                  Count(t, "fate", i) \in 1..f2 /\ Tells(t[i], result[Count(t, "fate", i)])
  <2>1. i \in 1..n \/ i = Len(t)
    BY <1>1, <1>2
  <2>2. CASE i \in 1..n
    <3>1. /\ InOrder(Count(s, "begin", i), Count(s, "fate", i), Count(s, "end", i))
          /\ Part(s[i]) = "fate" =>
               Count(s, "fate", i) \in 1..f /\ Tells(s[i], result[Count(s, "fate", i)])
      BY <1>2, <2>2 DEF IsTold
    <3>2. 1..f \subseteq 1..f2
      BY <1>4 DEF IsTold
    <3>3. t[i] = s[i]
      BY <1>1, <1>2, <2>2
    <3>4. \A part : Count(t, part, i) = Count(s, part, i)
      BY <1>3, <2>2
    <3> QED
      BY <3>1, <3>2, <3>3, <3>4
  <2>3. CASE i = Len(t)
    <3>1. t[i] = line
      BY <1>1, <2>3
    <3> QED
      BY <1>4, <1>5, <2>3, <3>1, Zenon
  <2> QED
    BY <2>1, <2>2, <2>3
<1> QED
  BY <1>1, <1>4, <1>5, <1>6, Zenon DEF IsTold

(* A line of the program itself.                                           *)
LEMMA TellOther ==
  ASSUME NEW s, NEW b, NEW f, NEW e, NEW result, IsTold(s, b, f, e, result),
         NEW line, Part(line) = "other"
  PROVE  IsTold(s \o <<line>>, b, f, e, result)
<1>1. PICK t : t = s \o <<line>> /\ IsLonger(t, s, line)
  BY DEF IsLonger
<1>2. b = b + 0 /\ f = f + 0 /\ e = e + 0 /\ InOrder(b, f, e)
  BY DEF IsTold
<1>3. Part(line) # "fate" /\ One(line, "begin") = 0 /\ One(line, "fate") = 0 /\ One(line, "end") = 0
  BY DEF One
<1> QED
  BY <1>1, <1>2, <1>3, TellLine, Zenon

LEMMA TellBegin ==
  ASSUME NEW s, NEW n, NEW result, IsTold(s, n, n, n, result)
  PROVE  IsTold(s \o <<StartHttp>>, n + 1, n, n, result)
<1>1. PICK t, line : line = StartHttp /\ t = s \o <<line>> /\ IsLonger(t, s, line)
  BY DEF IsLonger
<1>2. Part(line) = "begin"
  BY <1>1, PartsOfTrace
<1>3. n = n + 0 /\ InOrder(n + 1, n, n)
  BY DEF IsTold, InOrder
<1>4. Part(line) # "fate" /\ One(line, "begin") = 1 /\ One(line, "fate") = 0 /\ One(line, "end") = 0
  BY <1>2 DEF One
<1> QED
  BY <1>1, <1>2, <1>3, <1>4, TellLine, Zenon

LEMMA TellEnd ==
  ASSUME NEW s, NEW n, NEW result, IsTold(s, n + 1, n + 1, n, result), n \in Nat
  PROVE  IsTold(s \o <<EndHttp>>, n + 1, n + 1, n + 1, result)
<1>1. PICK t, line, m : line = EndHttp /\ t = s \o <<line>> /\ m = n + 1 /\ IsLonger(t, s, line)
  BY DEF IsLonger
<1>2. Part(line) = "end"
  BY <1>1, PartsOfTrace
<1>3. m = m + 0 /\ InOrder(m, m, n + 1)
  BY <1>1 DEF InOrder
<1>4. Part(line) # "fate" /\ One(line, "begin") = 0 /\ One(line, "fate") = 0 /\ One(line, "end") = 1
  BY <1>2 DEF One
<1> QED
  BY <1>1, <1>2, <1>3, <1>4, TellLine, Zenon

LEMMA TellFate ==
  ASSUME NEW s, NEW n, NEW result, IsTold(s, n + 1, n, n, result), n \in Nat,
         NEW line, Part(line) = "fate", Tells(line, result[n + 1])
  PROVE  IsTold(s \o <<line>>, n + 1, n + 1, n, result)
<1>1. PICK t, m : t = s \o <<line>> /\ m = n + 1 /\ IsLonger(t, s, line)
  BY DEF IsLonger
<1>2. m = m + 0 /\ n = n + 0 /\ InOrder(m, m, n)
  BY <1>1 DEF InOrder
<1>3. One(line, "begin") = 0 /\ One(line, "fate") = 1 /\ One(line, "end") = 0
  BY DEF One
<1> QED
  BY <1>1, <1>2, <1>3, TellLine, Zenon

(* Only the outcomes of the fates told matter.                             *)
LEMMA TellSame ==
  ASSUME NEW s, NEW b, NEW f, NEW e, NEW result, IsTold(s, b, f, e, result),
         NEW result2, \A n \in 1..f : result2[n] = result[n]
  PROVE  IsTold(s, b, f, e, result2)
BY DEF IsTold

LEMMA Associativity ==
  ASSUME NEW s, IsSequence(s), NEW t, IsSequence(t), NEW u, IsSequence(u)
  PROVE  (s \o t) \o u = s \o (t \o u)
<1>1. PICK S : S = Values(s) \cup Values(t) \cup Values(u)
  OBVIOUS
<1>2. s \in Seq(S) /\ t \in Seq(S) /\ u \in Seq(S)
  BY <1>1 DEF IsSequence
<1> QED
  BY <1>2, ConcatAssociative

LEMMA OneAfterTheOther ==
  ASSUME NEW s, IsSequence(s), NEW x, NEW y
  PROVE  s \o <<x, y>> = (s \o <<x>>) \o <<y>>
<1>1. <<x>> \o <<y>> = <<x, y>>
  <2>1. PICK S, p, q, r : S = {x, y} /\ p = <<x>> /\ q = <<y>> /\ r = <<x, y>>
    OBVIOUS
  <2>2. p \in Seq(S) /\ Len(p) = 1 /\ p[1] = x
    BY <2>1
  <2>3. q \in Seq(S) /\ Len(q) = 1 /\ q[1] = y
    BY <2>1
  <2>4. r \in Seq(S) /\ Len(r) = 2 /\ r[1] = x /\ r[2] = y
    BY <2>1
  <2>5. p \o q = r
    <3>1. PICK w : w = p \o q
      OBVIOUS
    <3>2. w \in Seq(S) /\ Len(w) = 1 + 1 /\ w[1] = p[1] /\ w[1 + 1] = q[1]
      BY <2>2, <2>3, <3>1, ConcatProperties
    <3>3. Len(w) = Len(r) /\ \A i \in 1..Len(w) : w[i] = r[i]
      BY <2>2, <2>3, <2>4, <3>2
    <3> QED
      BY <2>4, <3>1, <3>2, <3>3, SeqEqual
  <2> QED
    BY <2>1, <2>5
<1>2. (s \o <<x>>) \o <<y>> = s \o (<<x>> \o <<y>>)
  <2>1. IsSequence(<<x>>) /\ IsSequence(<<y>>)
    BY ShortSequences
  <2> QED
    BY <2>1, Associativity
<1> QED
  BY <1>1, <1>2, Zenon

LEMMA AnswerFirst ==
  ASSUME NEW s, IsSequence(s), NEW x, NEW rest, IsSequence(rest)
  PROVE  s \o (<<x>> \o rest) = (s \o <<x>>) \o rest
<1>1. IsSequence(<<x>>)
  BY ShortSequences
<1> QED
  BY <1>1, Associativity

(* The rest of a trace, after the request was begun.                       *)
LEMMA TellAnswer ==
  ASSUME NEW s, NEW n \in Nat, NEW result, IsTold(s, n + 1, n, n, result),
         NEW response, Tells(StatusLine(response.status), result[n + 1])
  PROVE  IsTold(s \o AnswerTrace(response), n + 1, n + 1, n + 1, result)
<1>1. PICK line, body : line = StatusLine(response.status) /\ body = BodyLine(response.body)
  OBVIOUS
<1>2. PICK rest : AnswerTrace(response) = <<line>> \o rest /\ rest \in {<<EndHttp>>, <<body, EndHttp>>}
  BY <1>1 DEF AnswerTrace, ErrorTrace
<1>3. Part(line) = "fate" /\ Part(body) = "other"
  BY <1>1, PartsOfTrace
<1>4. IsTold(s \o <<line>>, n + 1, n + 1, n, result)
  BY <1>1, <1>3, TellFate
<1>5. PICK told : told = s \o <<line>>
  OBVIOUS
<1>6. IsTold(told, n + 1, n + 1, n, result) /\ IsSequence(told) /\ IsSequence(s)
  BY <1>4, <1>5 DEF IsTold
<1>7. s \o AnswerTrace(response) = told \o rest
  <2>1. IsSequence(rest)
    BY <1>2, ShortSequences
  <2>2. s \o (<<line>> \o rest) = (s \o <<line>>) \o rest
    BY <1>6, <2>1, AnswerFirst
  <2> QED
    BY <1>2, <1>5, <2>2
<1>8. CASE rest = <<EndHttp>>
  BY <1>6, <1>7, <1>8, TellEnd
<1>9. CASE rest = <<body, EndHttp>>
  <2>1. IsTold(told \o <<body>>, n + 1, n + 1, n, result)
    BY <1>3, <1>6, TellOther
  <2>2. IsTold((told \o <<body>>) \o <<EndHttp>>, n + 1, n + 1, n + 1, result)
    BY <2>1, TellEnd
  <2>3. told \o <<body, EndHttp>> = (told \o <<body>>) \o <<EndHttp>>
    BY <1>6, OneAfterTheOther
  <2> QED
    BY <1>7, <1>9, <2>2, <2>3
<1> QED
  BY <1>2, <1>8, <1>9

LEMMA TellNoAnswer ==
  ASSUME NEW s, NEW n \in Nat, NEW result, IsTold(s, n + 1, n, n, result),
         result[n + 1] = "NoResponse"
  PROVE  IsTold(s \o <<NoAnswerLine, EndHttp>>, n + 1, n + 1, n + 1, result)
<1>1. Tells(NoAnswerLine, "NoResponse")
  BY DEF Tells, NoAnswerLine
<1>2. Tells(NoAnswerLine, result[n + 1])
  BY <1>1
<1>3. IsTold(s \o <<NoAnswerLine>>, n + 1, n + 1, n, result)
  BY <1>2, PartsOfTrace, TellFate
<1>4. IsTold((s \o <<NoAnswerLine>>) \o <<EndHttp>>, n + 1, n + 1, n + 1, result)
  BY <1>3, TellEnd
<1>5. IsSequence(s)
  BY DEF IsTold
<1>6. s \o <<NoAnswerLine, EndHttp>> = (s \o <<NoAnswerLine>>) \o <<EndHttp>>
  BY <1>5, OneAfterTheOther
<1> QED
  BY <1>4, <1>6

(* An answer's status tells what the caller gets for it.                   *)
LEMMA StatusTells ==
  ASSUME NEW a, NEW response
  PROVE  Tells(StatusLine(response.status), ResultOf(a, response))
<1>1. StatusLine(response.status) # NoAnswerLine
  BY PartsOfTrace
<1>2. ResultOf(a, response) # "NoResponse"
  BY ResultsAreResults
<1>3. ResultOf(a, response) = "returned" <=> IsSuccessful(response)
  <2>1. HandleError(a.object, a.bucket, response) # "returned"
    BY CodesAreErrors DEF ErrorCodes
  <2> QED
    BY <2>1 DEF ResultOf
<1>4. \A x : <<"HTTP", x>>[1] = "HTTP" /\ <<"HTTP", x>>[2] = x
  OBVIOUS
<1>5. StatusLine(response.status)[1] = "HTTP" /\ StatusLine(response.status)[2] = response.status
  BY <1>4 DEF StatusLine
<1> QED
  BY <1>1, <1>2, <1>3, <1>5 DEF Tells, IsSuccessful

(* The program's calls: those it has sent, those that are over, and what   *)
(* it has printed of them.                                                 *)
ResultsOf(c) == [n \in 1..MaxCalls |-> outcome[<<c, n>>]]

Traced(c) ==
  \E b, e \in 0..MaxCalls :
    Sent(c) = 1..b /\ Over(c) = 1..e /\ IsTold(output[c], b, e, e, ResultsOf(c))

(* A call that gave main() a reason to go on has its answer, and those     *)
(* before the last one have all been sent.                                 *)
AnswersRead ==
  /\ \A id \in Ids : outcome[id] \in {"returned", "false"} => wire[id] = "read"
  /\ \A id \in Ids : id[2] < made[id[1]] => wire[id] # "none"

TraceInv == CallsInOrder /\ AnswersRead /\ \A c \in Clients : Traced(c)

LEMMA SameInterval ==
  ASSUME NEW a \in Nat, NEW b \in Nat, 1..a = 1..b
  PROVE  a = b
<1>1. ~(a < b)
  <2> SUFFICES ASSUME a < b PROVE FALSE
    OBVIOUS
  <2>1. b \in 1..b /\ b \notin 1..a
    OBVIOUS
  <2> QED
    BY <2>1
<1>2. ~(b < a)
  <2> SUFFICES ASSUME b < a PROVE FALSE
    OBVIOUS
  <2>1. a \in 1..a /\ a \notin 1..b
    OBVIOUS
  <2> QED
    BY <2>1
<1> QED
  BY <1>1, <1>2

LEMMA TracedMeans ==
  ASSUME OutputInv, \A c \in Clients : Traced(c)
  PROVE  TraceTellsOutcomes
<1> SUFFICES ASSUME NEW c \in Clients, NEW lines, lines = output[c]
             PROVE  /\ Count(lines, "begin", Len(lines)) = Cardinality(Sent(c))
                    /\ \A part \in {"fate", "end"} : Count(lines, part, Len(lines)) = Cardinality(Over(c))
                    /\ \A i \in 1..Len(lines) :
                         /\ Count(lines, "end", i) <= Count(lines, "fate", i)
                         /\ Count(lines, "fate", i) <= Count(lines, "begin", i)
                         /\ Count(lines, "begin", i) <= Count(lines, "end", i) + 1
                    /\ \A i \in 1..Len(lines) : Part(lines[i]) = "fate" =>
                         Tells(lines[i], outcome[<<c, Count(lines, "fate", i)>>])
  BY DEF TraceTellsOutcomes
<1>1. PICK b \in 0..MaxCalls, e \in 0..MaxCalls :
        Sent(c) = 1..b /\ Over(c) = 1..e /\ IsTold(lines, b, e, e, ResultsOf(c))
  BY DEF Traced
<1>2. Cardinality(Sent(c)) = b /\ Cardinality(Over(c)) = e
  <2>1. \A n \in Nat : Cardinality(1..n) = n
    <3>1. ASSUME NEW n \in Nat PROVE Cardinality(1..n) = n
      <4>1. Cardinality(1..n) = IF 1 > n THEN 0 ELSE n - 1 + 1
        BY FS_Interval
      <4> QED
        BY <4>1
    <3> QED
      BY <3>1
  <2> QED
    BY <1>1, <2>1, BoundsAssumption
<1>3. /\ Count(lines, "begin", Len(lines)) = b
      /\ Count(lines, "fate", Len(lines)) = e /\ Count(lines, "end", Len(lines)) = e
  BY <1>1 DEF IsTold
<1>4. ASSUME NEW i \in 1..Len(lines)
      PROVE  /\ Count(lines, "end", i) <= Count(lines, "fate", i)
             /\ Count(lines, "fate", i) <= Count(lines, "begin", i)
             /\ Count(lines, "begin", i) <= Count(lines, "end", i) + 1
  BY <1>1 DEF IsTold, InOrder
<1>5. ASSUME NEW i \in 1..Len(lines), Part(lines[i]) = "fate"
      PROVE  Tells(lines[i], outcome[<<c, Count(lines, "fate", i)>>])
  <2>1. PICK n : n = Count(lines, "fate", i)
    OBVIOUS
  <2>2. n \in 1..e /\ Tells(lines[i], ResultsOf(c)[n])
    BY <1>1, <1>5, <2>1 DEF IsTold
  <2>3. ResultsOf(c)[n] = outcome[<<c, n>>]
    BY <1>1, <2>2, BoundsAssumption DEF ResultsOf
  <2> QED
    BY <2>1, <2>2, <2>3
<1> QED
  BY <1>2, <1>3, <1>4, <1>5

(* What leaves a call where it is in the trace.                            *)
Keeps(j) ==
  /\ wire'[j] # "none" <=> wire[j] # "none"
  /\ wire[j] # "none" => (phase'[j] = "over" <=> phase[j] = "over")
  /\ phase[j] = "over" => outcome'[j] = outcome[j]

LEMMA TracedStays ==
  ASSUME NEW c \in Clients, Traced(c), \A n \in 1..MaxCalls : Keeps(<<c, n>>),
         \/ output'[c] = output[c]
         \/ \E line : Part(line) = "other" /\ output'[c] = output[c] \o <<line>>
  PROVE  Traced(c)'
<1>1. PICK b \in 0..MaxCalls, e \in 0..MaxCalls :
        Sent(c) = 1..b /\ Over(c) = 1..e /\ IsTold(output[c], b, e, e, ResultsOf(c))
  BY DEF Traced
<1>2. Sent(c)' = Sent(c)
  BY DEF Sent, Keeps
<1>3. Over(c)' = Over(c)
  BY <1>2 DEF Over, Sent, Keeps
<1>4. IsTold(output'[c], b, e, e, ResultsOf(c))
  BY <1>1, TellOther
<1>5. ASSUME NEW n \in 1..e PROVE ResultsOf(c)'[n] = ResultsOf(c)[n]
  <2>1. n \in 1..MaxCalls /\ phase[<<c, n>>] = "over"
    BY <1>1 DEF Over, Sent
  <2> QED
    BY <2>1 DEF ResultsOf, Keeps
<1>6. PICK results : results = ResultsOf(c)'
  OBVIOUS
<1>7. IsTold(output'[c], b, e, e, results)
  BY <1>4, <1>5, <1>6, TellSame
<1> QED
  BY <1>1, <1>2, <1>3, <1>6, <1>7 DEF Traced

(* main() makes another call only when the last one returned.              *)
LEMMA MainGoesOn ==
  ASSUME ControlInv, NEW c \in Clients, Main(c)
  PROVE  \/ UNCHANGED vars
         \/ made[c] = 0
         \/ made[c] \in 1..MaxCalls /\ outcome[<<c, made[c]>>] \in {"returned", "false"}
<1>1. Control(c)
  BY DEF ControlInv
<1>2. CASE Usage(c) \/ BadEndpoint(c) \/ Report(c) \/ Catch(c)
  BY <1>2 DEF Usage, BadEndpoint, Report, Catch
<1>3. CASE Begin(c)
  BY <1>1, <1>3 DEF Begin, Control
<1>4. CASE BucketIsThere(c) \/ MakeMissingBucket(c) \/ BucketIsMade(c)
  <2>1. /\ at[c] \in {"bucketExists", "makeBucket"}
        /\ outcome[<<c, made[c]>>] \in {"returned", "false"}
    BY <1>4 DEF BucketIsThere, MakeMissingBucket, BucketIsMissing, BucketIsMade, After, Current
  <2>2. made[c] \in {1, 2}
    BY <1>1, <2>1 DEF Control
  <2> QED
    BY <2>1, <2>2, PairsAreIds
<1> QED
  BY <1>2, <1>3, <1>4 DEF Main

(* What main() prints of its own is no part of a trace. *)
LEMMA MainPrints ==
  ASSUME OutputInv, NEW c \in Clients, Main(c), NEW d \in Clients
  PROVE  \/ output'[d] = output[d]
         \/ \E line : Part(line) = "other" /\ output'[d] = output[d] \o <<line>>
<1>1. CASE UNCHANGED output
  BY <1>1
<1>2. ASSUME NEW line, Say(c, <<line>>), Part(line) = "other"
      PROVE  \/ output'[d] = output[d]
             \/ \E l : Part(l) = "other" /\ output'[d] = output[d] \o <<l>>
  BY <1>2 DEF Say, OutputInv
<1> QED
  BY <1>1, <1>2, PartsOfTrace
     DEF Main, Usage, BadEndpoint, Begin, BucketIsThere, MakeMissingBucket, BucketIsMade, Report, Catch

LEMMA MainTraces ==
  ASSUME CallInv, ControlInv, OutputInv, TraceInv, NEW c \in Clients, Main(c)
  PROVE  AnswersRead' /\ \A d \in Clients : Traced(d)'
<1>1. AnswersRead' /\ \A j \in Ids : Keeps(j)
  <2>1. CASE UNCHANGED vars
    <3>1. UNCHANGED <<made, phase, outcome, wire>>
      BY <2>1 DEF vars, clientVars, callVars, netVars
    <3> QED
      BY <3>1 DEF TraceInv, AnswersRead, Keeps
  <2>2. ASSUME NEW args, MainPasses(c, args), ~UNCHANGED vars
        PROVE  AnswersRead' /\ \A j \in Ids : Keeps(j)
    <3>1. PICK id : id = <<c, made[c] + 1>>
      OBVIOUS
    <3>2. /\ id \in Ids /\ phase[id] = "unused" /\ wire[id] = "none" /\ wire' = wire
          /\ \A j \in Ids \ {id} : phase'[j] = phase[j] /\ outcome'[j] = outcome[j]
      BY <2>2, <3>1, OpenChanges DEF MainPasses
    <3>3. outcome[id] = "none"
      BY <3>2 DEF TraceInv, CallsInOrder
    <3>4. outcome'[id] \notin {"returned", "false"}
      BY <2>2, <3>1, <3>3 DEF MainPasses
    <3>5. \A j \in Ids : outcome'[j] \in {"returned", "false"} => wire'[j] = "read"
      BY <3>2, <3>4 DEF TraceInv, AnswersRead
    <3>6. /\ made' = [made EXCEPT ![c] = @ + 1] /\ made \in [Clients -> 0..MaxCalls]
      BY <2>2 DEF MainPasses, OpensNext, Opens, CallInv, TypeInv, TypeOK
    <3>7. ASSUME NEW j \in Ids, j[2] < made'[j[1]] PROVE wire'[j] # "none"
      <4>1. j = <<j[1], j[2]>> /\ j[1] \in Clients /\ j[2] \in 1..MaxCalls /\ MaxCalls \in Nat
        BY IdsArePairs, BoundsAssumption
      <4>2. CASE j[1] # c
        <5>1. j[2] < made[j[1]]
          BY <3>6, <3>7, <4>1, <4>2
        <5> QED
          BY <3>2, <5>1 DEF TraceInv, AnswersRead
      <4>3. CASE j[1] = c
        <5>1. made'[c] = made[c] + 1 /\ made[c] \in Nat
          BY <3>6, <4>1
        <5>2. j[2] <= made[c] /\ made[c] # 0
          BY <3>7, <4>1, <4>3, <5>1
        <5>3. CASE j[2] < made[c]
          BY <3>2, <4>3, <5>3 DEF TraceInv, AnswersRead
        <5>4. CASE j[2] = made[c]
          <6>1. outcome[<<c, made[c]>>] \in {"returned", "false"}
            BY <2>2, <5>2, MainGoesOn
          <6>2. j = <<c, made[c]>>
            BY <4>1, <4>3, <5>4
          <6>3. wire[j] = "read"
            BY <6>1, <6>2 DEF TraceInv, AnswersRead
          <6> QED
            BY <3>2, <6>3
        <5> QED
          BY <4>1, <5>1, <5>2, <5>3, <5>4
      <4> QED
        BY <4>2, <4>3
    <3>8. ASSUME NEW j \in Ids PROVE Keeps(j)
      <4>1. CASE j = id
        BY <3>2, <4>1 DEF Keeps
      <4>2. CASE j # id
        BY <3>2, <4>2 DEF Keeps
      <4> QED
        BY <4>1, <4>2
    <3> QED
      BY <3>5, <3>7, <3>8 DEF AnswersRead
  <2> QED
    BY <2>1, <2>2, MainOpens
<1>2. ASSUME NEW d \in Clients PROVE Traced(d)'
  <2>1. \A n \in 1..MaxCalls : Keeps(<<d, n>>)
    BY <1>1, PairsAreIds
  <2> QED
    BY <2>1, MainPrints, TracedStays DEF TraceInv
<1> QED
  BY <1>1, <1>2

(* Only the last call of a program is in execute().                        *)
LEMMA LastRequest ==
  ASSUME CallInv, TraceInv, NEW id \in Ids, NEW c, c = id[1], phase[id] \in {"sign", "wait"}
  PROVE  \E k \in Nat :
           /\ id = <<c, k + 1>> /\ k + 1 \in 1..MaxCalls /\ Over(c) = 1..k
           /\ phase[id] = "sign" =>
                Sent(c) = 1..k /\ IsTold(output[c], k, k, k, ResultsOf(c))
           /\ phase[id] = "wait" =>
                Sent(c) = 1..(k + 1) /\ IsTold(output[c], k + 1, k, k, ResultsOf(c))
<1>1. PICK k : k = id[2] - 1
  OBVIOUS
<1>2. id = <<c, id[2]>> /\ c \in Clients /\ id[2] \in 1..MaxCalls /\ MaxCalls \in Nat
  BY IdsArePairs, BoundsAssumption
<1>3. k \in Nat /\ k + 1 = id[2] /\ id = <<c, k + 1>> /\ k + 1 \in 1..MaxCalls
  BY <1>1, <1>2
<1>4. made[c] = k + 1
  <2>1. made[c] \in 0..MaxCalls
    BY <1>2 DEF CallInv, TypeInv, TypeOK
  <2>2. ~(k + 1 > made[c])
    BY <1>2, <1>3 DEF CallInv, CallsAreConsistent, IsConsistent
  <2>3. ~(k + 1 < made[c])
    BY <1>2, <1>3 DEF TraceInv, CallsInOrder
  <2> QED
    BY <1>2, <1>3, <2>1, <2>2, <2>3
<1>5. ASSUME NEW n \in 1..MaxCalls
      PROVE  /\ n <= k => wire[<<c, n>>] # "none" /\ phase[<<c, n>>] = "over"
             /\ n > k + 1 => wire[<<c, n>>] = "none"
  <2>1. <<c, n>> \in Ids /\ <<c, n>>[1] = c /\ <<c, n>>[2] = n
    BY <1>2, PairsAreIds
  <2>2. IsConsistent(<<c, n>>)
    BY <2>1 DEF CallInv, CallsAreConsistent
  <2>3. n > k + 1 => phase[<<c, n>>] = "unused"
    BY <1>4, <2>1, <2>2 DEF IsConsistent
  <2>4. n > k + 1 => wire[<<c, n>>] = "none"
    BY <2>2, <2>3 DEF IsConsistent
  <2>5. n <= k => n < made[c]
    BY <1>3, <1>4
  <2>6. n <= k => wire[<<c, n>>] # "none" /\ phase[<<c, n>>] = "over"
    BY <2>1, <2>5 DEF TraceInv, CallsInOrder, AnswersRead
  <2> QED
    BY <2>4, <2>6
<1>6. phase[<<c, k + 1>>] = phase[id] /\ IsConsistent(id)
  BY <1>3 DEF CallInv, CallsAreConsistent
<1>7. \A n \in 1..MaxCalls : n <= k \/ n = k + 1 \/ n > k + 1
  BY <1>3
<1>8. Over(c) = 1..k
  <2>1. \A n \in 1..k : n \in 1..MaxCalls /\ n <= k
    BY <1>2, <1>3
  <2>2. \A n \in 1..MaxCalls : n <= k => n \in 1..k
    BY <1>3
  <2>3. \A n \in 1..MaxCalls : n \in Over(c) <=> n <= k
    BY <1>3, <1>5, <1>6, <1>7 DEF Over, Sent
  <2> QED
    BY <2>1, <2>2, <2>3 DEF Over, Sent
<1>9. phase[id] = "sign" => Sent(c) = 1..k
  <2> SUFFICES ASSUME phase[id] = "sign" PROVE Sent(c) = 1..k
    OBVIOUS
  <2>1. \A n \in 1..k : n \in 1..MaxCalls /\ n <= k
    BY <1>2, <1>3
  <2>2. \A n \in 1..MaxCalls : n <= k => n \in 1..k
    BY <1>3
  <2>3. wire[<<c, k + 1>>] = "none"
    BY <1>3, <1>6 DEF IsConsistent
  <2>4. \A n \in 1..MaxCalls : n \in Sent(c) <=> n <= k
    BY <1>3, <1>5, <1>7, <2>3 DEF Sent
  <2> QED
    BY <2>1, <2>2, <2>4 DEF Sent
<1>10. phase[id] = "wait" => Sent(c) = 1..(k + 1)
  <2> SUFFICES ASSUME phase[id] = "wait" PROVE Sent(c) = 1..(k + 1)
    OBVIOUS
  <2>1. \A n \in 1..(k + 1) : n \in 1..MaxCalls /\ n <= k + 1
    BY <1>2, <1>3
  <2>2. \A n \in 1..MaxCalls : n <= k + 1 => n \in 1..(k + 1)
    BY <1>3
  <2>3. wire[<<c, k + 1>>] # "none"
    BY <1>3, <1>6 DEF IsConsistent
  <2>4. \A n \in 1..MaxCalls : n \in Sent(c) <=> n <= k + 1
    BY <1>3, <1>5, <1>7, <2>3 DEF Sent
  <2> QED
    BY <2>1, <2>2, <2>4 DEF Sent
<1>11. PICK b \in 0..MaxCalls, e \in 0..MaxCalls :
        Sent(c) = 1..b /\ Over(c) = 1..e /\ IsTold(output[c], b, e, e, ResultsOf(c))
  BY <1>2 DEF TraceInv, Traced
<1>12. e = k
  BY <1>2, <1>3, <1>8, <1>11, SameInterval
<1>13. phase[id] = "sign" => b = k
  BY <1>2, <1>3, <1>9, <1>11, SameInterval
<1>14. phase[id] = "wait" => b = k + 1
  BY <1>2, <1>3, <1>10, <1>11, SameInterval
<1> QED
  BY <1>3, <1>8, <1>9, <1>10, <1>11, <1>12, <1>13, <1>14

(* A request is begun. *)
LEMMA SendTraces ==
  ASSUME CallInv, OutputInv, TraceInv, NEW id \in Ids, NEW c, c = id[1],
         Send(id), Say(c, <<StartHttp>>)
  PROVE  Traced(c)'
<1>1. /\ phase[id] = "sign" /\ phase' = [phase EXCEPT ![id] = "wait"]
      /\ wire' = [wire EXCEPT ![id] = "request"] /\ outcome' = outcome
  BY DEF Send
<1>2. PICK k \in Nat :
        /\ id = <<c, k + 1>> /\ k + 1 \in 1..MaxCalls /\ Over(c) = 1..k
        /\ Sent(c) = 1..k /\ IsTold(output[c], k, k, k, ResultsOf(c))
  BY <1>1, LastRequest
<1>3. c \in Clients /\ output'[c] = output[c] \o <<StartHttp>>
  BY IdsArePairs DEF Say, OutputInv
<1>4. IsTold(output'[c], k + 1, k, k, ResultsOf(c)')
  <2>1. ResultsOf(c)' = ResultsOf(c)
    BY <1>1 DEF ResultsOf
  <2> QED
    BY <1>2, <1>3, <2>1, TellBegin
<1>5. /\ phase \in [Ids -> Phases] /\ wire \in [Ids -> {"none", "request", "answer", "read"}]
  BY DEF CallInv, TypeInv, TypeOK
<1>6. ASSUME NEW n \in 1..MaxCalls
      PROVE  /\ n = k + 1 => wire'[<<c, n>>] = "request" /\ phase'[<<c, n>>] = "wait"
             /\ n # k + 1 => wire'[<<c, n>>] = wire[<<c, n>>] /\ phase'[<<c, n>>] = phase[<<c, n>>]
  <2>1. <<c, n>> \in Ids
    BY <1>3, PairsAreIds
  <2>2. n = k + 1 <=> <<c, n>> = id
    BY <1>2
  <2> QED
    BY <1>1, <1>5, <2>1, <2>2
<1>7. Sent(c)' = 1..(k + 1)
  <2>1. \A n : n \in 1..(k + 1) <=> n \in 1..k \/ n = k + 1
    BY <1>2
  <2>2. \A n \in 1..MaxCalls : n \in Sent(c)' <=> n \in Sent(c) \/ n = k + 1
    BY <1>6 DEF Sent
  <2> QED
    BY <1>2, <2>1, <2>2 DEF Sent
<1>8. Over(c)' = 1..k
  <2>1. k + 1 \notin 1..k
    BY <1>2
  <2>2. \A n \in 1..MaxCalls : n \in Over(c)' <=> n \in Over(c)
    <3>1. ASSUME NEW n \in 1..MaxCalls PROVE n \in Over(c)' <=> n \in Over(c)
      <4>1. CASE n = k + 1
        BY <1>2, <1>6, <2>1, <4>1 DEF Over, Sent
      <4>2. CASE n # k + 1
        BY <1>6, <4>2 DEF Over, Sent
      <4> QED
        BY <4>1, <4>2
    <3> QED
      BY <3>1
  <2> QED
    BY <1>2, <2>2 DEF Over, Sent
<1>9. k \in 0..MaxCalls /\ k + 1 \in 0..MaxCalls
  BY <1>2, BoundsAssumption
<1> QED
  BY <1>4, <1>7, <1>8, <1>9 DEF Traced

(* A request is over. *)
LEMMA EndTraces ==
  ASSUME CallInv, OutputInv, TraceInv, NEW id \in Ids, NEW c, c = id[1], phase[id] = "wait",
         NEW result, Finish(id, result),
         wire'[id] # "none", \A j \in Ids \ {id} : wire'[j] = wire[j],
         \/ result = "NoResponse" /\ Say(c, <<NoAnswerLine, EndHttp>>)
         \/ \E response : /\ Tells(StatusLine(response.status), result)
                          /\ Say(c, AnswerTrace(response))
  PROVE  Traced(c)'
<1>1. phase' = [phase EXCEPT ![id] = "over"] /\ outcome' = [outcome EXCEPT ![id] = result]
  BY DEF Finish
<1>2. PICK k \in Nat :
        /\ id = <<c, k + 1>> /\ k + 1 \in 1..MaxCalls /\ Over(c) = 1..k
        /\ Sent(c) = 1..(k + 1) /\ IsTold(output[c], k + 1, k, k, ResultsOf(c))
  BY LastRequest
<1>3. c \in Clients /\ \A lines : Say(c, lines) => output'[c] = output[c] \o lines
  BY IdsArePairs DEF Say, OutputInv
<1>4. phase \in [Ids -> Phases] /\ outcome \in [Ids -> Results]
  BY DEF CallInv, TypeInv, TypeOK
<1>5. PICK results : results = ResultsOf(c)'
  OBVIOUS
<1>6. ASSUME NEW n \in 1..MaxCalls
      PROVE  /\ n = k + 1 => /\ wire'[<<c, n>>] # "none" /\ phase'[<<c, n>>] = "over"
                             /\ outcome'[<<c, n>>] = result
             /\ n # k + 1 => /\ wire'[<<c, n>>] = wire[<<c, n>>] /\ phase'[<<c, n>>] = phase[<<c, n>>]
                             /\ outcome'[<<c, n>>] = outcome[<<c, n>>]
  <2>1. <<c, n>> \in Ids
    BY <1>3, PairsAreIds
  <2>2. n = k + 1 <=> <<c, n>> = id
    BY <1>2
  <2> QED
    BY <1>1, <1>4, <2>1, <2>2
<1>7. IsTold(output[c], k + 1, k, k, results) /\ results[k + 1] = result
  <2>1. \A n \in 1..k : n \in 1..MaxCalls /\ n # k + 1
    BY <1>2, BoundsAssumption
  <2>2. \A n \in 1..MaxCalls : results[n] = outcome'[<<c, n>>] /\ ResultsOf(c)[n] = outcome[<<c, n>>]
    BY <1>5 DEF ResultsOf
  <2>3. \A n \in 1..k : results[n] = ResultsOf(c)[n]
    BY <1>6, <2>1, <2>2
  <2>4. IsTold(output[c], k + 1, k, k, results)
    BY <1>2, <2>3, TellSame
  <2>5. results[k + 1] = result
    BY <1>2, <1>6, <2>2
  <2> QED
    BY <2>4, <2>5
<1>8. IsTold(output'[c], k + 1, k + 1, k + 1, results)
  <2>1. CASE result = "NoResponse" /\ Say(c, <<NoAnswerLine, EndHttp>>)
    BY <1>3, <1>7, <2>1, TellNoAnswer
  <2>2. ASSUME NEW response, Tells(StatusLine(response.status), result), Say(c, AnswerTrace(response))
        PROVE  IsTold(output'[c], k + 1, k + 1, k + 1, results)
    <3>1. PICK s : s = output[c]
      OBVIOUS
    <3>2. output'[c] = s \o AnswerTrace(response)
      BY <1>3, <2>2, <3>1
    <3>3. IsTold(s, k + 1, k, k, results) /\ Tells(StatusLine(response.status), results[k + 1])
      BY <1>7, <2>2, <3>1
    <3>4. IsTold(s \o AnswerTrace(response), k + 1, k + 1, k + 1, results)
      BY <3>3, TellAnswer
    <3> QED
      BY <3>2, <3>4
  <2> QED
    BY <2>1, <2>2
<1>9. Sent(c)' = 1..(k + 1)
  <2>1. k + 1 \in 1..(k + 1)
    OBVIOUS
  <2>2. \A n \in 1..MaxCalls : n \in Sent(c)' <=> n \in Sent(c)
    BY <1>2, <1>6, <2>1 DEF Sent
  <2> QED
    BY <1>2, <2>2 DEF Sent
<1>10. Over(c)' = 1..(k + 1)
  <2>1. \A n : n \in 1..(k + 1) <=> n \in 1..k \/ n = k + 1
    OBVIOUS
  <2>2. \A n \in 1..MaxCalls : n \in Over(c)' <=> n \in Over(c) \/ n = k + 1
    <3>1. ASSUME NEW n \in 1..MaxCalls PROVE n \in Over(c)' <=> n \in Over(c) \/ n = k + 1
      <4>1. CASE n = k + 1
        BY <1>6, <4>1 DEF Over, Sent
      <4>2. CASE n # k + 1
        BY <1>6, <4>2 DEF Over, Sent
      <4> QED
        BY <4>1, <4>2
    <3> QED
      BY <3>1
  <2> QED
    BY <1>2, <2>1, <2>2 DEF Over, Sent
<1>11. k + 1 \in 0..MaxCalls
  BY <1>2
<1> QED
  BY <1>5, <1>8, <1>9, <1>10, <1>11 DEF Traced

LEMMA OthersTraced ==
  ASSUME OutputInv, \A d \in Clients : Traced(d), NEW c \in Clients, NEW d \in Clients \ {c},
         \A j \in Ids : j[1] # c => Keeps(j),
         UNCHANGED output \/ \E lines : Say(c, lines)
  PROVE  Traced(d)'
<1>1. output'[d] = output[d]
  BY DEF Say, OutputInv
<1>2. ASSUME NEW n \in 1..MaxCalls PROVE Keeps(<<d, n>>)
  <2>1. <<d, n>> \in Ids /\ <<d, n>>[1] # c
    BY PairsAreIds
  <2> QED
    BY <2>1
<1> QED
  BY <1>1, <1>2, TracedStays

LEMMA ExecuteTraces ==
  ASSUME CallInv, OutputInv, TraceInv, NEW id \in Ids, TracedExecute(id)
  PROVE  AnswersRead' /\ \A d \in Clients : Traced(d)'
<1>1. PICK c \in Clients : c = id[1]
  BY IdsArePairs
<1>2. Execute(id) /\ ExecuteShape(id)
  BY ExecuteChanges DEF TracedExecute, Execute, CallInv
<1>3. /\ phase \in [Ids -> Phases] /\ outcome \in [Ids -> Results]
      /\ wire \in [Ids -> {"none", "request", "answer", "read"}]
  BY DEF CallInv, TypeInv, TypeOK
<1>4. IsConsistent(id) /\ phase[id] # "over" /\ outcome[id] = "none"
  <2>1. phase[id] # "over"
    BY <1>2 DEF Execute, Create, Send, NoResponse, ConnectionFails, Receive
  <2> QED
    BY <2>1 DEF TraceInv, CallsInOrder, CallInv, CallsAreConsistent
<1>5. \A j \in Ids : j # id => Keeps(j)
  BY <1>2 DEF ExecuteShape, Keeps
<1>6. AnswersRead'
  <2>1. wire[id] # "none" => wire'[id] # "none"
    BY <1>2, <1>3 DEF Execute, Create, Send, NoResponse, Receive, netVars
  <2>2. outcome'[id] \in {"returned", "false"} => wire'[id] = "read"
    <3>1. CASE Create(id)
      BY <1>3, <1>4, <3>1 DEF Create, Finish
    <3>2. CASE Send(id)
      BY <1>4, <3>2 DEF Send
    <3>3. CASE NoResponse(id)
      BY <1>3, <3>3 DEF NoResponse, ConnectionFails, Finish
    <3>4. CASE Receive(id)
      BY <1>3, <3>4 DEF Receive
    <3> QED
      BY <1>2, <3>1, <3>2, <3>3, <3>4 DEF Execute
  <2>3. ASSUME NEW j \in Ids
        PROVE  /\ outcome'[j] \in {"returned", "false"} => wire'[j] = "read"
               /\ j[2] < made'[j[1]] => wire'[j] # "none"
    <3>1. CASE j = id
      BY <1>2, <2>1, <2>2, <3>1 DEF ExecuteShape, TraceInv, AnswersRead
    <3>2. CASE j # id
      BY <1>2, <3>2 DEF ExecuteShape, TraceInv, AnswersRead
    <3> QED
      BY <3>1, <3>2
  <2> QED
    BY <2>3 DEF AnswersRead
<1>7. ASSUME NEW d \in Clients, d # c PROVE Traced(d)'
  <2>1. UNCHANGED output \/ \E lines : Say(c, lines)
    BY <1>1 DEF TracedExecute
  <2>2. \A j \in Ids : j[1] # c => Keeps(j)
    BY <1>1, <1>5
  <2> QED
    BY <1>7, <2>1, <2>2, OthersTraced DEF TraceInv
<1>8. Traced(c)'
  <2>1. CASE Create(id) /\ UNCHANGED output
    <3>1. wire' = wire /\ wire[id] = "none"
      BY <1>4, <2>1 DEF Create, netVars, IsConsistent
    <3>2. Keeps(id)
      BY <1>4, <3>1 DEF Keeps
    <3>3. \A n \in 1..MaxCalls : Keeps(<<c, n>>)
      BY <1>5, <3>2, PairsAreIds
    <3> QED
      BY <2>1, <3>3, TracedStays DEF TraceInv
  <2>2. CASE Send(id) /\ Say(id[1], <<StartHttp>>)
    BY <1>1, <2>2, SendTraces
  <2>3. CASE NoResponse(id) /\ Say(id[1], <<NoAnswerLine, EndHttp>>)
    <3>1. phase[id] = "wait" /\ Finish(id, "NoResponse") /\ wire' = wire
      BY <2>3 DEF NoResponse, ConnectionFails, netVars
    <3>2. wire'[id] # "none"
      BY <1>4, <3>1 DEF IsConsistent
    <3> QED
      BY <1>1, <2>3, <3>1, <3>2, EndTraces
  <2>4. CASE Receive(id) /\ Say(id[1], AnswerTrace(answer[id]))
    <3>1. /\ phase[id] = "wait" /\ Finish(id, ResultOf(call[id], answer[id]))
          /\ wire' = [wire EXCEPT ![id] = "read"]
      BY <2>4 DEF Receive
    <3>2. wire'[id] # "none" /\ \A j \in Ids \ {id} : wire'[j] = wire[j]
      BY <1>3, <3>1
    <3>3. Tells(StatusLine(answer[id].status), ResultOf(call[id], answer[id]))
      BY StatusTells
    <3> QED
      BY <1>1, <2>4, <3>1, <3>2, <3>3, EndTraces
  <2> QED
    BY <2>1, <2>2, <2>3, <2>4 DEF TracedExecute
<1> QED
  BY <1>6, <1>7, <1>8

LEMMA OthersKeepTraces ==
  ASSUME CallInv, TraceInv, UNCHANGED output, UNCHANGED <<made, phase, outcome>>,
         wire' = wire \/ \E id \in Ids : Serve(id)
  PROVE  AnswersRead' /\ \A d \in Clients : Traced(d)'
<1>1. ASSUME NEW j \in Ids
      PROVE  /\ wire'[j] # "none" <=> wire[j] # "none"
             /\ wire[j] = "read" => wire'[j] = "read"
  <2>1. wire \in [Ids -> {"none", "request", "answer", "read"}]
    BY DEF CallInv, TypeInv, TypeOK
  <2>2. ASSUME NEW id \in Ids, Serve(id)
        PROVE  wire[id] = "request" /\ wire' = [wire EXCEPT ![id] = "answer"]
    BY <2>2, ServeAnswers
  <2> QED
    BY <2>1, <2>2
<1>2. AnswersRead'
  BY <1>1 DEF TraceInv, AnswersRead
<1>3. \A j \in Ids : Keeps(j)
  BY <1>1 DEF Keeps
<1>4. ASSUME NEW d \in Clients PROVE Traced(d)'
  BY <1>3, PairsAreIds, TracedStays DEF TraceInv
<1> QED
  BY <1>2, <1>4

LEMMA StepTraces ==
  ReportInv /\ TraceInv /\ [MainNext]_<<vars, mainVars>> => TraceInv'
<1> SUFFICES ASSUME ReportInv, TraceInv, [MainNext]_<<vars, mainVars>> PROVE TraceInv'
  OBVIOUS
<1>1. CallInv /\ ControlInv /\ OutputInv
  BY DEF ReportInv, FileInv, RequestInv
<1>2. CallsInOrder'
  BY <1>1, MainStep, StepKeepsOrder DEF TraceInv
<1>3. AnswersRead' /\ \A d \in Clients : Traced(d)'
  <2>1. CASE \E c \in Clients : Main(c)
    BY <1>1, <2>1, MainTraces
  <2>2. CASE \E id \in Ids : TracedExecute(id)
    BY <1>1, <2>2, ExecuteTraces
  <2>3. CASE Environment /\ UNCHANGED mainVars
    <3>1. UNCHANGED output
      BY <2>3 DEF mainVars
    <3>2. CASE \E id \in Ids : Serve(id)
      BY <1>1, <3>1, <3>2, ServeAnswers, OthersKeepTraces
    <3>3. CASE (\E b \in Deletable : DeleteBucket(b)) \/ Tick
      <4>1. UNCHANGED <<made, phase, outcome, wire>>
        BY <3>3 DEF DeleteBucket, Tick, clientVars, callVars, netVars
      <4> QED
        BY <1>1, <3>1, <4>1, OthersKeepTraces
    <3> QED
      BY <2>3, <3>2, <3>3 DEF Environment
  <2>4. CASE Ended \/ UNCHANGED <<vars, mainVars>>
    <3>1. UNCHANGED <<made, phase, outcome, wire, output>>
      BY <2>4 DEF Ended, vars, mainVars, clientVars, callVars, netVars
    <3> QED
      BY <1>1, <3>1, OthersKeepTraces
  <2> QED
    BY <2>1, <2>2, <2>3, <2>4 DEF MainNext
<1> QED
  BY <1>2, <1>3 DEF TraceInv

LEMMA InitTraces == MainInit => TraceInv
<1> SUFFICES ASSUME MainInit PROVE TraceInv
  OBVIOUS
<1>1. ASSUME NEW id \in Ids
      PROVE  outcome[id] = "none" /\ wire[id] = "none" /\ ~(id[2] < made[id[1]])
  <2>1. outcome[id] = "none" /\ wire[id] = "none" /\ made[id[1]] = 0
    BY IdsArePairs DEF MainInit, Init
  <2>2. ~(id[2] < 0)
    BY IdsArePairs, BoundsAssumption
  <2> QED
    BY <2>1, <2>2
<1>2. CallsInOrder /\ AnswersRead
  BY <1>1 DEF CallsInOrder, AnswersRead
<1>3. ASSUME NEW c \in Clients PROVE Traced(c)
  <2>1. Sent(c) = {}
    BY <1>1, PairsAreIds DEF Sent
  <2>2. Over(c) = {} /\ 1..0 = {}
    BY <2>1 DEF Over
  <2>3. PICK s : s = output[c]
    OBVIOUS
  <2>4. s = << >>
    BY <2>3 DEF MainInit
  <2>5. IsSequence(s) /\ Len(s) = 0
    BY <2>4, ShortSequences
  <2>6. \A part : Count(s, part, 0) = 0
    BY <2>2, FS_EmptySet DEF Count
  <2>7. IsTold(s, 0, 0, 0, ResultsOf(c))
    <3>1. InOrder(0, 0, 0) /\ 0 \in Nat
      BY DEF InOrder
    <3> QED
      BY <2>2, <2>5, <2>6, <3>1 DEF IsTold
  <2> QED
    BY <2>1, <2>2, <2>3, <2>7, BoundsAssumption DEF Traced
<1> QED
  BY <1>2, <1>3 DEF TraceInv

(* The trace of a program (execute() with trace_ on) tells, bracket by     *)
(* bracket, each request it sent and how it ended, whatever answers the    *)
(* store and the connections gave, and in whatever order the programs ran. *)
THEOREM TracesTellOutcomes == MainSpec => []TraceTellsOutcomes
<1>1. ReportInv /\ TraceInv => TraceTellsOutcomes
  BY TracedMeans DEF ReportInv, TraceInv
<1> QED
  BY <1>1, InitTraces, StepTraces, ReportInvariant, PTL DEF MainSpec
=============================================================================
