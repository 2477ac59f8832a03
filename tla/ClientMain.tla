----------------------------- MODULE ClientMain -----------------------------
(***************************************************************************)
(* main() of client.cpp: programs that each use one MinioClient, with      *)
(* tracing on, to see that a file is in a bucket of the store they share.  *)
(*                                                                         *)
(* Every step of a program is one of MinioClient's, so this module adds to *)
(* that specification where main() is and what it has printed.  Of the     *)
(* lines of a trace it keeps those that bracket a request and those that   *)
(* tell its fate; the request line and the headers are left out.           *)
(***************************************************************************)
EXTENDS MinioClient

CONSTANTS Bucket, Object, File   \* the names and the file in main()

(* The bucket has a valid name, and the constructor is given no region.    *)
ASSUME MainAssumption ==
  /\ Bucket \in Buckets \ {""} /\ ValidBucketName(Bucket) /\ Object \in Objects /\ File \in Data
  /\ \A cfg \in Configs : cfg.region = ""
  /\ "" \in RegionArgs /\ Absent \in ContentTypes /\ MaxCalls >= 3

VARIABLES
  at,       \* of each program: the call main() is in
  output    \* of each program: the lines it has printed

mainVars == <<at, output>>

StartHttp  == <<"START-HTTP">>
EndHttp    == <<"END-HTTP">>
NoAnswerLine     == <<"<NO RESPONSE>">>
StatusLine(code) == <<"HTTP", code>>
ExistsLine       == <<"Bucket already exists.">>
UploadedLine     == <<"is successfully uploaded">>
ErrorLine(exception) == <<"error", exception>>
BodyLine(body)   == <<"body", body>>

Say(c, lines) == output' = [output EXCEPT ![c] = @ \o lines]

(***************************************************************************)
(* execute(), tracing                                                      *)
(***************************************************************************)

(* A mutant: the branch for an XML error does not end the trace. *)
ErrorTraceUnended(response) ==
  LET body == response.body
  IN  IF Extract(body, CodeTags) # << >> \/ Extract(body, MessageTags) # << >>
      THEN << >>
      ELSE IF body # << >> THEN <<BodyLine(body), EndHttp>> ELSE <<EndHttp>>

(* handleError: an XML error is not printed, any other body is. *)
ErrorTrace(response) ==
  LET body == response.body
  IN  IF Extract(body, CodeTags) # << >> \/ Extract(body, MessageTags) # << >>
      THEN <<EndHttp>>
      ELSE IF body # << >> THEN <<BodyLine(body), EndHttp>> ELSE <<EndHttp>>

AnswerTrace(response) ==
  <<StatusLine(response.status)>> \o
    IF IsSuccessful(response) THEN <<EndHttp>> ELSE ErrorTrace(response)

(* A mutant: the answer of a store that is busy (503) is dropped, and the  *)
(* request sent again.                                                     *)
IsBusy(id) == wire[id] = "answer" /\ answer[id].status = 503

TracedExecuteRetry(id) ==
  /\ \/ Create(id) /\ UNCHANGED output
     \/ Send(id) /\ Say(id[1], <<StartHttp>>)
     \/ NoResponse(id) /\ Say(id[1], <<NoAnswerLine, EndHttp>>)
     \/ ~IsBusy(id) /\ Receive(id) /\ Say(id[1], AnswerTrace(answer[id]))
     \/ /\ IsBusy(id) /\ phase[id] = "wait" /\ wire' = [wire EXCEPT ![id] = "request"]
        /\ UNCHANGED <<clientVars, callVars, answer, storeVars, clock, output>>
  /\ UNCHANGED at

TracedExecute(id) ==
  /\ \/ Create(id) /\ UNCHANGED output
     \/ Send(id) /\ Say(id[1], <<StartHttp>>)
     \/ NoResponse(id) /\ Say(id[1], <<NoAnswerLine, EndHttp>>)
     \/ Receive(id) /\ Say(id[1], AnswerTrace(answer[id]))
  /\ UNCHANGED at

(***************************************************************************)
(* main()                                                                  *)
(***************************************************************************)

(* The call that main() is in, or made last. *)
Current(c) == <<c, made[c]>>

(* That call is over, with the given outcome. *)
After(c, step, result) == at[c] = step /\ phase[Current(c)] = "over" /\ outcome[Current(c)] = result

GoTo(c, step) == at' = [at EXCEPT ![c] = step]

(* Without one of the three arguments main() prints how to use it, and an  *)
(* endpoint that the constructor rejects ends in the catch clause.         *)
Usage(c) ==
  /\ at[c] = "begin" /\ "" \in {config[c].host, config[c].accessKey, config[c].secretKey}
  /\ GoTo(c, "over") /\ Say(c, <<ErrorLine("usage")>>)
  /\ UNCHANGED vars

BadEndpoint(c) ==
  /\ at[c] = "begin" /\ "" \notin {config[c].host, config[c].accessKey, config[c].secretKey}
  /\ GoTo(c, "over") /\ Say(c, <<ErrorLine("InvalidEndpoint")>>)
  /\ UNCHANGED vars

Begin(c) ==
  /\ at[c] = "begin" /\ "" \notin {config[c].host, config[c].accessKey, config[c].secretKey}
  /\ BucketExists(c, Bucket)
  /\ GoTo(c, "bucketExists") /\ UNCHANGED output

(* A mutant: makeBucket is called whatever bucketExists returned. *)
BucketIsMissingAlways(c) == \E r \in {"false", "returned"} : After(c, "bucketExists", r)

BucketIsMissing(c) == After(c, "bucketExists", "false")

BucketIsThere(c) ==
  /\ After(c, "bucketExists", "returned")
  /\ PutObject(c, Bucket, Object, File, Absent)
  /\ GoTo(c, "putObject") /\ Say(c, <<ExistsLine>>)

MakeMissingBucket(c) ==
  /\ BucketIsMissing(c)
  /\ MakeBucket(c, Bucket, "")
  /\ GoTo(c, "makeBucket") /\ UNCHANGED output

BucketIsMade(c) ==
  /\ After(c, "makeBucket", "returned")
  /\ PutObject(c, Bucket, Object, File, Absent)
  /\ GoTo(c, "putObject") /\ UNCHANGED output

(* A mutant: an exception of putObject does not keep main() from going on. *)
UploadIsDoneAnyway(c) == \E r \in Results : After(c, "putObject", r)

UploadIsDone(c) == After(c, "putObject", "returned")

Report(c) ==
  /\ UploadIsDone(c)
  /\ GoTo(c, "over") /\ Say(c, <<UploadedLine>>)
  /\ UNCHANGED vars

(* Every exception is a std::exception: main() prints it and returns 0. *)
Catch(c) ==
  /\ \E step \in {"bucketExists", "makeBucket", "putObject"}, e \in Exceptions :
       After(c, step, e) /\ Say(c, <<ErrorLine(e)>>)
  /\ GoTo(c, "over")
  /\ UNCHANGED vars

Main(c) ==
  \/ Usage(c) \/ BadEndpoint(c) \/ Begin(c)
  \/ BucketIsThere(c) \/ MakeMissingBucket(c) \/ BucketIsMade(c)
  \/ Report(c) \/ Catch(c)

(***************************************************************************)
(* The specification                                                       *)
(***************************************************************************)

MainInit ==
  /\ Init
  /\ at = [c \in Clients |-> "begin"]
  /\ output = [c \in Clients |-> << >>]

(* Every program has ended. *)
Ended == (\A c \in Clients : at[c] = "over") /\ UNCHANGED <<vars, mainVars>>

MainNext ==
  \/ \E c \in Clients : Main(c)
  \/ \E id \in Ids : TracedExecute(id)
  \/ Environment /\ UNCHANGED mainVars
  \/ Ended

MainSpec == MainInit /\ [][MainNext]_<<vars, mainVars>>

(* The programs run; the rest is as in MinioClient. *)
MainFairSpec ==
  MainSpec /\ Fairness /\ \A c \in Clients : WF_<<vars, mainVars>>(Main(c))

(***************************************************************************)
(* Properties                                                              *)
(***************************************************************************)

Printed(c, line) == \E i \in DOMAIN output[c] : output[c][i] = line

Steps == {"begin", "bucketExists", "makeBucket", "putObject", "over"}

(* Where main() is tells which calls it has made: makeBucket only after    *)
(* bucketExists denied the bucket, putObject after whichever was last.     *)
MainTypeOK ==
  /\ at \in [Clients -> Steps]
  /\ \A c \in Clients :
       /\ at[c] = "begin" => made[c] = 0
       /\ at[c] \in {"bucketExists", "makeBucket", "putObject"} =>
            made[c] \in 1..MaxCalls /\ call[Current(c)].op = at[c]
       /\ \A n \in 1..MaxCalls :
            call[<<c, n>>].op = "makeBucket" => n = 2 /\ outcome[<<c, 1>>] = "false"

(* "successfully uploaded" is printed only when the object holds the file, *)
(* whatever the other programs and the connections did (client.cpp:68-71). *)
SuccessMeansStored ==
  \A c \in Clients : Printed(c, UploadedLine) => content[<<Bucket, Object>>] = <<"data", File>>

(* The requests a program has sent, and those that are over.               *)
Sent(c) == {n \in 1..MaxCalls : wire[<<c, n>>] # "none"}
Over(c) == {n \in Sent(c) : phase[<<c, n>>] = "over"}

(* What a line is in a trace.                                              *)
Part(line) ==
  IF line = StartHttp THEN "begin"
  ELSE IF line = EndHttp THEN "end"
  ELSE IF line = NoAnswerLine \/ line[1] = "HTTP" THEN "fate"
  ELSE "other"

(* How many such lines there are among the first i.                        *)
Count(lines, part, i) == Cardinality({j \in 1..i : Part(lines[j]) = part})

(* A line tells the fate that the call's outcome says.                     *)
Tells(line, result) ==
  /\ line = NoAnswerLine <=> result = "NoResponse"
  /\ line[1] = "HTTP" /\ line[2] \in 200..299 <=> result = "returned"

(* The trace of a program has one bracket for each request it sent, open   *)
(* while execute() waits and never inside another; in it stands, before    *)
(* its end, the fate of that request.                                      *)
TraceTellsOutcomes ==
  \A c \in Clients :
    LET lines == output[c]
    IN  /\ Count(lines, "begin", Len(lines)) = Cardinality(Sent(c))
        /\ \A part \in {"fate", "end"} : Count(lines, part, Len(lines)) = Cardinality(Over(c))
        /\ \A i \in 1..Len(lines) :
             /\ Count(lines, "end", i) <= Count(lines, "fate", i)
             /\ Count(lines, "fate", i) <= Count(lines, "begin", i)
             /\ Count(lines, "begin", i) <= Count(lines, "end", i) + 1
        /\ \A i \in 1..Len(lines) : Part(lines[i]) = "fate" =>
             Tells(lines[i], outcome[<<c, Count(lines, "fate", i)>>])

(* What keeps a program from uploading whoever else there is: its          *)
(* arguments or its file, a broken connection, a second that passes while  *)
(* a request is made, a failure of the store, or another user who deleted  *)
(* the bucket before the upload.                                           *)
Excused(c) ==
  \/ ~GoodCredentials(config[c])
  \/ \E e \in {"usage", "InvalidEndpoint", "RuntimeError", "NoResponse", "ReadFailed"} :
       Printed(c, ErrorLine(e))
  \/ \E n \in 1..MaxCalls :
       \/ wire[<<c, n>>] # "none" /\ StampedAt(request[<<c, n>>]) # SignedAt(request[<<c, n>>])
       \/ \E f \in Faults : answer[<<c, n>>].status = f.status
       \/ call[<<c, n>>].op = "putObject" /\ found[<<c, n>>] = "absent"

(* Any other failure is that of a makeBucket, because another program made *)
(* the bucket after this one had asked for it (client.cpp:60-65).          *)
FailsOnlyWhenOvertaken ==
  \A c \in Clients : at[c] = "over" /\ ~Printed(c, UploadedLine) /\ ~Excused(c) =>
    /\ call[Current(c)].op = "makeBucket" /\ found[<<c, 1>>] = "absent"
    /\ \E i \in Ids : i[1] # c /\ call[i].op = "makeBucket" /\ served[i] = 1

(* Every program ends, and however they race for the bucket one of them    *)
(* has uploaded the file, or has an excuse.                                *)
SomeoneUploads ==
  <>(/\ \A c \in Clients : at[c] = "over"
     /\ \E c \in Clients : Printed(c, UploadedLine) \/ Excused(c))
=============================================================================
