--------------------------- MODULE ErrorResponses ---------------------------
(***************************************************************************)
(* How the client turns a failed HTTP response into an exception:          *)
(* extract() and MinioClient::handleError() of minioclient.cpp, and the    *)
(* ErrorCode and ErrorResponseException classes of minioexceptions.h.      *)
(*                                                                         *)
(* A response body is a sequence of tokens: the four XML tags the client   *)
(* looks for, and pieces of text that hold none of them.                   *)
(***************************************************************************)
EXTENDS Naturals, Sequences, FiniteSetsExt

CodeTags    == [open |-> "<Code>",    close |-> "</Code>"]
MessageTags == [open |-> "<Message>", close |-> "</Message>"]

(* ErrorCode::Code, without NO_ERROR, which no exception carries. *)
ErrorCodes == {"NO_SUCH_BUCKET", "NO_SUCH_KEY", "RESOURCE_NOT_FOUND", "REDIRECT",
               "INVALID_URI", "METHOD_NOT_ALLOWED", "RESOURCE_CONFLICT",
               "ACCESS_DENIED", "UNKNOWN_ERROR"}

(* Positions of token t in a body, from position `from` on (std::string::find). *)
Occurrences(source, t, from) == {i \in DOMAIN source : i >= from /\ source[i] = t}

(* A mutant: the end tag is searched from the start of the body. *)
CloseFromStart(source, tags, from) == Occurrences(source, tags.close, 1)
(* A mutant: the end tag is searched backwards (rfind). *)
CloseLast(source, tags, from) ==
  {i \in Occurrences(source, tags.close, from) :
     \A j \in Occurrences(source, tags.close, from) : j <= i}

(* Candidates for the closing tag: those after the opening one. *)
ClosingTags(source, tags, from) == Occurrences(source, tags.close, from)

(* The text between the first opening tag and the first closing tag after  *)
(* it; empty when there is no such pair.                                   *)
Extract(source, tags) ==
  LET opens  == Occurrences(source, tags.open, 1)
      closes == ClosingTags(source, tags, Min(opens) + 1)
  IN  IF opens = {} \/ closes = {}
      THEN << >>
      ELSE SubSeq(source, Min(opens) + 1, Min(closes) - 1)

(* The two constructors of ErrorResponseException: from the server's XML   *)
(* only NoSuchBucket is recognised.                                        *)
CodeOfXml(ecode) == IF ecode = <<"NoSuchBucket">> THEN "NO_SUCH_BUCKET" ELSE "UNKNOWN_ERROR"

(* A mutant: a missing break lets case 400 fall through into case 404. *)
CodeOfStatusFallsThrough(objectName, bucketName, status) ==
  CASE status \in {400, 404} -> IF objectName # "" THEN "NO_SUCH_KEY" ELSE "NO_SUCH_BUCKET"
    [] status = 403 -> "ACCESS_DENIED"
    [] OTHER -> "UNKNOWN_ERROR"

(* A mutant: the code is left as ErrorCode's default constructor sets it. *)
CodeOfStatusDefault(objectName, bucketName, status) ==
  IF status = 404 THEN "NO_SUCH_BUCKET" ELSE "NO_ERROR"

(* The switch over the HTTP status, for a body without an XML error. *)
CodeOfStatus(objectName, bucketName, status) ==
  CASE status = 307 -> "REDIRECT"
    [] status = 400 -> "INVALID_URI"
    [] status = 404 -> IF objectName # "" THEN "NO_SUCH_KEY"
                       ELSE IF bucketName # "" THEN "NO_SUCH_BUCKET"
                       ELSE "RESOURCE_NOT_FOUND"
    [] status \in {501, 405} -> "METHOD_NOT_ALLOWED"
    [] status = 409 -> IF bucketName # "" THEN "NO_SUCH_BUCKET" ELSE "RESOURCE_CONFLICT"
    [] status = 403 -> "ACCESS_DENIED"
    [] OTHER -> "UNKNOWN_ERROR"

(* handleError: the XML error decides when either of its elements is there. *)
HandleError(objectName, bucketName, response) ==
  LET ecode == Extract(response.body, CodeTags)
      emsg  == Extract(response.body, MessageTags)
  IN  IF ecode # << >> \/ emsg # << >>
      THEN CodeOfXml(ecode)
      ELSE CodeOfStatus(objectName, bucketName, response.status)
=============================================================================
