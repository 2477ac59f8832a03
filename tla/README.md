# A verification of minioclient-cpp

TLA+ models of the S3 client in `src/`, the TLC runs that check them and the
TLAPS proofs about them. Paths below are relative to `src/`.

## The system

| Component | State | Operations | Interacts with |
|---|---|---|---|
| MinioClient (`minioclient.cpp`, `.h`) | `region_`, `accessKey_`, `secretKey_`, `baseUrl_`, `traceStream_`, `httpClient_` | `makeBucket`, `bucketExists`, `putObject`, `forwardObject`, `traceOn`; all network traffic through `execute` | everything below |
| Request building (`createRequest`, `checkBucketName`) | none | checks names, digests the body, sets headers, stamps `x-amz-date` | Digest, DateTime |
| Signer (`aws_signer.cpp`) | the fields its setters fill | `signV4` | Digest, DateTime |
| DateTime (`datetime.cpp`) | the second it was made in; `gmtime`'s static buffer | `toString`, `parseDateTime` | the clock |
| Digest (`digest.hpp`) | none | SHA-256, MD5, HMAC | OpenSSL |
| Error responses (`extract`, `handleError`, `minioexceptions.h`) | none | from a failed response to an exception | the response |
| Files (`files.h`) | none | `readAll`: size, then contents | the file system |
| Command-line client (`client.cpp`) | none | `bucketExists`, then `makeBucket` or not, then `putObject`, with a trace | MinioClient |
| LogPrinter, ServerSideEncryption, DataObject | output only; no-op; unused | | |
| HTTP library, object store | external (an empty submodule; a service) | one request, one answer | |

The repository has no tests. What is hard in it:

* **Failure.** `execute` catches every exception of the connection and throws
  `NoResponseException`. The caller then does not know whether the store has
  carried the request out, or will.
* **Time.** The clock is read once for the `x-amz-date` header and again for the
  signature, since `parseDateTime` ignores its argument. Each time is formatted
  through a structure that all threads share.
* **Order of calls.** `getRegion` sets `region_`; `makeBucket` only compares
  with it.
* **Sharing.** Several clients use one store; a bucket may appear or go between
  a client's question and its next call. A file may change while it is read.
* **Guesses.** The answer to a HEAD has no body: its reason is guessed from the
  status and the names.
* **Encoding.** A proxy takes names from an encoded path and encodes them again.

What makes each component correct: MinioClient, that what a call returns or
throws is true of the store, and that no request is sent twice; request building
and Signer, that a request with good credentials is accepted, and names the
object it should; error responses, that the first error element is what decides;
Files, that what is uploaded is a content the file had; the command-line client,
that it says "successfully uploaded" only when that is so, and that the programs
that race for a bucket do not all lose.

## The modules

* `ErrorResponses`: `extract`, `handleError` and the exception classes. A body
  is a sequence of tokens, the four tags and pieces of text without a tag.
* `Requests`: which names are refused and which headers a request carries.
  Digests are injective; a path is the pair of its bucket and object.
* `DateTime`: a second, the two fields it is written with, and `parseDateTime`.
* `Signer`: `signV4`, one operator per setter. Its hashes are injective too: a
  signature is the record of what went into it, so that the store can compare.
* `S3Server`: the store, as far as the client relies on it (external): it
  recomputes the signature from what arrived and compares the digests.
* `RemoteCalls`: the abstract specification of a call. It is open until it is
  done (it was carried out), refused (it was not and never will be) or unknown
  (it may yet be, once).
* `MinioClient`: clients, connections, the store and the clock. The state of a
  client is `config` (constructor arguments), `region` (`region_`) and `made`.
  Call `<<c, n>>`, the n-th of client c, goes through the phases below; the
  environment may step between any two.

  | phase | action that leaves it | code |
  |---|---|---|
  | unused | `BucketExists`, `MakeBucket`, `PutObject`, `ForwardObject` (they start `execute`, or throw) | `minioclient.cpp:71-165, 168-310` |
  | create | `Create` | `:440`, `createRequest` |
  | sign | `Send` | `:444-462` |
  | wait | `Receive`, `NoResponse` | `:462-490` |

  The environment is `Serve` (the store fails, denies or obeys a request),
  `DeleteBucket` and `Tick`. A request that is never served was lost; one that
  is served after `NoResponse` was late.
* `ClientMain` EXTENDS `MinioClient`: `main()` of `client.cpp`, any number of
  programs on one store. Each step of a program is one of `MinioClient`'s
  together with where `main()` is (`at`) and what it has printed (`output`):
  `main()`'s own lines, and of a trace the lines that begin and end a request
  and those that tell its fate.
* `Files`: `readAll`, one action per thing it asks of the file (open, `tellg`,
  allocate, parts of `read`), against processes that append to the file, cut it,
  overwrite it, put another in its place or remove it.
* `DateThreads` EXTENDS `DateTime`: threads that each format the four strings of
  a signed request. `gmtime` writes and `strftime` reads the shared structure
  field by field, in any order, since nothing synchronizes them: a data race,
  modelled by every order of these accesses.
* `Paths`: how names become the path of a URL (`createRequest`) and how they
  are split out of it. A string is the sequence of the texts between its slashes,
  and an escaped character is one character with the number of its escapes, so
  that only the characters in `Special` have any. `split` and the escaper belong
  to the HTTP library (external): `split` has no empty text at either end, and may
  keep those in the middle or not; an escape is taken to put three bytes for one
  ("%25" for "%"), which `Size` counts and `checkBucketName` limits.
* `Forwarding` EXTENDS `Paths`: an upload on its way from `putObject` through
  proxies that call `forwardObject`, to the store. The client and every proxy call
  `createRequest`, and so `checkBucketName` on the bucket as it has arrived there,
  escapes included; either may refuse ("invalid bucket"), and a proxy also a path
  that is not a bucket and one object ("not a mandatory URI").
* `MCMinioClient`, `MCClientMain`, `MCForwarding`, `MCErrorResponses`: values of
  the constants for TLC; the last also lets a body arrive token by token and
  states what `extract` is to find.
* `RemoteCalls_proofs`, `MinioClient_proofs` (types and the refinement),
  `MinioReports_proofs` (what is sent, what callers are told and what is stored),
  `ClientMain_proofs`, `ErrorResponses_proofs`, `Files_proofs`,
  `DateThreads_proofs`, `Forwarding_proofs`: theorems. `ClientMain_proofs` extends
  `MinioReports_proofs`, which extends `MinioClient_proofs`.

How they compose: `MinioClient` over `S3Server` over `Signer` over `Requests`
and `DateTime`, with `ErrorResponses` for the answers; `ClientMain` over that.
`MinioClient` takes the result of `readAll` for any file or an exception, which
is what `Files` allows, and a DateTime for the clock, which is what `DateThreads`
allows to a thread that is not disturbed. Its outcome "ReadFailed" stands for
every exception of `putObject` before it sends (`invalid_argument` of an empty
name, `length_error` and `runtime_error` of `readAll`): in none of them is there a
request, and no property of `MinioClient` or `ClientMain` tells them apart;
`Files` does.

## What the runs check

| Run | Question | Bounds |
|---|---|---|
| `race` | `KeepsPromise`: is what a call reports true of the store, for every loss, delay and interleaving? `CarriedOutOnce`; `LastUploadWins`: what does an object hold? | 2 clients (up to symmetry), 2 calls each, 1 bucket that may be there at first and be deleted, 1 object, 2 files |
| `settings` | `TypeOK`, `BucketReportsAreTrue`, `AuthenticUnlessClockMoved`, `OneHomeRegion`, for every kind of configuration and argument | 1 client of 5 configurations (plain with and without region, TLS, wrong key, anonymous), 2 calls, valid, invalid and empty bucket names, 3 region arguments, with and without a content type, a size below and one above the limit, status 503, 2 seconds |
| `errors` | `ExtractsFirstElement`, `CodeIsFinal` | all bodies of up to 5 tokens |
| `programs` | `SuccessMeansStored`, `TraceTellsOutcomes`, `FailsOnlyWhenOvertaken`, `SomeoneUploads`, `CallsEnd`, `MainTypeOK`: what programs print, whether all can lose the race, and whether every call ends | 2 programs, each with good, wrong or missing keys, a bucket that may be there at first and be deleted, status 503 without and 502 with a body |
| `files` | `SnapshotUnlessRewritten`, `FailsOnlyForCause`, `ReadEnds`, `TypeOK` | files of up to 3 bytes of 2 kinds, 2 files, any number of changes |
| `dates` | `CoherentUnlessDisturbed`: what spoils a signature? | 2 threads, 3 seconds, the day ends after the second |
| `paths` | `StoredUnderItsName`, `RefusedByRule` | all names of up to 4 texts, of up to 2 characters of 2 kinds; 7 buckets of 2 to 64 characters, with and without one to escape; up to 3 proxies; `split` that keeps inner empty texts and one that does not |
| `clock` | finding: `GoodCredentialsSuffice` fails | 1 call, 2 seconds |
| `conflict` | finding: `ConflictOnlyWithConstructor` fails | 1 call |
| `busy_bucket` | finding: `BucketReportsAreTrue` fails when 409 answers a HEAD | 1 call |
| `forwarded` | finding: `ForwardedUnderItsName` fails | 1 proxy, names of up to 2 texts |
| `long_bucket` | finding: `LegalBucketsPass` fails | 2 proxies, a bucket of 60 characters |

Why the bounds are enough: calls of different clients meet only in the store,
so two of them show every order of two effects; within a client, two calls show
what the first leaves behind (`region_`, a late request), and `main()` makes no
more than three. Two seconds are enough to separate the two readings of the
clock, three to let the day differ as well as agree. Two threads are the one that
formats and the one that disturbs it. Three bytes are a file that is cut or grows
in the middle of two parts of a read. Four texts hold two segments with slashes
between or around them, and two characters one that is escaped beside one that is
not; the second proxy shows that what the first does is repeated. The buckets are
at the limits of `checkBucketName`: too short, refused by nobody, by the second
proxy, by the first, and too long from the start. Five tokens hold an element, a second tag of the same kind and
a tag of the other kind. `errors` switches the deadlock check off, as it stops
when the body is at its bound; in the other modules the end is an action
(`Terminated`, `Ended`, `Signed`, `Over`), so that any other stop is an error, and
in `Files` the others never stop.

Assumptions about the environment. The store answers a request it was sent, and
an answer other than 2xx means that the request had no effect (`FaultsAssumption`;
a store that fails after it has acted would make any exception meaningless).
A connection delivers a request at most once. A client is used by one thread, as
the class has no lock. Objects are not deleted, and a bucket only when it is
empty.

Fairness. In `programs` `main()` runs, and the thread of a call, so `Create` and
`Send` happen; and a wait ends: an answer comes and is received, or the connection
breaks. The code sets no timeout (`minioclient.cpp:36-43` is commented out), so
the last one is an assumption about TCP and the HTTP library; without it
`CallsEnd` is false. In `files` the thread in `readAll` runs, which is enough: the
others may change the file for ever. Nothing makes a user delete or the clock move.

In `programs` the clock stands still: a second that passes while a request is made
is one more way for a program to fail, which `Excused` names; with two seconds the
states are four times as many. The invariants do not depend on it:
the theorems about programs are for a clock that moves.

## What is found

* `clock`: a request stamped in one second and signed in the next is rejected by
  the store; `datetime.cpp:31` ignores the header that `aws_signer.cpp:29` passes.
  `AuthenticUnlessClockMoved` says that this is the only reason.
* `conflict`: `makeBucket(name, "us-east-1")` throws on a new client, but works
  after `bucketExists`; the comment at `minioclient.cpp:77` speaks of a region the
  constructor has set.
* `busy_bucket`: a bodyless 409 becomes NO_SUCH_BUCKET (`minioclient.cpp:580-582`),
  and `bucketExists` returns false for a bucket that exists.
* `forwarded`: a proxy escapes a name that is escaped already
  (`minioclient.cpp:152, 662`), once per proxy. `StoredUnderItsName` says exactly
  what name results; it also shows that a proxy drops the slash at the end of a
  name, which `createRequest` takes care to keep (`:665-669`), and that a name of
  slashes only is the bucket's own path.
* `long_bucket`: the bucket that a proxy escapes is checked by the next one, so
  that a name may pass one proxy and not two. One of 60 characters with a "%" has
  62 bytes at the first proxy and 64 at the second, which refuses it
  (`minioclient.cpp:151, 621, 774`). `RefusedByRule` says exactly which requests
  get how far.

Observed on the way, without a run of their own: `readAll` of a file that is not
there throws `std::length_error` (a buffer of -1 bytes, `files.h:25`), not "could
not read file" (`Files!Allocate`; `FailsOnlyForCause` says that it has no other
reason); a program that loses the race for a bucket prints an error and never
uploads, though the bucket is there (`FailsOnlyWhenOvertaken`); the constructor takes port 0, though its message says
"1 to 65535" (`minioclient.cpp:30-32`); it moves its caller's HttpClient before it
rejects an endpoint with a path (`:35`).

## What is proved

For every number of clients and calls, all configurations, names, sizes, regions
and faults, from the assumptions named in the modules (faults are not 2xx,
object names are not empty, the bounds are natural numbers):

* `TypeCorrect`: `Spec => []TypeOK`. Inductive with `BodiesFitObjects`: a bucket
  request carries a bucket's body, so that the region a bucket is made in is one
  of the model's and not a piece of a file.
* `CallsCarriedOutOnce`: `Spec => []CarriedOutOnce`. Not inductive alone: that
  `served` is 0 when a request is served needs `CallsAreConsistent`, which ties a
  call's phase to what its connection carries, to `served` and to its outcome.
* `Refinement`: `Spec => KeepsPromise`, from the same invariant. `Start` maps to
  `Invoke`, the throwing steps to `Refuse`, a successful answer to `CarryOut`,
  `NoResponse` to `LoseTrack`, `Receive` to `Return` or `Refuse`, all else to
  stuttering.
* `OutcomesStayTrue`: what `RemoteCalls` promises implies that no definite outcome
  is ever false.
* `BucketsAreMadeAtHome` (`OneHomeRegion`) and `SignaturesAreAuthentic`
  (`AuthenticUnlessClockMoved`), from `RequestInv`: every request is the one that
  `createRequest` made of its call at some time t, and `signV4` of that at some
  u (`IsMade`), and a call in `execute()` was passed the region that `getRegion`
  gives, or, of `makeBucket`, a body that asks for it (`IsPassed`). Neither
  property is inductive: a request says nothing of the client's region, and an
  authentic one is so for how it was made. What `getRegion` latches is what it has
  returned (`HomeStays`), and `makeBucket` conflicts with every other region.
  `SignedIsAuthentic` compares the two signatures, u's and the store's of t:
  setting the Authorization header changes nothing that is signed, and the scopes
  and texts differ exactly when the times do. `StepCases` and `CallPasses` say
  once what the steps can do; the theorems below use them too.
* `BucketsAreReportedTruly`: `BucketReportsAreTrue`, assuming `HonestFaults`: no
  fault has status 404 or 409 or the error NoSuchBucket. `settings` has such
  faults, and `busy_bucket` shows what one other does. The invariant
  (`IsReported`) says it of the answer already when it arrives, since the bucket
  may be gone when it is read; and an answer of 200 to `bucketExists` is one to a
  request signed for the bucket's region, which `RequestInv` shows to be a name.
* `UploadsAreNotLost`: `LastUploadWins`. It is not inductive, as it speaks of what
  callers know: `StoreInv` says of the uploads that were carried out that one of
  them left its file and that it is its client's latest, unless its caller saw
  NoResponseException. It needs `CallsInOrder`: a thread makes one call at a time,
  so that when an upload is carried out for a caller that waits, no later one of
  this client can have been.
* `FirstElementIsExtracted` (`ExtractsFirstElement`) and `CodesAreFinal`
  (`CodeIsFinal`) for bodies of every length. `std::string::find` is the least
  position, and that a set of positions has one is `LeastPosition`, from the
  library's well-founded induction over the relation `<`.
* `ProgramsAreClients`: `MainSpec => Spec`, each step of `main()` being a call or
  no step of `MinioClient`; so `ProgramsAreToldTheTruth` follows from the above.
* `MainTypeCorrect`, `ReportsAreTrue`: `MainSpec => []MainTypeOK` and
  `MainSpec => []SuccessMeansStored`, for any number of programs. The invariant
  ties where `main()` is to the calls it has made (`Control`), a call of its program
  to the bucket and the file (`CallFits`), and a carried-out upload to the object
  (`UploadIsStored`): all uploads are of the same file, so that none can undo another.
* `FailuresHaveReasons`: `MainSpec => []FailsOnlyWhenOvertaken`, for any number of
  programs and a clock that moves, assuming that the buckets that are there at first
  are in us-east-1; in another region every program would fail, since `main()`
  constructs its client without one (`MainAssumption`). The property speaks of a
  program that is over, and its reason may be two calls old, so that the invariant
  keeps it: `AnswerTells` says why the store answered as it did (it failed, the
  signature was wrong, the bucket was missing, or it conflicted), `OutcomeTells`
  that what the call threw is `handleError`'s word on that answer, and `EndTells`
  that a program ends with the exception of its last call. That a conflict is the
  doing of another program needs two facts more: a bucket that was once missing and
  is there was made by some call (`MissingWasMade`), and it was not the program's
  own, since it calls `makeBucket` once and only after `bucketExists` (`Control`).
  Last, that `bucketExists` returned false means that the store saw no bucket: the
  request of a program without an excuse is authentic, by `SentIsAuthentic`, from
  which `SignaturesAreAuthentic` follows too.
* `FilesTypeCorrect`, `ReadsSnapshots`, `FailsForCause`: about `readAll` for files
  of every length. The invariant says that unless bytes were written in place,
  the buffer and what is left of the file both agree with the file as it was
  measured, and that the file is shorter than that only when it was cut; one lemma
  (`ChangeInv`) covers every change that others make.
* `SignaturesFitUnlessDisturbed`: `CoherentUnlessDisturbed` for any number of
  threads and any length of a day. While nobody disturbs a thread, what it still
  needs of the shared structure, and what it has read of it, is of its own time.

* `TracesTellOutcomes`: `MainSpec => []TraceTellsOutcomes`, for any number of
  programs. The property counts lines, and a count says nothing of the next line;
  the invariant (`Traced`) is that a program has sent its first b calls, that the
  first e of these are over, and that its lines tell exactly this, begins, fates
  and ends in order (`IsTold`); each kind of step then adds none, one or two lines.
  That the calls are sent and end in their order is `CallsInOrder` and
  `AnswersRead`: a program in `main()` that goes on to its next call has read the
  answer to the one before, so that a call is never begun inside another's bracket.
* `NamesAreStored` (`StoredUnderItsName`) and `RefusalsHaveRules`
  (`RefusedByRule`), for buckets of any length, names of any number of texts and any
  number of proxies. The invariant says of a request that was sent (`PathInv`) that
  its path is the bucket and the segments of the name, escaped once for each client
  or proxy that built it, and of every outcome (`PassInv`) which checks of the
  bucket came before it. What the n-th proxy checks is the bucket escaped n times
  (`FitsMeans`), whose bytes are its characters and two more per escape:
  `SizeOfEscaped`, from the cardinalities of products and disjoint unions, so that
  no induction is needed. The path rests on
  `SplitInvertsPath`: what `split` takes from a path is what `PathOf` put there,
  provided that the first and the last text are not empty (`Solid`), as they are in
  everything that `split` returns. The k-th of a set of positions exists and is
  unique because counting those up to a position is an injection of the set into
  1..n (`NthIsThere`, `NthIsUnique`).

Only model-checked: liveness (`CallsEnd`, `SomeoneUploads`, `ReadEnds`), which is
out of the prover's reach with `ENABLED`. Every invariant and every safety property
of the passing runs is proved.

## What is not modelled, and the plan

What remains of the code that runs: that the constructor moves its caller's
HttpClient (what a moved one still does is up to the library), the query strings
that no public operation uses, the request line and headers in a trace, the parsing of
options by argp, and `Files::size`, which nothing calls.

Left out for good: `serversideencryption.cpp` and the multipart code (excluded by
`#if 0`), `dataobject.h` (unused), the bits of the hashes and of base64, the
wording of messages, and the ENCLAVED build's proxies of the C library.
