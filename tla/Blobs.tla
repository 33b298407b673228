-------------------------------- MODULE Blobs --------------------------------
(***************************************************************************)
(* The upload of one blob: its metadata row, its bytes, the prefix staged  *)
(* by a chunked upload and its `blob.process` jobs, as the handlers of     *)
(* crates/frick-server/src/routes/blobs.rs and blob_processors/mod.rs use  *)
(* them.  Clients of one owner upload it whole or in chunks; requests run  *)
(* side by side, a step is one statement, a statement may fail and a       *)
(* request may be dropped after any of them.  The client is not part of    *)
(* the repository: it does what the answers tell it.                       *)
(*                                                                         *)
(* A content is a sequence of parts <<v, i>>, part i of the file v; it     *)
(* stands for its own sha256 hash and its length is its byte length.       *)
(***************************************************************************)
EXTENDS Naturals, Sequences

CONSTANTS
    Clients,
    Versions,      \* the files a client may upload under the blob's id
    Refused,       \* the ones a validator rejects
    Parts,         \* chunks of a file
    None,          \* no row, no bytes, no request
    MaxBlobFaults  \* bound: failed statements, dropped requests, timeouts

ASSUME BlobAssumption ==
    /\ Refused \subseteq Versions /\ Parts \in Nat \ {0} /\ MaxBlobFaults \in Nat

VARIABLES
    file,         \* file[c]: the version client c uploads
    client,       \* client[c]: where it is
    req,          \* req[s]: the handler in slot s
    meta,         \* blob_metadata: content_hash and byte_length
    bytes,        \* blob_content
    stage,        \* the staged prefix, a blob_derivatives row of its own namespace
    jobs,         \* jobs[h]: the `blob.process` job whose key carries the hash h
    derivative,   \* the processor's derivative: the content it was made from
    blobFaults,
    contested     \* history: a metadata row was replaced by another content's

rows == <<meta, bytes, stage, jobs, derivative>>
blobVars == <<file, client, req, rows, blobFaults, contested>>

Whole(v) == [i \in 1..Parts |-> <<v, i>>]
Contents == UNION {[1..n -> Versions \X (1..Parts)] : n \in 0..Parts}
\* a client has one request it waits for and at most one it has given up on
Slots == Clients \X {1, 2}

ClientState ==
    [pc : {"declare", "send", "wait", "lost", "ok", "refused"}, by : {"whole", "chunks"},
     at : 0..Parts, slot : {1, 2}, hash : Contents \cup {None}]
Request ==
    [pc : {"metadata", "staged", "append", "create", "write", "clear", "enqueue"},
     start : 0..Parts, meta : Contents \cup {None}, content : Contents]
Job == [status : {"pending", "running", "completed"}, read : Contents \cup {None}]

\* what stands for nothing is neither a content nor a request
ASSUME NoneAssumption == None \notin Contents \cup Request

BlobTypeOK ==
    /\ file \in [Clients -> Versions]
    /\ client \in [Clients -> ClientState]
    /\ req \in [Slots -> Request \cup {None}]
    /\ meta \in Contents \cup {None} /\ bytes \in Contents \cup {None}
    /\ derivative \in Contents \cup {None} /\ stage \in Contents
    /\ DOMAIN jobs \subseteq Contents /\ jobs \in [DOMAIN jobs -> Job]
    /\ blobFaults \in 0..MaxBlobFaults /\ contested \in BOOLEAN

\* a client uploads whole or in chunks, of a blob it declared first or not
BlobInit ==
    /\ file \in [Clients -> Versions]
    /\ client \in [Clients -> [pc : {"declare", "send"}, by : {"whole", "chunks"}, at : {0},
                               slot : {1}, hash : {None}]]
    /\ req = [s \in Slots |-> None]
    /\ meta = None /\ bytes = None /\ stage = <<>> /\ derivative = None
    /\ jobs = [h \in {} |-> None]
    /\ blobFaults = 0 /\ contested = FALSE

-----------------------------------------------------------------------------
(* Statements on the rows.                                                 *)

\* BlobStore::create: insert the row or replace every column of it
UpsertMetadata(content) ==
    /\ meta' = content
    /\ contested' = (contested \/ meta \notin {None, content})

\* enqueue_job under the key <blobId>:<processorId>:<contentHash>: a key that exists stays as it is
WithJob(content) ==
    IF content \in DOMAIN jobs THEN jobs
    ELSE [h \in DOMAIN jobs \cup {content} |->
              IF h = content THEN [status |-> "pending", read |-> None] ELSE jobs[h]]

-----------------------------------------------------------------------------
(* The end of a request.  Only the request its client waits for tells it   *)
(* anything.                                                               *)

WaitedFor(s) == client[s[1]].pc = "wait" /\ client[s[1]].slot = s[2]

Answers(s, told) ==
    /\ req' = [req EXCEPT ![s] = None]
    /\ client' = IF WaitedFor(s) THEN [client EXCEPT ![s[1]] = told] ELSE client

\* 200 and 201 carry the content's hash
AnswersOk(s) ==
    Answers(s, [client[s[1]] EXCEPT !.pc = "ok", !.at = 0, !.hash = req[s].content])

\* 202 with the offset received, 409 with the offset expected
AnswersOffset(s, offset) ==
    Answers(s, [client[s[1]] EXCEPT !.pc = "send", !.at = offset])

\* 400 for content that is not what the row declares, 415 for content a validator rejects
AnswersRefusal(s) ==
    Answers(s, [client[s[1]] EXCEPT !.pc = "refused", !.at = 0])

-----------------------------------------------------------------------------
(* PUT /blobs/:id/content.                                                 *)

\* Mutant of ResolveUpload: the hash is not compared with the row's.
TakesAnyHash(row, content) ==
    /\ row = None \/ Len(row) = Len(content)
    /\ content[1][1] \notin Refused

\* resolve_upload and run_sync_validators, which sees only the beginning: the content is accepted
ResolveUpload(row, content) ==
    /\ row = None \/ (Len(row) = Len(content) /\ row = content)
    /\ content[1][1] \notin Refused

\* what follows in the handler of s once it has the whole content, `row` being what it read first
GoesOn(s, row, content) ==
    IF ResolveUpload(row, content)
    THEN /\ req' = [req EXCEPT ![s].pc = IF row = None THEN "create" ELSE "write",
                               ![s].meta = row, ![s].content = content]
         /\ client' = client
    ELSE AnswersRefusal(s)

\* the metadata row is read once, at the start
ReadMetadata(s) ==
    /\ req[s] # None /\ req[s].pc = "metadata"
    /\ IF client[s[1]].by = "whole" THEN GoesOn(s, meta, Whole(file[s[1]]))
       ELSE req' = [req EXCEPT ![s].pc = "staged", ![s].meta = meta] /\ client' = client
    /\ UNCHANGED <<file, rows, blobFaults, contested>>

\* Mutant of ReadStaged: the conflict names the offset that came, not the one expected.
EchoesTheOffset(s) ==
    /\ req[s] # None /\ req[s].pc = "staged"
    /\ LET assembled == Append(stage, <<file[s[1]], req[s].start + 1>>) IN
       CASE req[s].start # Len(stage) -> AnswersOffset(s, req[s].start)
         [] req[s].start = Len(stage) /\ req[s].start + 1 < Parts ->
                /\ req' = [req EXCEPT ![s].pc = "append", ![s].content = assembled]
                /\ client' = client
         [] OTHER -> GoesOn(s, req[s].meta, assembled)
    /\ UNCHANGED <<file, rows, blobFaults, contested>>

\* put_content_chunk: the chunk must begin where the staged prefix ends; an interior one is
\* added to it, the final one completes the content
ReadStaged(s) ==
    /\ req[s] # None /\ req[s].pc = "staged"
    /\ LET assembled == Append(stage, <<file[s[1]], req[s].start + 1>>) IN
       CASE req[s].start # Len(stage) -> AnswersOffset(s, Len(stage))
         [] req[s].start = Len(stage) /\ req[s].start + 1 < Parts ->
                /\ req' = [req EXCEPT ![s].pc = "append", ![s].content = assembled]
                /\ client' = client
         [] OTHER -> GoesOn(s, req[s].meta, assembled)
    /\ UNCHANGED <<file, rows, blobFaults, contested>>

\* Mutant of WriteStaged: the chunk is added to what is staged by now.
AppendsInPlace(s) ==
    /\ req[s] # None /\ req[s].pc = "append"
    /\ stage' = IF Len(stage) < Parts THEN Append(stage, req[s].content[req[s].start + 1]) ELSE stage
    /\ AnswersOffset(s, Len(req[s].content))
    /\ UNCHANGED <<file, meta, bytes, jobs, derivative, blobFaults, contested>>

\* write_staged_bytes: the whole prefix assembled from what was read
WriteStaged(s) ==
    /\ req[s] # None /\ req[s].pc = "append"
    /\ stage' = req[s].content
    /\ AnswersOffset(s, Len(req[s].content))
    /\ UNCHANGED <<file, meta, bytes, jobs, derivative, blobFaults, contested>>

CreateMetadata(s) ==
    /\ req[s] # None /\ req[s].pc = "create"
    /\ UpsertMetadata(req[s].content)
    /\ req' = [req EXCEPT ![s].pc = "write"]
    /\ UNCHANGED <<file, client, bytes, stage, jobs, derivative, blobFaults>>

WriteContent(s) ==
    /\ req[s] # None /\ req[s].pc = "write"
    /\ bytes' = req[s].content
    /\ req' = [req EXCEPT ![s].pc = IF client[s[1]].by = "chunks" THEN "clear" ELSE "enqueue"]
    /\ UNCHANGED <<file, client, meta, stage, jobs, derivative, blobFaults, contested>>

ClearStaged(s) ==
    /\ req[s] # None /\ req[s].pc = "clear"
    /\ stage' = <<>>
    /\ req' = [req EXCEPT ![s].pc = "enqueue"]
    /\ UNCHANGED <<file, client, meta, bytes, jobs, derivative, blobFaults, contested>>

\* Mutant of EnqueueProcessJobs: only the upload that created the row enqueues.
EnqueuesForNewRows(s) ==
    /\ req[s] # None /\ req[s].pc = "enqueue"
    /\ jobs' = IF req[s].meta = None THEN WithJob(req[s].content) ELSE jobs
    /\ AnswersOk(s)
    /\ UNCHANGED <<file, meta, bytes, stage, derivative, blobFaults, contested>>

EnqueueProcessJobs(s) ==
    /\ req[s] # None /\ req[s].pc = "enqueue"
    /\ jobs' = WithJob(req[s].content)
    /\ AnswersOk(s)
    /\ UNCHANGED <<file, meta, bytes, stage, derivative, blobFaults, contested>>

\* the statement fails and the client learns of it, or the request is gone and it never does
RequestFails(s) ==
    /\ req[s] # None /\ blobFaults < MaxBlobFaults
    /\ Answers(s, [client[s[1]] EXCEPT !.pc = "lost"])
    /\ blobFaults' = blobFaults + 1
    /\ UNCHANGED <<file, rows, contested>>

-----------------------------------------------------------------------------
(* The client.                                                             *)

\* POST /blobs, then the upload
DeclareBlob(c) ==
    /\ client[c].pc = "declare"
    /\ UpsertMetadata(Whole(file[c]))
    /\ client' = [client EXCEPT ![c].pc = "send"]
    /\ UNCHANGED <<file, req, bytes, stage, jobs, derivative, blobFaults>>

PutContent(c) ==
    /\ client[c].pc \in {"send", "lost"}
    /\ \E k \in {1, 2} :
           /\ req[<<c, k>>] = None /\ (k = 2 => req[<<c, 1>>] # None)
           /\ req' = [req EXCEPT ![<<c, k>>] =
                  [pc |-> "metadata", start |-> client[c].at, meta |-> None, content |-> <<>>]]
           /\ client' = [client EXCEPT ![c].pc = "wait", ![c].slot = k]
    /\ UNCHANGED <<file, rows, blobFaults, contested>>

\* HEAD /blobs/:id/content: where a client that lost its place begins again
HeadContent(c) ==
    /\ client[c].pc = "lost" /\ client[c].by = "chunks"
    /\ client' = [client EXCEPT ![c].pc = "send", ![c].at = IF meta # None THEN 0 ELSE Len(stage)]
    /\ UNCHANGED <<file, req, rows, blobFaults, contested>>

\* the client stops waiting; the handler goes on
TimesOut(c) ==
    /\ client[c].pc = "wait" /\ blobFaults < MaxBlobFaults
    /\ client' = [client EXCEPT ![c].pc = "lost"]
    /\ blobFaults' = blobFaults + 1
    /\ UNCHANGED <<file, req, rows, contested>>

-----------------------------------------------------------------------------
(* The `blob.process` job.                                                 *)

\* run_job: the row is there, the processor reads the bytes
ProcessReads(h) ==
    /\ h \in DOMAIN jobs /\ jobs[h].status = "pending"
    /\ meta # None
    /\ jobs' = [jobs EXCEPT ![h] = [status |-> "running", read |-> bytes]]
    /\ UNCHANGED <<file, client, req, meta, bytes, stage, derivative, blobFaults, contested>>

\* persist_derivatives: replaces the processor's earlier derivative
ProcessRecords(h) ==
    /\ h \in DOMAIN jobs /\ jobs[h].status = "running"
    /\ derivative' = jobs[h].read
    /\ jobs' = [jobs EXCEPT ![h] = [status |-> "completed", read |-> None]]
    /\ UNCHANGED <<file, client, req, meta, bytes, stage, blobFaults, contested>>

\* a retryable error, or the worker's death: the job runs again
ProcessFails(h) ==
    /\ h \in DOMAIN jobs /\ jobs[h].status = "running" /\ blobFaults < MaxBlobFaults
    /\ jobs' = [jobs EXCEPT ![h] = [status |-> "pending", read |-> None]]
    /\ blobFaults' = blobFaults + 1
    /\ UNCHANGED <<file, client, req, meta, bytes, stage, derivative, contested>>

-----------------------------------------------------------------------------
Handler(s) ==
    \/ ReadMetadata(s) \/ ReadStaged(s) \/ WriteStaged(s) \/ CreateMetadata(s)
    \/ WriteContent(s) \/ ClearStaged(s) \/ EnqueueProcessJobs(s)

Uploads(c) == DeclareBlob(c) \/ PutContent(c)

BlobNext ==
    \/ \E s \in Slots : Handler(s) \/ RequestFails(s)
    \/ \E c \in Clients : Uploads(c) \/ HeadContent(c) \/ TimesOut(c)
    \/ \E h \in DOMAIN jobs : ProcessReads(h) \/ ProcessRecords(h) \/ ProcessFails(h)

\* Handlers and the job worker run on; a client sends what it has to send.
BlobFairness ==
    /\ \A s \in Slots : WF_blobVars(Handler(s))
    /\ \A c \in Clients : WF_blobVars(Uploads(c))
    /\ \A v \in Versions : WF_blobVars(ProcessReads(Whole(v)) \/ ProcessRecords(Whole(v)))

BlobSpec == BlobInit /\ [][BlobNext]_blobVars /\ BlobFairness

-----------------------------------------------------------------------------
(* Properties.                                                             *)

\* What is staged is the beginning of some content in the order of its parts: chunks that are
\* sent twice, late or by two clients at once never leave a gap or a repeat in it
\* (put_content_chunk compares the offset it was sent with the prefix it will extend).
StageInOrder == \A i \in DOMAIN stage : stage[i][2] = i

\* GET /blobs/:id/content serves bytes under the hash of the row.  They are the bytes of that
\* hash, whatever uploads overlapped, unless the row was replaced by one for another content
\* (a second declaration, or two first uploads of different files).
ServedMatchesHash ==
    bytes # None => meta # None /\ (contested \/ bytes = meta)

\* An upload that was answered with success left all of its work behind it: the bytes are
\* stored and the processors' job for the hash it reported is enqueued, however many of its
\* attempts failed half way.
AckedIsStored ==
    \A c \in Clients : client[c].pc = "ok" =>
        /\ client[c].hash \in DOMAIN jobs /\ bytes # None
        /\ ~contested => bytes = client[c].hash

SameFile == \A c, d \in Clients : file[c] = file[d] /\ file[c] \notin Refused

\* Clients that upload the same file all succeed, whole or in chunks, after any failure, late
\* answer or overlap: a chunk at the wrong offset is told the right one and nothing a dead or
\* late request left staged stands in the way.  And the processor's derivative ends up made
\* from the bytes that are served, also when a request died between the write of the bytes
\* and the enqueue.
UploadsComplete ==
    SameFile => <>[](bytes # None /\ derivative = bytes /\ \A c \in Clients : client[c].pc = "ok")
=============================================================================
