--------------------------- MODULE DocumentIngestion ---------------------------
(***************************************************************************)
(* Uploaded and pasted documents of one organization and the runs that     *)
(* ingest them (api/documents.py, services/documents.py,                   *)
(* ingestion/service.py).                                                  *)
(*                                                                         *)
(* A run is one transaction of a worker.  What a failing step has done is  *)
(* committed with the failure; when the database refuses a statement or    *)
(* the worker dies everything is rolled back and the run is tried again.   *)
(***************************************************************************)
EXTENDS Integers, FiniteSets

CONSTANTS
    Doc,         \* documents
    Ingest,      \* ingestion runs
    Content,     \* texts, told apart by their hashes
    Blank,       \* texts that have no chunks
    NoText, NoDoc,
    Tries,       \* attempts a run is given
    MaxBlobs,    \* bound: blobs stored
    MaxFaults    \* bound: workers that die, providers that fail

\* A row of documents and what hangs on it: hash is NoText while it is pending,
\* chunks the text of the chunks stored, cited whether it has a source.
Row == [how : {"upload", "paste"}, hash : Content \cup {NoText},
        status : {"pending", "parsed"}, chunks : Content \cup {NoText}, cited : BOOLEAN]

ASSUME IngestionAssumption ==
    /\ Blank \subseteq Content
    /\ NoText \notin Content
    /\ NoDoc \notin Doc /\ NoDoc \notin Row
    /\ Tries \in Nat \ {0} /\ MaxBlobs \in Nat /\ MaxFaults \in Nat

VARIABLES
    docs,      \* [Doc -> Row or NoDoc]
    blob,      \* [Doc -> the text stored under its key, or NoText]
    blobs,     \* counts towards MaxBlobs
    ingest,    \* [Ingest -> where it is]
    target,    \* [Ingest -> its document]
    given,     \* [Ingest -> the text of the request, NoText to take the blob]
    text,      \* [Ingest -> the text it has parsed]
    tries,     \* [Ingest -> attempts begun]
    accepted,  \* history: [Doc -> the text it was last marked parsed for]
    torn,      \* history: <<document, text>>: it counted as parsed with the hash of
               \* the text, but not with its chunks
    faults     \* counts towards MaxFaults

jobs == <<ingest, target, given, text, tries>>
documents == <<docs, blob, blobs, jobs, accepted, torn>>

Stages == {"idle", "queued", "parsed", "fresh", "written", "done", "failed", "given up"}

Known == {d \in Doc : docs[d] # NoDoc}

IngestionInit ==
    /\ docs = [d \in Doc |-> NoDoc]
    /\ blob = [d \in Doc |-> NoText]
    /\ blobs = 0
    /\ ingest = [i \in Ingest |-> "idle"]
    /\ target = [i \in Ingest |-> NoDoc]
    /\ given = [i \in Ingest |-> NoText]
    /\ text = [i \in Ingest |-> NoText]
    /\ tries = [i \in Ingest |-> 0]
    /\ accepted = [d \in Doc |-> NoText]
    /\ torn = {}

Fault == faults < MaxFaults /\ faults' = faults + 1

-----------------------------------------------------------------------------
\* The API.

New(how) == [how |-> how, hash |-> NoText, status |-> "pending", chunks |-> NoText,
             cited |-> FALSE]

InitiateUpload(d) ==
    /\ docs[d] = NoDoc
    /\ docs' = [docs EXCEPT ![d] = New("upload")]
    /\ UNCHANGED <<blob, blobs, jobs, accepted, torn, faults>>

\* The client may store a blob at any time, and again after it was ingested.
PutBlob(d, c) ==
    /\ docs[d] # NoDoc /\ docs[d].how = "upload"
    /\ blobs < MaxBlobs /\ blobs' = blobs + 1
    /\ blob' = [blob EXCEPT ![d] = c]
    /\ UNCHANGED <<docs, jobs, accepted, torn, faults>>

Enqueue(i, d, c) ==
    /\ ingest[i] = "idle"
    /\ ingest' = [ingest EXCEPT ![i] = "queued"]
    /\ target' = [target EXCEPT ![i] = d]
    /\ given' = [given EXCEPT ![i] = c]
    /\ UNCHANGED <<text, tries, blob, blobs, accepted, torn, faults>>

\* Any known document, with its blob or with a text of the request.
RequestIngest(i, d, c) == docs[d] # NoDoc /\ Enqueue(i, d, c) /\ UNCHANGED docs

Paste(i, d, c) ==
    /\ docs[d] = NoDoc
    /\ docs' = [docs EXCEPT ![d] = New("paste")]
    /\ Enqueue(i, d, c)

-----------------------------------------------------------------------------
\* The run: run_document_ingest and ingest_content.

Running(i) == ingest[i] \in {"parsed", "fresh", "written"}

IngestEnds(i, how) ==
    /\ ingest' = [ingest EXCEPT ![i] = how]
    /\ UNCHANGED <<target, given, text, tries>>

\* The text is the request's or the blob's.
Parse(i) ==
    LET c == IF given[i] # NoText THEN given[i] ELSE blob[target[i]] IN
    /\ ingest[i] = "queued" /\ c # NoText
    /\ ingest' = [ingest EXCEPT ![i] = "parsed"]
    /\ text' = [text EXCEPT ![i] = c]
    /\ tries' = [tries EXCEPT ![i] = @ + 1]
    /\ UNCHANGED <<docs, blob, blobs, target, given, accepted, torn, faults>>

\* Nothing was uploaded, or the parser fails: the document stays pending.
ParseFails(i) ==
    /\ ingest[i] = "queued"
    /\ IF given[i] = NoText /\ blob[target[i]] = NoText THEN UNCHANGED faults ELSE Fault
    /\ IngestEnds(i, "failed")
    /\ UNCHANGED <<docs, blob, blobs, accepted, torn>>

\* A seeded defect: the duplicate need not have been parsed.
AnyHolder(i) == {e \in Known \ {target[i]} : docs[e].hash = text[i]}

\* Other documents that were ingested with the same text.
Holders(i) == {e \in Known \ {target[i]} : docs[e].hash = text[i] /\ docs[e].status = "parsed"}

\* No other run has changed i's document or taken its hash without committing.
RowFree(i) ==
    \A j \in Ingest \ {i} : ingest[j] = "written" => target[j] # target[i] /\ text[j] # text[i]

\* The row, as it is about to be, says it is parsed, but its hash and its chunks
\* are of different texts.
Tears(d, row) ==
    IF row.status = "parsed" /\ row.hash \notin {NoText, row.chunks}
          /\ (row.hash \in Blank => row.chunks # NoText)
    THEN {<<d, row.hash>>} ELSE {}

\* i writes its document's row.
WriteRow(i, row) ==
    /\ docs' = [docs EXCEPT ![target[i]] = row]
    /\ torn' = torn \cup Tears(target[i], row)

\* The document keeps the hash it has, be it that of a text whose embeddings
\* failed before.
Deduplicate(i) ==
    /\ ingest[i] = "parsed" /\ Holders(i) # {} /\ RowFree(i)
    /\ WriteRow(i, [docs[target[i]] EXCEPT !.status = "parsed"])
    /\ accepted' = [accepted EXCEPT ![target[i]] = text[i]]
    /\ IngestEnds(i, "done")
    /\ UNCHANGED <<blob, blobs, faults>>

FindNone(i) ==
    /\ ingest[i] = "parsed" /\ Holders(i) = {}
    /\ IngestEnds(i, "fresh")
    /\ UNCHANGED <<docs, blob, blobs, accepted, torn, faults>>

\* Another document has the hash.
HashTaken(i) == \E e \in Known \ {target[i]} : docs[e].hash = text[i]

\* The document has chunks with the ordinals of the new ones.
OrdinalTaken(i) == text[i] \notin Blank /\ docs[target[i]].chunks # NoText

Write(i) ==
    /\ ingest[i] = "fresh" /\ RowFree(i)
    /\ ~HashTaken(i) /\ ~OrdinalTaken(i)
    /\ IngestEnds(i, "written")
    /\ UNCHANGED <<docs, blob, blobs, accepted, torn, faults>>

Commit(i) ==
    /\ ingest[i] = "written"
    /\ WriteRow(i, [docs[target[i]] EXCEPT
                       !.hash = text[i], !.status = "parsed", !.cited = TRUE,
                       !.chunks = IF text[i] \in Blank THEN @ ELSE text[i]])
    /\ accepted' = [accepted EXCEPT ![target[i]] = text[i]]
    /\ IngestEnds(i, "done")
    /\ UNCHANGED <<blob, blobs, faults>>

\* The hash and the source are assigned before the chunks are embedded: when
\* the embeddings fail they are committed with the failure of the run.
EmbedFails(i) ==
    /\ ingest[i] = "fresh" /\ text[i] \notin Blank /\ RowFree(i)
    /\ ~HashTaken(i)
    /\ Fault
    /\ WriteRow(i, [docs[target[i]] EXCEPT !.hash = text[i], !.cited = TRUE])
    /\ IngestEnds(i, "failed")
    /\ UNCHANGED <<blob, blobs, accepted>>

\* A worker that dies, or a statement the database refuses, costs an attempt.
IngestRolledBack(i) ==
    /\ Running(i)
    /\ IF ingest[i] = "fresh" /\ RowFree(i) /\ (HashTaken(i) \/ OrdinalTaken(i))
       THEN UNCHANGED faults ELSE Fault
    /\ ingest' = [ingest EXCEPT ![i] = IF tries[i] < Tries THEN "queued" ELSE "given up"]
    /\ text' = [text EXCEPT ![i] = NoText]
    /\ UNCHANGED <<docs, blob, blobs, target, given, tries, accepted, torn>>

IngestStep(i) ==
    \/ Parse(i) \/ ParseFails(i) \/ Deduplicate(i) \/ FindNone(i) \/ Write(i) \/ Commit(i)
    \/ EmbedFails(i) \/ IngestRolledBack(i)

-----------------------------------------------------------------------------

DocumentTypeOK ==
    /\ docs \in [Doc -> Row \cup {NoDoc}]
    /\ ingest \in [Ingest -> Stages]
    /\ text \in [Ingest -> Content \cup {NoText}]
    /\ tries \in [Ingest -> 0..Tries]
    /\ blobs \in 0..MaxBlobs /\ faults \in 0..MaxFaults

\* A text is chunked for one document only, however its ingestions overlap,
\* are repeated or tried again; the exception is a document that has counted as
\* parsed with the hash of another text than its chunks': its hash was replaced
\* by a run that failed or by a text without chunks.
OneCopy ==
    \A d, e \in {x \in Known : \A c \in Content : <<x, c>> \notin torn} :
        d # e => docs[d].chunks = NoText \/ docs[d].chunks # docs[e].chunks

\* A document that is marked parsed can be cited: its text was chunked for it
\* or for the document it duplicates, and those chunks have a source; unless
\* some document counted as parsed with the hash of that text, but without its
\* chunks, and so passed for an ingested copy.
ParsedIsCitable ==
    \A d \in Known : docs[d].status = "parsed" /\ accepted[d] \notin Blank =>
        \E e \in Known : \/ docs[e].chunks = accepted[d] /\ docs[e].cited
                         \/ <<e, accepted[d]>> \in torn

\* What is parsed can be cited, and from one place.
ParsedIsCitedOnce == OneCopy /\ ParsedIsCitable
=============================================================================
