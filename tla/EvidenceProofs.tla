--------------------------- MODULE EvidenceProofs ---------------------------
(***************************************************************************)
(* Proofs about documents, profile, evidence and packages                  *)
(* (DocumentIngestion, CompanyProfile, EvidenceMapping, PackageCitations), *)
(* for every set of runs, requests, crews, documents and requirements and  *)
(* every bound, in the composed specification PackageSpec.                 *)
(***************************************************************************)
EXTENDS PackageCitations, TLAPS

-----------------------------------------------------------------------------
\* Documents: the inductive invariant

DocTypes ==
    /\ docs \in [Doc -> Row \cup {NoDoc}]
    /\ ingest \in [Ingest -> Stages]
    /\ target \in [Ingest -> Doc \cup {NoDoc}]
    /\ given \in [Ingest -> Content \cup {NoText}]
    /\ text \in [Ingest -> Content \cup {NoText}]
    /\ blob \in [Doc -> Content \cup {NoText}]
    /\ accepted \in [Doc -> Content \cup {NoText}]

\* A run has a document, and at work also a text.
RunsHaveDocs ==
    \A i \in Ingest :
        /\ ingest[i] # "idle" => target[i] \in Known
        /\ Running(i) => text[i] \in Content

\* org_id and content_hash are unique.
HashUnique ==
    \A d, e \in Known : d # e => docs[d].hash = NoText \/ docs[d].hash # docs[e].hash

\* Chunks are only ever written with the hash, the source and the status.
ChunksAreParsed ==
    \A d \in Known : docs[d].chunks # NoText =>
        docs[d].status = "parsed" /\ docs[d].hash # NoText /\ docs[d].cited

\* A document that counts as parsed has the chunks of its hash, or is torn.
HashIsChunked ==
    \A d \in Known :
        docs[d].status = "parsed" /\ docs[d].hash \notin {NoText, docs[d].chunks} =>
            \/ docs[d].hash \in Blank /\ docs[d].chunks = NoText
            \/ <<d, docs[d].hash>> \in torn

\* A document that counts as parsed was accepted for a text, of which there are
\* chunks or a torn copy.
Citable(c) ==
    \E e \in Known : \/ docs[e].chunks = c /\ docs[e].cited
                    \/ <<e, c>> \in torn

AcceptedIsCitable ==
    \A d \in Known : docs[d].status = "parsed" =>
        accepted[d] \in Content /\ (accepted[d] \notin Blank => Citable(accepted[d]))

\* What a run has flushed nobody else can have flushed or committed.
FlushedIsOwn ==
    \A i \in Ingest : ingest[i] = "written" =>
        /\ \A e \in Known \ {target[i]} : docs[e].hash # text[i]
        /\ \A j \in Ingest \ {i} :
              ingest[j] = "written" => target[j] # target[i] /\ text[j] # text[i]
        /\ text[i] \notin Blank => docs[target[i]].chunks = NoText

DocInv ==
    /\ DocTypes /\ RunsHaveDocs /\ HashUnique /\ ChunksAreParsed /\ HashIsChunked
    /\ FlushedIsOwn /\ AcceptedIsCitable

-----------------------------------------------------------------------------
\* Documents: the steps

LEMMA DocInit == IngestionInit => DocInv
  BY DEF IngestionInit, DocInv, DocTypes, RunsHaveDocs, HashUnique, ChunksAreParsed,
     HashIsChunked, FlushedIsOwn, AcceptedIsCitable, Known, Running, Stages

\* A row is no missing row, and has the fields of one.
LEMMA RowFacts ==
    /\ \A d \in Known : DocTypes => d \in Doc /\ docs[d] \in Row
    /\ \A row \in Row : row # NoDoc
    /\ \A c \in Content : c # NoText
    /\ NoDoc \notin Doc
  BY IngestionAssumption DEF Known, DocTypes

\* What can be cited stays so while chunks, sources and torn copies stay.
LEMMA CitableStays ==
    ASSUME NEW c \in Content, Citable(c), torn \subseteq torn',
           \A e \in Known : /\ docs'[e] # NoDoc /\ e \in Doc
                            /\ docs[e].chunks # NoText => docs'[e].chunks = docs[e].chunks
                            /\ docs[e].cited => docs'[e].cited
    PROVE  Citable(c)'
  <1>1. PICK e \in Known : \/ docs[e].chunks = c /\ docs[e].cited
                           \/ <<e, c>> \in torn
    BY DEF Citable
  <1>2. e \in Known'
    BY DEF Known
  <1>3. CASE docs[e].chunks = c /\ docs[e].cited
    <2>1. docs'[e].chunks = c /\ docs'[e].cited
      BY <1>3, RowFacts
    <2>2. QED
      BY <1>2, <2>1 DEF Citable
  <1>4. CASE <<e, c>> \in torn
    BY <1>2, <1>4 DEF Citable
  <1>5. QED
    BY <1>1, <1>3, <1>4

\* A step that leaves the rows alone and flushes nothing.
LEMMA RowsStay ==
    ASSUME DocInv, DocTypes', RunsHaveDocs', UNCHANGED <<docs, torn, accepted>>,
           \A j \in Ingest : ingest'[j] = "written" =>
              ingest[j] = "written" /\ target'[j] = target[j] /\ text'[j] = text[j]
    PROVE  DocInv'
  <1>1. HashUnique' /\ ChunksAreParsed' /\ HashIsChunked'
    BY DEF DocInv, HashUnique, ChunksAreParsed, HashIsChunked, Known
  <1>2. FlushedIsOwn'
    <2> SUFFICES ASSUME NEW i \in Ingest, ingest'[i] = "written"
                 PROVE  /\ \A e \in Known' \ {target'[i]} : docs'[e].hash # text'[i]
                        /\ \A j \in Ingest \ {i} : ingest'[j] = "written" =>
                              target'[j] # target'[i] /\ text'[j] # text'[i]
                        /\ text'[i] \notin Blank => docs'[target'[i]].chunks = NoText
      BY DEF FlushedIsOwn
    <2>1. ingest[i] = "written" /\ target'[i] = target[i] /\ text'[i] = text[i]
      OBVIOUS
    <2>2. /\ \A e \in Known \ {target[i]} : docs[e].hash # text[i]
          /\ \A j \in Ingest \ {i} :
                ingest[j] = "written" => target[j] # target[i] /\ text[j] # text[i]
          /\ text[i] \notin Blank => docs[target[i]].chunks = NoText
      BY <2>1 DEF DocInv, FlushedIsOwn
    <2>3. Known' = Known
      BY DEF Known
    <2>4. QED
      BY <2>1, <2>2, <2>3
  <1>3. AcceptedIsCitable'
    BY DEF DocInv, AcceptedIsCitable, Citable, Known
  <1>4. QED
    BY <1>1, <1>2, <1>3 DEF DocInv

\* A new document.
LEMMA RowAdded ==
    ASSUME DocInv, DocTypes', RunsHaveDocs', UNCHANGED <<torn, accepted>>,
           NEW d \in Doc, docs[d] = NoDoc,
           NEW how \in {"upload", "paste"}, docs' = [docs EXCEPT ![d] = New(how)],
           \A j \in Ingest : ingest'[j] = "written" =>
              ingest[j] = "written" /\ target'[j] = target[j] /\ text'[j] = text[j]
    PROVE  DocInv'
  <1>t. docs \in [Doc -> Row \cup {NoDoc}]
    BY DEF DocInv, DocTypes
  <1>0. New(how) \in Row /\ New(how).hash = NoText /\ New(how).chunks = NoText
        /\ New(how).status = "pending"
    BY DEF New, Row
  <1>1. /\ Known' = Known \cup {d} /\ d \notin Known
        /\ docs'[d] = New(how)
        /\ \A e \in Known : docs'[e] = docs[e]
    BY <1>t, <1>0, RowFacts DEF Known
  <1>2. HashUnique' /\ ChunksAreParsed' /\ HashIsChunked'
    <2>1. HashUnique'
      BY <1>0, <1>1 DEF DocInv, HashUnique
    <2>2. ChunksAreParsed'
      BY <1>0, <1>1 DEF DocInv, ChunksAreParsed
    <2>3. HashIsChunked'
      BY <1>0, <1>1 DEF DocInv, HashIsChunked
    <2>4. QED
      BY <2>1, <2>2, <2>3
  <1>3. FlushedIsOwn'
    <2> SUFFICES ASSUME NEW i \in Ingest, ingest'[i] = "written"
                 PROVE  /\ \A e \in Known' \ {target'[i]} : docs'[e].hash # text'[i]
                        /\ \A j \in Ingest \ {i} : ingest'[j] = "written" =>
                              target'[j] # target'[i] /\ text'[j] # text'[i]
                        /\ text'[i] \notin Blank => docs'[target'[i]].chunks = NoText
      BY DEF FlushedIsOwn
    <2>1. ingest[i] = "written" /\ target'[i] = target[i] /\ text'[i] = text[i]
      OBVIOUS
    <2>2. /\ \A e \in Known \ {target[i]} : docs[e].hash # text[i]
          /\ \A j \in Ingest \ {i} :
                ingest[j] = "written" => target[j] # target[i] /\ text[j] # text[i]
          /\ text[i] \notin Blank => docs[target[i]].chunks = NoText
          /\ target[i] \in Known /\ text[i] \in Content
      BY <2>1 DEF DocInv, FlushedIsOwn, RunsHaveDocs, Running
    <2>3. text[i] # NoText
      BY <2>2, RowFacts
    <2>4. QED
      BY <1>0, <1>1, <2>1, <2>2, <2>3
  <1>4. AcceptedIsCitable'
    <2> SUFFICES ASSUME NEW e \in Known', docs'[e].status = "parsed"
                 PROVE  /\ accepted'[e] \in Content
                        /\ accepted'[e] \notin Blank => Citable(accepted[e])'
      BY DEF AcceptedIsCitable
    <2>1. e \in Known /\ docs[e].status = "parsed"
      BY <1>0, <1>1
    <2>2. accepted[e] \in Content /\ (accepted[e] \notin Blank => Citable(accepted[e]))
      BY <2>1 DEF DocInv, AcceptedIsCitable
    <2>3. \A x \in Known : docs'[x] = docs[x] /\ docs'[x] # NoDoc /\ x \in Doc
      BY <1>1 DEF Known
    <2>4. QED
      BY <2>2, <2>3, CitableStays
  <1>5. QED
    BY <1>2, <1>3, <1>4 DEF DocInv

\* A run that ends with a write to its document's row.
LEMMA RowWritten ==
    ASSUME DocInv, DocTypes', NEW i \in Ingest, Running(i), NEW row \in Row, WriteRow(i, row),
           NEW l \in {"done", "failed"}, IngestEnds(i, l),
           \A e \in Known \ {target[i]} : row.hash = NoText \/ docs[e].hash # row.hash,
           \A j \in Ingest \ {i} :
              ingest[j] = "written" => target[j] # target[i] /\ text[j] # row.hash,
           docs[target[i]].chunks # NoText => row.chunks = docs[target[i]].chunks,
           docs[target[i]].cited => row.cited,
           row.chunks # NoText => row.status = "parsed" /\ row.hash # NoText /\ row.cited,
           \A d \in Known \ {target[i]} : accepted'[d] = accepted[d],
           row.status = "parsed" =>
              /\ accepted'[target[i]] \in Content
              /\ accepted'[target[i]] \notin Blank => Citable(accepted[target[i]])'
    PROVE  DocInv'
  <1> DEFINE d == target[i]
  <1>t. /\ docs \in [Doc -> Row \cup {NoDoc}] /\ ingest \in [Ingest -> Stages]
        /\ d \in Known /\ d \in Doc
    BY DEF DocInv, DocTypes, RunsHaveDocs, Running, Known
  <1>1. /\ docs'[d] = row /\ Known' = Known
        /\ \A e \in Known \ {d} : docs'[e] = docs[e]
    <2>1. docs' = [docs EXCEPT ![d] = row]
      BY DEF WriteRow
    <2>2. QED
      BY <1>t, <2>1, RowFacts DEF Known
  <1>2. torn' = torn \cup Tears(d, row)
    BY DEF WriteRow
  <1>3. /\ target' = target /\ text' = text
        /\ \A j \in Ingest \ {i} : ingest'[j] = ingest[j]
        /\ ingest'[i] = l
    BY <1>t DEF IngestEnds
  <1>4. RunsHaveDocs'
    BY <1>1, <1>3, <1>t DEF DocInv, RunsHaveDocs, Running
  <1>5. HashUnique'
    BY <1>1 DEF DocInv, HashUnique
  <1>6. ChunksAreParsed'
    BY <1>1 DEF DocInv, ChunksAreParsed
  <1>7. HashIsChunked'
    <2> SUFFICES ASSUME NEW e \in Known, docs'[e].status = "parsed",
                        docs'[e].hash \notin {NoText, docs'[e].chunks}
                 PROVE  \/ docs'[e].hash \in Blank /\ docs'[e].chunks = NoText
                        \/ <<e, docs'[e].hash>> \in torn'
      BY <1>1 DEF HashIsChunked
    <2>1. CASE e = d
      BY <1>1, <1>2, <2>1 DEF Tears
    <2>2. CASE e # d
      BY <1>1, <1>2, <2>2 DEF DocInv, HashIsChunked
    <2>3. QED
      BY <2>1, <2>2
  <1>8. FlushedIsOwn'
    <2> SUFFICES ASSUME NEW j \in Ingest, ingest'[j] = "written"
                 PROVE  /\ \A e \in Known' \ {target'[j]} : docs'[e].hash # text'[j]
                        /\ \A k \in Ingest \ {j} : ingest'[k] = "written" =>
                              target'[k] # target'[j] /\ text'[k] # text'[j]
                        /\ text'[j] \notin Blank => docs'[target'[j]].chunks = NoText
      BY DEF FlushedIsOwn
    <2>1. j # i /\ ingest[j] = "written"
      BY <1>3
    <2>2. /\ \A e \in Known \ {target[j]} : docs[e].hash # text[j]
          /\ \A k \in Ingest \ {j} :
                ingest[k] = "written" => target[k] # target[j] /\ text[k] # text[j]
          /\ text[j] \notin Blank => docs[target[j]].chunks = NoText
          /\ target[j] \in Known
      BY <2>1 DEF DocInv, FlushedIsOwn, RunsHaveDocs
    <2>3. target[j] # d /\ text[j] # row.hash
      BY <2>1
    <2>4. QED
      BY <1>1, <1>3, <2>2, <2>3
  <1>9. AcceptedIsCitable'
    <2> SUFFICES ASSUME NEW e \in Known, docs'[e].status = "parsed"
                 PROVE  /\ accepted'[e] \in Content
                        /\ accepted'[e] \notin Blank => Citable(accepted[e])'
      BY <1>1 DEF AcceptedIsCitable
    <2>1. CASE e = d
      BY <1>1, <1>3, <2>1 DEF Citable
    <2>2. CASE e # d
      <3>1. accepted'[e] = accepted[e] /\ docs[e].status = "parsed"
        BY <1>1, <2>2
      <3>2. accepted[e] \in Content /\ (accepted[e] \notin Blank => Citable(accepted[e]))
        BY <3>1 DEF DocInv, AcceptedIsCitable
      <3>3. \A x \in Known : /\ docs'[x] # NoDoc /\ x \in Doc
                             /\ docs[x].chunks # NoText => docs'[x].chunks = docs[x].chunks
                             /\ docs[x].cited => docs'[x].cited
        BY <1>1 DEF Known
      <3>4. \A c \in Content : Citable(c) => Citable(c)'
        BY <1>2, <3>3, CitableStays
      <3>5. QED
        BY <3>1, <3>2, <3>4 DEF Citable
    <2>3. QED
      BY <2>1, <2>2
  <1>10. QED
    BY <1>4, <1>5, <1>6, <1>7, <1>8, <1>9 DEF DocInv

LEMMA UploadKeepsDocs == ASSUME DocInv, Upload PROVE DocInv'
  <1>t. DocTypes /\ RunsHaveDocs /\ docs \in [Doc -> Row \cup {NoDoc}]
        /\ ingest \in [Ingest -> Stages] /\ target \in [Ingest -> Doc \cup {NoDoc}]
    BY DEF DocInv, DocTypes
  <1>1. ASSUME NEW d \in Doc, InitiateUpload(d) PROVE DocInv'
    <2>1. /\ docs[d] = NoDoc /\ docs' = [docs EXCEPT ![d] = New("upload")]
          /\ UNCHANGED <<blob, ingest, target, given, text, accepted, torn>>
      BY <1>1 DEF InitiateUpload, jobs
    <2>2. DocTypes'
      BY <1>t, <2>1 DEF DocTypes, New, Row
    <2>3. RunsHaveDocs'
      BY <1>t, <2>1, <2>2, RowFacts DEF RunsHaveDocs, Running, Known, New, Row
    <2>4. QED
      BY <2>1, <2>2, <2>3, RowAdded
  <1>2. ASSUME NEW d \in Doc, NEW c \in Content, PutBlob(d, c) PROVE DocInv'
    <2>1. /\ blob' = [blob EXCEPT ![d] = c]
          /\ UNCHANGED <<docs, ingest, target, given, text, accepted, torn>>
      BY <1>2 DEF PutBlob, jobs
    <2>2. DocTypes' /\ RunsHaveDocs'
      BY <1>t, <2>1 DEF DocTypes, RunsHaveDocs, Running, Known
    <2>3. QED
      BY <2>1, <2>2, RowsStay
  <1>3. ASSUME NEW i \in Ingest, NEW d \in Doc, NEW c \in Content \cup {NoText},
               RequestIngest(i, d, c)
        PROVE  DocInv'
    <2>1. /\ docs[d] # NoDoc
          /\ ingest' = [ingest EXCEPT ![i] = "queued"] /\ target' = [target EXCEPT ![i] = d]
          /\ given' = [given EXCEPT ![i] = c]
          /\ UNCHANGED <<docs, blob, text, accepted, torn>>
          /\ ingest[i] = "idle"
      BY <1>3 DEF RequestIngest, Enqueue
    <2>2. DocTypes' /\ RunsHaveDocs'
      BY <1>t, <2>1 DEF DocTypes, RunsHaveDocs, Running, Known, Stages
    <2>3. QED
      BY <1>t, <2>1, <2>2, RowsStay
  <1>4. ASSUME NEW i \in Ingest, NEW d \in Doc, NEW c \in Content, Paste(i, d, c)
        PROVE  DocInv'
    <2>1. /\ docs[d] = NoDoc /\ docs' = [docs EXCEPT ![d] = New("paste")]
          /\ ingest' = [ingest EXCEPT ![i] = "queued"] /\ target' = [target EXCEPT ![i] = d]
          /\ given' = [given EXCEPT ![i] = c]
          /\ UNCHANGED <<blob, text, accepted, torn>>
          /\ ingest[i] = "idle"
      BY <1>4 DEF Paste, Enqueue
    <2>2. DocTypes'
      BY <1>t, <2>1 DEF DocTypes, Stages, New, Row
    <2>3. RunsHaveDocs'
      BY <1>t, <2>1, <2>2, RowFacts DEF RunsHaveDocs, Running, Known, New, Row
    <2>4. QED
      BY <1>t, <2>1, <2>2, <2>3, RowAdded
  <1>5. QED
    BY <1>1, <1>2, <1>3, <1>4 DEF Upload

\* What a run at work knows of its document.
LEMMA AtWorkOnDoc ==
    ASSUME DocInv, NEW i \in Ingest, Running(i)
    PROVE  /\ target[i] \in Known /\ target[i] \in Doc /\ docs[target[i]] \in Row
           /\ text[i] \in Content /\ text[i] # NoText
  BY RowFacts DEF DocInv, RunsHaveDocs, Running

LEMMA ParsesKeepDocs ==
    ASSUME DocInv, NEW i \in Ingest,
           Parse(i) \/ ParseFails(i) \/ FindNone(i) \/ IngestRolledBack(i)
    PROVE  DocInv'
  <1>t. DocTypes /\ RunsHaveDocs /\ ingest \in [Ingest -> Stages]
        /\ text \in [Ingest -> Content \cup {NoText}]
    BY DEF DocInv, DocTypes
  <1>1. UNCHANGED <<docs, blob, target, given, torn, accepted>>
    BY DEF Parse, ParseFails, FindNone, IngestRolledBack, IngestEnds
  <1>2. /\ ingest[i] # "idle"
        /\ \E l \in {"parsed", "fresh", "failed", "queued", "given up"} :
              /\ ingest' = [ingest EXCEPT ![i] = l]
              /\ l \in {"parsed", "fresh"} => text'[i] \in Content
        /\ text' \in [Ingest -> Content \cup {NoText}]
        /\ \A j \in Ingest \ {i} : text'[j] = text[j]
    <2>1. CASE Parse(i)
      <3> DEFINE c == IF given[i] # NoText THEN given[i] ELSE blob[target[i]]
      <3>1. ingest[i] = "queued" /\ c # NoText
            /\ ingest' = [ingest EXCEPT ![i] = "parsed"] /\ text' = [text EXCEPT ![i] = c]
        BY <2>1 DEF Parse
      <3>2. target[i] \in Known
        BY <1>t, <3>1 DEF RunsHaveDocs
      <3>3. c \in Content
        BY <1>t, <3>1, <3>2 DEF DocTypes, Known
      <3> HIDE DEF c
      <3>4. QED
        BY <1>t, <3>1, <3>3
    <2>2. CASE ParseFails(i)
      BY <1>t, <2>2 DEF ParseFails, IngestEnds
    <2>3. CASE FindNone(i)
      <3>1. Running(i)
        BY <2>3 DEF FindNone, Running
      <3>2. text[i] \in Content
        BY <3>1, AtWorkOnDoc
      <3>3. QED
        BY <1>t, <2>3, <3>2 DEF FindNone, IngestEnds
    <2>4. CASE IngestRolledBack(i)
      BY <1>t, <2>4 DEF IngestRolledBack, Running
    <2>5. QED
      BY <2>1, <2>2, <2>3, <2>4
  <1>3. PICK l \in {"parsed", "fresh", "failed", "queued", "given up"} :
              /\ ingest' = [ingest EXCEPT ![i] = l]
              /\ l \in {"parsed", "fresh"} => text'[i] \in Content
    BY <1>2
  <1>4. DocTypes'
    BY <1>t, <1>1, <1>2, <1>3 DEF DocTypes, Stages
  <1>5. RunsHaveDocs'
    BY <1>t, <1>1, <1>2, <1>3 DEF RunsHaveDocs, Running, Known
  <1>6. \A j \in Ingest : ingest'[j] = "written" =>
           ingest[j] = "written" /\ target'[j] = target[j] /\ text'[j] = text[j]
    BY <1>t, <1>1, <1>2, <1>3
  <1>7. QED
    BY <1>1, <1>4, <1>5, <1>6, RowsStay

LEMMA WriteKeepsDocs == ASSUME DocInv, NEW i \in Ingest, Write(i) PROVE DocInv'
  <1>t. DocTypes /\ RunsHaveDocs /\ ingest \in [Ingest -> Stages] /\ Running(i)
    BY DEF DocInv, DocTypes, Write, Running
  <1>1. /\ ingest' = [ingest EXCEPT ![i] = "written"]
        /\ UNCHANGED <<docs, blob, target, given, text, torn, accepted>>
        /\ RowFree(i) /\ ~HashTaken(i) /\ ~OrdinalTaken(i)
    BY DEF Write, IngestEnds
  <1>2. DocTypes' /\ RunsHaveDocs'
    BY <1>t, <1>1 DEF DocTypes, RunsHaveDocs, Running, Known, Stages
  <1>3. HashUnique' /\ ChunksAreParsed' /\ HashIsChunked' /\ AcceptedIsCitable'
    BY <1>1 DEF DocInv, HashUnique, ChunksAreParsed, HashIsChunked, AcceptedIsCitable,
       Citable, Known
  <1>4. FlushedIsOwn'
    <2> SUFFICES ASSUME NEW j \in Ingest, ingest'[j] = "written"
                 PROVE  /\ \A e \in Known \ {target[j]} : docs[e].hash # text[j]
                        /\ \A k \in Ingest \ {j} : ingest'[k] = "written" =>
                              target[k] # target[j] /\ text[k] # text[j]
                        /\ text[j] \notin Blank => docs[target[j]].chunks = NoText
      BY <1>1 DEF FlushedIsOwn, Known
    <2>1. \A k \in Ingest \ {i} : ingest'[k] = ingest[k]
      BY <1>t, <1>1
    <2>2. CASE j = i
      BY <1>1, <2>1, <2>2 DEF RowFree, HashTaken, OrdinalTaken
    <2>3. CASE j # i
      <3>1. ingest[j] = "written"
        BY <2>1, <2>3
      <3>2. target[i] # target[j] /\ text[i] # text[j]
        BY <1>1, <2>3, <3>1 DEF RowFree
      <3>3. QED
        BY <2>1, <2>3, <3>1, <3>2 DEF DocInv, FlushedIsOwn
    <2>4. QED
      BY <2>2, <2>3
  <1>5. QED
    BY <1>2, <1>3, <1>4 DEF DocInv

LEMMA DeduplicateKeepsDocs == ASSUME DocInv, NEW i \in Ingest, Deduplicate(i) PROVE DocInv'
  <1> DEFINE d == target[i]
             row == [docs[d] EXCEPT !.status = "parsed"]
  <1>a. /\ Running(i) /\ Holders(i) # {} /\ RowFree(i)
        /\ WriteRow(i, row) /\ docs' = [docs EXCEPT ![d] = row]
        /\ accepted' = [accepted EXCEPT ![d] = text[i]]
        /\ IngestEnds(i, "done") /\ ingest' = [ingest EXCEPT ![i] = "done"]
        /\ UNCHANGED <<blob, target, given, text>>
    BY DEF Deduplicate, WriteRow, IngestEnds, Running
  <1>b. /\ d \in Known /\ d \in Doc /\ docs[d] \in Row
        /\ text[i] \in Content /\ text[i] # NoText
    BY <1>a, AtWorkOnDoc
  <1>c. /\ row \in Row /\ row.status = "parsed" /\ row.hash = docs[d].hash
        /\ row.chunks = docs[d].chunks /\ row.cited = docs[d].cited
    BY <1>b DEF Row
  <1> HIDE DEF row
  <1>t. DocTypes
    BY DEF DocInv
  <1>1. DocTypes'
    BY <1>t, <1>a, <1>b, <1>c DEF DocTypes, Stages
  <1>2. \A e \in Known \ {d} : row.hash = NoText \/ docs[e].hash # row.hash
    BY <1>b, <1>c DEF DocInv, HashUnique
  <1>3. \A j \in Ingest \ {i} :
           ingest[j] = "written" => target[j] # d /\ text[j] # row.hash
    BY <1>a, <1>b, <1>c DEF DocInv, FlushedIsOwn, RowFree
  <1>4. row.chunks # NoText => row.hash # NoText /\ row.cited
    BY <1>b, <1>c DEF DocInv, ChunksAreParsed
  <1>5. /\ accepted'[d] = text[i]
        /\ \A e \in Known \ {d} : accepted'[e] = accepted[e]
    BY <1>a, <1>b, <1>t DEF DocTypes
  <1>6. text[i] \notin Blank => Citable(accepted[d])'
    <2>1. PICK e \in Known \ {d} : docs[e].hash = text[i] /\ docs[e].status = "parsed"
      BY <1>a DEF Holders
    <2>2. text[i] \notin Blank =>
             (docs[e].chunks = text[i] /\ docs[e].cited) \/ <<e, text[i]>> \in torn
      BY <1>b, <2>1 DEF DocInv, HashIsChunked, ChunksAreParsed
    <2>3. docs'[e] = docs[e] /\ e \in Known'
      BY <1>a, <1>b, <1>t, RowFacts DEF Known, DocTypes
    <2>4. torn \subseteq torn' /\ d' = d
      BY <1>a DEF WriteRow
    <2>5. QED
      BY <1>5, <2>2, <2>3, <2>4 DEF Citable
  <1>7. QED
    BY <1>a, <1>b, <1>c, <1>1, <1>2, <1>3, <1>4, <1>5, <1>6, RowWritten

LEMMA CommitKeepsDocs == ASSUME DocInv, NEW i \in Ingest, Commit(i) PROVE DocInv'
  <1> DEFINE d == target[i]
             row == [docs[d] EXCEPT !.hash = text[i], !.status = "parsed", !.cited = TRUE,
                                    !.chunks = IF text[i] \in Blank THEN @ ELSE text[i]]
  <1>a. /\ ingest[i] = "written" /\ Running(i)
        /\ WriteRow(i, row) /\ docs' = [docs EXCEPT ![d] = row]
        /\ accepted' = [accepted EXCEPT ![d] = text[i]]
        /\ IngestEnds(i, "done") /\ ingest' = [ingest EXCEPT ![i] = "done"]
        /\ UNCHANGED <<blob, target, given, text>>
    BY DEF Commit, WriteRow, IngestEnds, Running
  <1>b. /\ d \in Known /\ d \in Doc /\ docs[d] \in Row
        /\ text[i] \in Content /\ text[i] # NoText
    BY <1>a, AtWorkOnDoc
  <1>c. /\ row \in Row /\ row.status = "parsed" /\ row.hash = text[i] /\ row.cited
        /\ row.chunks = IF text[i] \in Blank THEN docs[d].chunks ELSE text[i]
    BY <1>b DEF Row
  <1> HIDE DEF row
  <1>t. DocTypes
    BY DEF DocInv
  <1>1. DocTypes'
    BY <1>t, <1>a, <1>b, <1>c DEF DocTypes, Stages
  <1>2. /\ \A e \in Known \ {d} : docs[e].hash # text[i]
        /\ \A j \in Ingest \ {i} :
              ingest[j] = "written" => target[j] # d /\ text[j] # text[i]
        /\ text[i] \notin Blank => docs[d].chunks = NoText
    BY <1>a DEF DocInv, FlushedIsOwn
  <1>3. /\ accepted'[d] = text[i]
        /\ \A e \in Known \ {d} : accepted'[e] = accepted[e]
    BY <1>a, <1>b, <1>t DEF DocTypes
  <1>4. docs'[d] = row /\ d \in Known' /\ d' = d
    BY <1>a, <1>b, <1>c, <1>t, RowFacts DEF Known, DocTypes
  <1>5. text[i] \notin Blank => Citable(accepted[d])'
    BY <1>3, <1>4, <1>c DEF Citable
  <1>6. QED
    BY <1>a, <1>b, <1>c, <1>1, <1>2, <1>3, <1>5, RowWritten

LEMMA EmbedFailsKeepsDocs == ASSUME DocInv, NEW i \in Ingest, EmbedFails(i) PROVE DocInv'
  <1> DEFINE d == target[i]
             row == [docs[d] EXCEPT !.hash = text[i], !.cited = TRUE]
  <1>a. /\ Running(i) /\ RowFree(i) /\ ~HashTaken(i)
        /\ WriteRow(i, row) /\ docs' = [docs EXCEPT ![d] = row]
        /\ accepted' = accepted
        /\ IngestEnds(i, "failed") /\ ingest' = [ingest EXCEPT ![i] = "failed"]
        /\ UNCHANGED <<blob, target, given, text>>
    BY DEF EmbedFails, WriteRow, IngestEnds, Running
  <1>b. /\ d \in Known /\ d \in Doc /\ docs[d] \in Row
        /\ text[i] \in Content /\ text[i] # NoText
    BY <1>a, AtWorkOnDoc
  <1>c. /\ row \in Row /\ row.status = docs[d].status /\ row.hash = text[i] /\ row.cited
        /\ row.chunks = docs[d].chunks
    BY <1>b DEF Row
  <1> HIDE DEF row
  <1>t. DocTypes
    BY DEF DocInv
  <1>1. DocTypes'
    BY <1>t, <1>a, <1>b, <1>c DEF DocTypes, Stages
  <1>2. /\ \A e \in Known \ {d} : docs[e].hash # text[i]
        /\ \A j \in Ingest \ {i} :
              ingest[j] = "written" => target[j] # d /\ text[j] # text[i]
    BY <1>a DEF HashTaken, RowFree
  <1>3. row.chunks # NoText => row.status = "parsed"
    BY <1>b, <1>c DEF DocInv, ChunksAreParsed
  <1>4. \A e \in Known : /\ docs'[e] # NoDoc /\ e \in Doc
                         /\ docs[e].chunks # NoText => docs'[e].chunks = docs[e].chunks
                         /\ docs[e].cited => docs'[e].cited
    BY <1>a, <1>b, <1>c, <1>t, RowFacts DEF Known, DocTypes
  <1>5. row.status = "parsed" =>
           accepted[d] \in Content /\ (accepted[d] \notin Blank => Citable(accepted[d]))
    BY <1>b, <1>c DEF DocInv, AcceptedIsCitable
  <1>6. torn \subseteq torn'
    BY <1>a DEF WriteRow
  <1>7. \A c \in Content : Citable(c) => Citable(c)'
    BY <1>4, <1>6, CitableStays
  <1>8. row.status = "parsed" => (accepted[d] \notin Blank => Citable(accepted[d])')
    BY <1>a, <1>5, <1>7 DEF Citable
  <1>9. QED
    BY <1>a, <1>b, <1>c, <1>1, <1>2, <1>3, <1>5, <1>8, RowWritten

LEMMA IngestKeepsDocs == ASSUME DocInv, NEW i \in Ingest, IngestStep(i) PROVE DocInv'
  BY ParsesKeepDocs, WriteKeepsDocs, DeduplicateKeepsDocs, CommitKeepsDocs,
     EmbedFailsKeepsDocs DEF IngestStep

LEMMA DocIdle == ASSUME DocInv, UNCHANGED documents PROVE DocInv'
  <1>1. UNCHANGED <<docs, blob, ingest, target, given, text, accepted, torn>>
    BY DEF documents, jobs
  <1>2. DocTypes' /\ RunsHaveDocs'
    BY <1>1 DEF DocInv, DocTypes, RunsHaveDocs, Running, Known
  <1>3. QED
    BY <1>1, <1>2, RowsStay

LEMMA ParsedFromDocs == DocInv => ParsedIsCitedOnce
  <1> SUFFICES ASSUME DocInv PROVE ParsedIsCitedOnce
    OBVIOUS
  <1>1. OneCopy
    <2> SUFFICES ASSUME NEW d \in Known, NEW e \in Known, d # e,
                        \A c \in Content : <<d, c>> \notin torn /\ <<e, c>> \notin torn,
                        docs[d].chunks # NoText
                 PROVE  docs[d].chunks # docs[e].chunks
      BY DEF OneCopy
    <2>1. ASSUME NEW x \in {d, e}, docs[x].chunks # NoText PROVE docs[x].hash = docs[x].chunks
      <3>1. docs[x] \in Row
        BY RowFacts DEF DocInv
      <3>2. docs[x].hash \in Content /\ docs[x].status = "parsed"
        BY <2>1, <3>1 DEF DocInv, ChunksAreParsed, Row
      <3>3. <<x, docs[x].hash>> \notin torn /\ docs[x].hash # NoText /\ x \in Known
        BY <3>2, RowFacts
      <3>4. QED
        BY <2>1, <3>2, <3>3 DEF DocInv, HashIsChunked
    <2>2. QED
      BY <2>1 DEF DocInv, HashUnique
  <1>2. ParsedIsCitable
    BY DEF DocInv, AcceptedIsCitable, Citable, ParsedIsCitable
  <1>3. QED
    BY <1>1, <1>2 DEF ParsedIsCitedOnce

-----------------------------------------------------------------------------
\* Profile: the inductive invariant

Profile == [value : [Field -> {"none", "inferred", "owner"}], overrides : SUBSET Field]

ProfileTypes ==
    /\ profile \in Profile \cup {NoProfile}
    /\ access \in [Writer -> {"none", "loaded", "sent", "over", "refused"}]
    /\ loaded \in [Writer -> Profile \cup {NoProfile}]
    /\ fields \in [Writer -> SUBSET Field]

AtWork(w) == access[w] \in {"loaded", "sent"}

\* The owner has set the field.
Owned(f) == profile # NoProfile /\ profile.value[f] = "owner"

\* At most one writer has sent its columns.
OneSends == \A v, w \in Writer : access[v] = "sent" /\ access[w] = "sent" => v = w

\* An owned field is an override, a build at work leaves it alone and a request
\* at work keeps it an override; unless it was exposed to a lost update.
OwnedIsKept ==
    \A f \in Field : Owned(f) /\ f \notin exposed =>
        /\ f \in profile.overrides
        /\ \A w \in Writer : AtWork(w) => IF w \in Brain THEN f \notin fields[w] ELSE f \in Keys(w)

IdleSetsNothing == \A w \in Writer : ~AtWork(w) => fields[w] = {}

ProfileInv == ProfileTypes /\ OneSends /\ OwnedIsKept /\ IdleSetsNothing

-----------------------------------------------------------------------------
\* Profile: the steps

LEMMA ProfileStarts == ProfileInit => ProfileInv
  BY DEF ProfileInit, ProfileInv, ProfileTypes, OneSends, OwnedIsKept, IdleSetsNothing, Owned,
     AtWork

LEMMA ProfileIdle == ASSUME ProfileInv, UNCHANGED profiles PROVE ProfileInv'
  BY DEF profiles, ProfileInv, ProfileTypes, OneSends, OwnedIsKept, IdleSetsNothing, Owned,
     AtWork, Keys

\* What a writer may do short of storing: it begins, it sends or it is over.
LEMMA AccessSteps ==
    ASSUME ProfileInv, NEW w \in Writer, UNCHANGED <<profile, exposed>>,
           NEW how \in {"loaded", "sent", "refused", "none"}, access' = [access EXCEPT ![w] = how],
           NEW F \in SUBSET Field, fields' = [fields EXCEPT ![w] = F],
           NEW base \in Profile \cup {NoProfile}, loaded' = [loaded EXCEPT ![w] = base],
           how = "sent" => ProfileFree(w),
           how \in {"refused", "none"} => F = {},
           how \in {"loaded", "sent"} =>
              \A f \in Field : Owned(f) /\ f \notin exposed =>
                 IF w \in Brain THEN f \notin F
                 ELSE f \in F \cup (IF base = NoProfile THEN {} ELSE base.overrides)
    PROVE  ProfileInv'
  <1>1. /\ \A v \in Writer \ {w} : /\ access'[v] = access[v] /\ fields'[v] = fields[v]
                                   /\ loaded'[v] = loaded[v]
        /\ access'[w] = how /\ fields'[w] = F /\ loaded'[w] = base
    BY DEF ProfileInv, ProfileTypes
  <1>2. ProfileTypes'
    BY DEF ProfileInv, ProfileTypes
  <1>3. OneSends'
    BY <1>1 DEF ProfileInv, OneSends, ProfileFree
  <1>4. IdleSetsNothing'
    BY <1>1 DEF ProfileInv, IdleSetsNothing, AtWork
  <1>5. OwnedIsKept'
    <2> SUFFICES ASSUME NEW f \in Field, Owned(f)', f \notin exposed'
                 PROVE  /\ f \in profile'.overrides
                        /\ \A v \in Writer : AtWork(v)' =>
                              IF v \in Brain THEN f \notin fields'[v] ELSE f \in Keys(v)'
      BY DEF OwnedIsKept
    <2>1. Owned(f) /\ f \notin exposed
      BY DEF Owned
    <2>2. f \in profile'.overrides
      BY <2>1 DEF ProfileInv, OwnedIsKept
    <2>3. ASSUME NEW v \in Writer, AtWork(v)'
          PROVE  IF v \in Brain THEN f \notin fields'[v] ELSE f \in Keys(v)'
      <3>1. CASE v = w
        BY <1>1, <2>1, <2>3, <3>1 DEF AtWork, Keys
      <3>2. CASE v # w
        BY <1>1, <2>1, <2>3, <3>2 DEF AtWork, Keys, ProfileInv, OwnedIsKept
      <3>3. QED
        BY <3>1, <3>2
    <2>4. QED
      BY <2>2, <2>3
  <1>6. QED
    BY <1>2, <1>3, <1>4, <1>5 DEF ProfileInv

LEMMA LoadKeepsProfile ==
    ASSUME ProfileInv, NEW w \in Writer, Load(w) \/ LoadFull(w) \/ Send(w) \/ Undo(w)
    PROVE  ProfileInv'
  <1>t. /\ access \in [Writer -> {"none", "loaded", "sent", "over", "refused"}]
        /\ loaded \in [Writer -> Profile \cup {NoProfile}]
        /\ fields \in [Writer -> SUBSET Field]
        /\ profile \in Profile \cup {NoProfile}
        /\ \A f \in Field : Owned(f) /\ f \notin exposed => f \in profile.overrides
        /\ \A f \in Field : Owned(f) => profile # NoProfile
    BY DEF ProfileInv, ProfileTypes, OwnedIsKept, Owned
  <1>1. CASE Load(w)
    <2>1. access[w] = "none" /\ fields[w] = {}
      BY <1>1 DEF Load, ProfileInv, IdleSetsNothing, AtWork
    <2>2. CASE w \in Patch /\ profile = NoProfile
      <3>1. /\ access' = [access EXCEPT ![w] = "refused"]
            /\ fields' = [fields EXCEPT ![w] = {}]
            /\ loaded' = [loaded EXCEPT ![w] = profile]
            /\ UNCHANGED <<profile, exposed>>
        BY <1>1, <1>t, <2>1, <2>2 DEF Load
      <3>2. QED
        BY <3>1, <1>t, AccessSteps
    <2>3. CASE ~(w \in Patch /\ profile = NoProfile)
      <3>1. PICK F \in SUBSET Field \ {{}} :
              /\ w \in Brain => F = Inferable(IF profile = NoProfile THEN {} ELSE profile.overrides)
              /\ fields' = [fields EXCEPT ![w] = F]
        BY <1>1, <2>3 DEF Load
      <3>2. /\ access' = [access EXCEPT ![w] = "loaded"]
            /\ loaded' = [loaded EXCEPT ![w] = profile]
            /\ UNCHANGED <<profile, exposed>>
        BY <1>1, <2>3 DEF Load
      <3>3. \A f \in Field : Owned(f) /\ f \notin exposed =>
                 IF w \in Brain THEN f \notin F
                 ELSE f \in F \cup (IF profile = NoProfile THEN {} ELSE profile.overrides)
        BY <1>t, <3>1 DEF Inferable
      <3>4. QED
        BY <1>t, <3>1, <3>2, <3>3, AccessSteps
    <2>4. QED
      BY <2>2, <2>3
  <1>2. CASE LoadFull(w)
    <2>1. access[w] = "none" /\ fields[w] = {} /\ w \in Brain
      BY <1>2 DEF LoadFull, ProfileInv, IdleSetsNothing, AtWork
    <2>2. /\ access' = [access EXCEPT ![w] = "loaded"]
          /\ fields' = [fields EXCEPT ![w] = {}]
          /\ loaded' = [loaded EXCEPT ![w] = profile]
          /\ UNCHANGED <<profile, exposed>>
      BY <1>2, <1>t, <2>1 DEF LoadFull
    <2>3. QED
      BY <1>t, <2>1, <2>2, AccessSteps
  <1>3. CASE Send(w)
    <2>1. access[w] = "loaded" /\ AtWork(w) /\ ProfileFree(w)
      BY <1>3 DEF Send, AtWork
    <2>2. /\ access' = [access EXCEPT ![w] = "sent"]
          /\ fields' = [fields EXCEPT ![w] = fields[w]]
          /\ loaded' = [loaded EXCEPT ![w] = loaded[w]]
          /\ UNCHANGED <<profile, exposed>>
      BY <1>3, <1>t DEF Send
    <2>3. \A f \in Field : Owned(f) /\ f \notin exposed =>
             IF w \in Brain THEN f \notin fields[w]
             ELSE f \in fields[w] \cup (IF loaded[w] = NoProfile THEN {} ELSE loaded[w].overrides)
      BY <2>1 DEF ProfileInv, OwnedIsKept, Keys
    <2>4. QED
      BY <1>t, <2>1, <2>2, <2>3, AccessSteps
  <1>4. CASE Undo(w)
    <2>1. PICK how \in {"none", "refused"} : access' = [access EXCEPT ![w] = how]
      BY <1>4 DEF Undo
    <2>2. /\ fields' = [fields EXCEPT ![w] = {}]
          /\ loaded' = [loaded EXCEPT ![w] = NoProfile]
          /\ UNCHANGED <<profile, exposed>>
      BY <1>4 DEF Undo
    <2>3. QED
      BY <2>1, <2>2, AccessSteps
  <1>5. QED
    BY <1>1, <1>2, <1>3, <1>4

\* What a writer at work stores.
LEMMA StoredValue ==
    ASSUME ProfileInv, NEW w \in Writer, Store(w)
    PROVE  /\ AtWork(w) /\ profile' \in Profile
           /\ \A f \in Field : profile'.value[f] =
                 IF f \in fields[w] THEN Origin(w)
                 ELSE IF profile = NoProfile THEN "none" ELSE profile.value[f]
           /\ profile'.overrides = IF w \in Brain
                 THEN IF profile = NoProfile THEN {} ELSE profile.overrides ELSE Keys(w)
           /\ \A v \in Writer \ {w} : /\ access'[v] = access[v] /\ fields'[v] = fields[v]
                                      /\ loaded'[v] = loaded[v] /\ access[v] # "sent"
           /\ access[w] = "sent" /\ access'[w] = "over" /\ fields'[w] = {}
           /\ Keys(w) \subseteq Field
  <1>t. /\ access \in [Writer -> {"none", "loaded", "sent", "over", "refused"}]
        /\ loaded \in [Writer -> Profile \cup {NoProfile}]
        /\ fields \in [Writer -> SUBSET Field]
        /\ profile \in Profile \cup {NoProfile}
    BY DEF ProfileInv, ProfileTypes
  <1>1. /\ access[w] = "sent" /\ access' = [access EXCEPT ![w] = "over"] /\ profile' = Stored(w)
        /\ loaded' = [loaded EXCEPT ![w] = NoProfile] /\ fields' = [fields EXCEPT ![w] = {}]
    BY DEF Store
  <1>2. Keys(w) \subseteq Field
    BY <1>t DEF Keys, Profile
  <1>3. profile' \in Profile /\ \A f \in Field : profile'.value[f] =
                 IF f \in fields[w] THEN Origin(w)
                 ELSE IF profile = NoProfile THEN "none" ELSE profile.value[f]
    BY <1>t, <1>1, <1>2 DEF Stored, Profile, Empty, Origin
  <1>4. profile'.overrides = IF w \in Brain
                 THEN IF profile = NoProfile THEN {} ELSE profile.overrides ELSE Keys(w)
    BY <1>1 DEF Stored, Empty
  <1>5. \A v \in Writer \ {w} : /\ access'[v] = access[v] /\ fields'[v] = fields[v]
                                /\ loaded'[v] = loaded[v] /\ access[v] # "sent"
    BY <1>t, <1>1 DEF ProfileInv, OneSends
  <1>6. QED
    BY <1>t, <1>1, <1>2, <1>3, <1>4, <1>5 DEF AtWork

LEMMA StoreKeepsProfile == ASSUME ProfileInv, NEW w \in Writer, Store(w) PROVE ProfileInv'
  <1>1. ProfileTypes'
    BY StoredValue DEF ProfileInv, ProfileTypes, Store
  <1>2. OneSends' /\ IdleSetsNothing'
    BY StoredValue DEF ProfileInv, OneSends, IdleSetsNothing, AtWork
  <1>3. OwnedIsKept'
    <2> SUFFICES ASSUME NEW f \in Field, Owned(f)', f \notin exposed'
                 PROVE  /\ f \in profile'.overrides
                        /\ \A v \in Writer : AtWork(v)' =>
                              IF v \in Brain THEN f \notin fields'[v] ELSE f \in Keys(v)'
      BY DEF OwnedIsKept
    <2>1. profile'.value[f] = "owner" /\ f \notin exposed
      BY DEF Owned, Store
    <2>2. \A v \in Writer : AtWork(v)' => v # w /\ access[v] = "loaded" /\ AtWork(v)
      BY StoredValue DEF AtWork
    <2>3. CASE f \in fields[w]
      <3>1. w \notin Brain
        BY <2>1, <2>3, StoredValue DEF Origin
      <3>2. f \in profile'.overrides
        BY <2>3, <3>1, StoredValue DEF Keys
      <3>3. \A v \in Writer \ {w} : access[v] # "loaded"
        BY <2>3, <3>1 DEF Store
      <3>4. QED
        BY <2>2, <3>2, <3>3
    <2>4. CASE f \notin fields[w]
      <3>1. Owned(f)
        BY <2>1, <2>4, StoredValue DEF Owned
      <3>2. /\ f \in profile.overrides
            /\ \A v \in Writer : AtWork(v) =>
                  IF v \in Brain THEN f \notin fields[v] ELSE f \in Keys(v)
        BY <2>1, <3>1 DEF ProfileInv, OwnedIsKept
      <3>3. f \in profile'.overrides
        BY <3>1, <3>2, StoredValue DEF Owned
      <3>4. QED
        BY <2>2, <3>2, <3>3, StoredValue DEF Keys
    <2>5. QED
      BY <2>3, <2>4
  <1>4. QED
    BY <1>1, <1>2, <1>3 DEF ProfileInv

\* A value of the owner's that a build replaces had been exposed.
LEMMA StoreRespectsOwner ==
    ASSUME ProfileInv, NEW w \in Writer, Store(w), NEW f \in Field, Owned(f),
           profile'.value[f] = "inferred"
    PROVE  f \in exposed
  <1>1. f \in fields[w] /\ w \in Brain /\ AtWork(w)
    BY StoredValue DEF Owned, Origin
  <1>2. QED
    BY <1>1 DEF ProfileInv, OwnedIsKept

-----------------------------------------------------------------------------
\* Evidence: the inductive invariant

EvidenceTypes ==
    /\ items \subseteq Item
    /\ matches \subseteq Match
    /\ stage \in [Run -> {"idle", "queued", "acquired", "erasing", "mapping", "resolved", "loaded",
                          "sent", "deleting", "replaced", "done", "failed", "given up"}]
    /\ request \in [Gap \cap crew -> Requests]
    /\ vault \in [Map -> SUBSET Item]
    /\ todo \in [Map -> SUBSET Requirement]
    /\ fresh \in [Run -> SUBSET Item]
    /\ made \in [Run -> SUBSET Match]
    /\ sought \in [Run -> SUBSET (Run \X Requirement)]
    /\ erased \in [Run -> SUBSET Match]
    /\ doomed \in [Brain -> SUBSET Item]

Over(x) == stage[x] \in {"done", "failed", "given up"}

\* The stages of each kind of run.
StageOfKind(x) ==
    /\ x \in Map => stage[x] \in {"queued", "acquired", "erasing", "mapping", "done", "failed"}
    /\ x \in Gap => stage[x] \in {"queued", "erasing", "resolved", "done", "failed", "given up"}
    /\ x \in Brain => stage[x] \in {"queued", "loaded", "sent", "deleting", "replaced", "done",
                                    "failed"}

\* What a run has written is its own, and it writes only at work.
WritesOwn(x) ==
    /\ \A item \in fresh[x] : item.by = x /\ (x \notin Map => item.of = NoDoc)
    /\ \A mt \in made[x] : mt.by = x
    /\ stage[x] \notin {"mapping", "resolved"} => made[x] = {} /\ erased[x] = {}
    /\ ~Active(x) => fresh[x] = {}
    /\ stage[x] = "resolved" => \A mt \in made[x] : mt.req = request[x].req
    /\ x \in Brain => \A item \in doomed[x] : Inferred(item)

\* A verdict a run is about to commit cites evidence, and the owner's if it
\* resolves a gap.
VerdictsCite(x) ==
    \A mt \in made[x] :
        /\ mt.status # "missing" => mt.item # NoItem
        /\ x \in Gap => mt.item # NoItem /\ UserProvided(mt.item)

\* Runs of the filing that are active at once know of each other.
KnowsOthers(x) ==
    \A y \in (Map \cup Gap) \ {x} :
        x \in Map \cup Gap /\ Active(x) /\ Active(y) => {x, y} \in together

\* What a run is going to leave beside its own matches and items comes from runs
\* it overlaps with.
LeavesOverlaps(x) ==
    /\ stage[x] = "erasing" =>
          \A mt \in matches : (x \in Gap => mt.req = request[x].req) =>
             <<mt.by, mt.req>> \in sought[x] \/ {x, mt.by} \in together
    /\ stage[x] = "mapping" => \A mt \in matches \ erased[x] : {x, mt.by} \in together
    /\ stage[x] = "resolved" =>
          \A mt \in matches \ erased[x] : mt.req = request[x].req => {x, mt.by} \in together
    /\ \A item \in fresh[x] : \A y \in items :
          item.of = y.of /\ item.of # NoDoc => {x, y.by} \in together

\* What a run has erased others had committed.
ErasesCommitted(x) == \A mt \in erased[x] : Over(mt.by)

RunInv(x) ==
    /\ StageOfKind(x) /\ WritesOwn(x) /\ VerdictsCite(x) /\ KnowsOthers(x)
    /\ LeavesOverlaps(x) /\ ErasesCommitted(x)

\* A build of the profile that sets matches to NULL takes none that is erased.
Unerased(b) == stage[b] = "replaced" => \A x \in Run : erased[x] \cap Citing(b) = {}

EvidenceInv ==
    /\ EvidenceTypes
    /\ \A x \in Run : RunInv(x)
    /\ \A mt \in matches : Over(mt.by)
    /\ \A b \in Brain : Unerased(b)
    /\ UncitedOnlyByReplacement
    /\ RepeatedOnlyByOverlap

-----------------------------------------------------------------------------
\* Evidence: the steps

LEMMA Kinds ==
    /\ Map \cap Gap = {} /\ Map \cap Brain = {} /\ Gap \cap Brain = {}
    /\ Map \subseteq Run /\ Gap \subseteq Run /\ Brain \subseteq Run
    /\ \A x \in Run : x \in Map \/ x \in Gap \/ x \in Brain
    /\ \A mt \in Match : mt.by \in Run /\ mt.by \in Map \cup Gap
  BY EvidenceAssumption DEF Run, Match

LEMMA EvidenceStarts == Init => EvidenceInv
  <1> SUFFICES ASSUME Init PROVE EvidenceInv
    OBVIOUS
  <1>1. EvidenceTypes
    BY DEF Init, EvidenceTypes
  <1>2. ASSUME NEW x \in Run PROVE RunInv(x)
    BY Kinds DEF Init, RunInv, StageOfKind, WritesOwn, VerdictsCite, KnowsOthers, LeavesOverlaps,
       ErasesCommitted, Active
  <1>3. /\ \A b \in Brain : Unerased(b)
        /\ UncitedOnlyByReplacement /\ RepeatedOnlyByOverlap
        /\ matches = {}
    BY Kinds DEF Init, Unerased, UncitedOnlyByReplacement, UncitedIsUnlinked, OwnerStaysCited,
       RepeatedOnlyByOverlap, OneVerdict, EvidenceOnce
  <1>4. QED
    BY <1>1, <1>2, <1>3 DEF EvidenceInv

\* A run that stops or goes on, and leaves what is committed alone.
LEMMA OwnStep ==
    ASSUME EvidenceInv, EvidenceTypes', NEW x \in Run, ~Over(x),
           UNCHANGED <<crew, items, matches, request, unlinked>>, together \subseteq together',
           \A y \in Run \ {x} : /\ stage'[y] = stage[y] /\ fresh'[y] = fresh[y]
                                /\ made'[y] = made[y] /\ erased'[y] = erased[y]
                                /\ sought'[y] = sought[y]
                                /\ y \in Brain => doomed'[y] = doomed[y],
           RunInv(x)',
           \A b \in Brain \ {x} : stage[b] = "replaced" => erased'[x] \cap Citing(b) = {},
           x \in Brain => Unerased(x)'
    PROVE  EvidenceInv'
  <1>1. ASSUME NEW y \in Run PROVE RunInv(y)'
    <2> SUFFICES ASSUME y # x PROVE RunInv(y)'
      OBVIOUS
    <2>1. RunInv(y) /\ \A mt \in erased[y] : mt.by \in Run
      BY Kinds DEF EvidenceInv, EvidenceTypes
    <2>2. StageOfKind(y)' /\ WritesOwn(y)' /\ VerdictsCite(y)'
      BY <2>1 DEF RunInv, StageOfKind, WritesOwn, VerdictsCite, Active, Inferred, UserProvided
    <2>3. KnowsOthers(y)'
      <3> SUFFICES ASSUME NEW z \in (Map \cup Gap) \ {y}, y \in Map \cup Gap, Active(y)', Active(z)'
                   PROVE  {y, z} \in together'
        BY DEF KnowsOthers
      <3>1. Active(y) /\ z \in Run
        BY Kinds DEF Active
      <3>2. CASE z = x
        BY <3>1, <3>2 DEF RunInv, KnowsOthers
      <3>3. CASE z # x
        BY <2>1, <3>1, <3>3 DEF RunInv, KnowsOthers, Active
      <3>4. QED
        BY <3>2, <3>3
    <2>4. LeavesOverlaps(y)'
      BY <2>1 DEF RunInv, LeavesOverlaps
    <2>5. ErasesCommitted(y)'
      BY <2>1 DEF RunInv, ErasesCommitted, Over
    <2>6. QED
      BY <2>2, <2>3, <2>4, <2>5 DEF RunInv
  <1>2. \A mt \in matches' : Over(mt.by)'
    BY Kinds DEF EvidenceInv, EvidenceTypes, Over
  <1>3. ASSUME NEW b \in Brain PROVE Unerased(b)'
    <2> SUFFICES ASSUME b # x, stage'[b] = "replaced", NEW y \in Run
                 PROVE  erased'[y] \cap Citing(b)' = {}
      BY DEF Unerased
    <2>1. stage[b] = "replaced" /\ Citing(b)' = Citing(b)
      BY Kinds DEF Citing
    <2>2. QED
      BY <2>1 DEF EvidenceInv, Unerased
  <1>4. UncitedOnlyByReplacement'
    BY DEF EvidenceInv, UncitedOnlyByReplacement, UncitedIsUnlinked, OwnerStaysCited, UserProvided,
       Inferred
  <1>5. RepeatedOnlyByOverlap'
    BY DEF EvidenceInv, RepeatedOnlyByOverlap, OneVerdict, EvidenceOnce
  <1>6. QED
    BY <1>1, <1>2, <1>3, <1>4, <1>5 DEF EvidenceInv

LEMMA Moves ==
    ASSUME EvidenceTypes, NEW x \in Run, NEW to, Goes(x, to)
    PROVE  stage'[x] = to /\ \A y \in Run \ {x} : stage'[y] = stage[y]
  BY DEF EvidenceTypes, Goes

\* A session that is closed leaves nothing of the run and all of the others.
LEMMA Closes ==
    ASSUME EvidenceTypes, NEW x \in Run, Closed(x)
    PROVE  /\ fresh'[x] = {} /\ made'[x] = {} /\ erased'[x] = {}
           /\ x \in Brain => doomed'[x] = {}
           /\ \A y \in Run \ {x} : /\ fresh'[y] = fresh[y] /\ made'[y] = made[y]
                                   /\ erased'[y] = erased[y] /\ sought'[y] = sought[y]
                                   /\ y \in Brain => doomed'[y] = doomed[y]
           /\ vault' \in [Map -> SUBSET Item] /\ todo' \in [Map -> SUBSET Requirement]
           /\ fresh' \in [Run -> SUBSET Item] /\ made' \in [Run -> SUBSET Match]
           /\ sought' \in [Run -> SUBSET (Run \X Requirement)]
           /\ erased' \in [Run -> SUBSET Match] /\ doomed' \in [Brain -> SUBSET Item]
  BY DEF EvidenceTypes, Closed

LEMMA BeginsKnown ==
    ASSUME EvidenceTypes, NEW x \in Map \cup Gap, Begins(x),
           \A y \in Run \ {x} : stage'[y] = stage[y]
    PROVE  KnowsOthers(x)' /\ together \subseteq together'
  BY Kinds DEF Begins, KnowsOthers, Active

LEMMA AcquireKeeps == ASSUME EvidenceInv, NEW m \in Map, Acquire(m) PROVE EvidenceInv'
  <1>t. EvidenceTypes /\ RunInv(m) /\ m \in Run /\ m \notin Gap /\ m \notin Brain
    BY Kinds DEF EvidenceInv
  <1>1. PICK D \in SUBSET Acquirable : fresh' = [fresh EXCEPT ![m] = [by : {m}, of : D]]
    BY DEF Acquire
  <1>2. /\ stage[m] = "queued" /\ stage'[m] = "acquired"
        /\ \A y \in Run \ {m} : stage'[y] = stage[y]
        /\ UNCHANGED <<crew, items, matches, request, vault, todo, made, sought, erased, doomed,
                       unlinked>>
    BY <1>t, Moves DEF Acquire
  <1>3. [by : {m}, of : D] \subseteq Item
    BY <1>t DEF Item, Acquirable, Known
  <1>4. EvidenceTypes'
    BY <1>t, <1>1, <1>2, <1>3 DEF EvidenceTypes, Acquire, Goes
  <1>5. fresh'[m] = [by : {m}, of : D] /\ \A y \in Run \ {m} : fresh'[y] = fresh[y]
    BY <1>t, <1>1 DEF EvidenceTypes
  <1>6. made[m] = {} /\ erased[m] = {}
    BY <1>t, <1>2 DEF RunInv, WritesOwn
  <1>7. KnowsOthers(m)' /\ together \subseteq together'
    BY <1>t, <1>2, BeginsKnown DEF Acquire
  <1>8. RunInv(m)'
    <2>1. StageOfKind(m)' /\ WritesOwn(m)' /\ VerdictsCite(m)' /\ ErasesCommitted(m)'
      BY <1>t, <1>2, <1>5, <1>6
         DEF StageOfKind, WritesOwn, VerdictsCite, ErasesCommitted, Active
    <2>2. LeavesOverlaps(m)'
      BY <1>2, <1>5 DEF LeavesOverlaps, Acquirable
    <2>3. QED
      BY <1>7, <2>1, <2>2 DEF RunInv
  <1>9. QED
    BY <1>t, <1>2, <1>4, <1>5, <1>6, <1>7, <1>8, OwnStep DEF Over

\* What a statement finds is in the tables.
LEMMA Finds ==
    ASSUME EvidenceTypes, NEW x \in Run, NEW S \in SUBSET matches, Seeks(x, S)
    PROVE  /\ sought' \in [Run -> SUBSET (Run \X Requirement)]
           /\ sought'[x] = {<<mt.by, mt.req>> : mt \in S}
           /\ \A y \in Run \ {x} : sought'[y] = sought[y]
  <1>1. {<<mt.by, mt.req>> : mt \in S} \in SUBSET (Run \X Requirement)
    <2>1. \A mt \in Match : mt.by \in Run /\ mt.req \in Requirement
      BY Kinds DEF Match
    <2>2. \A mt \in S : mt \in Match
      BY DEF EvidenceTypes
    <2>3. QED
      BY <2>1, <2>2
  <1>2. QED
    BY <1>1 DEF EvidenceTypes, Seeks

LEMMA MapBeginsKeeps == ASSUME EvidenceInv, NEW m \in Map, MapBegins(m) PROVE EvidenceInv'
  <1>t. EvidenceTypes /\ RunInv(m) /\ m \in Run /\ m \notin Gap /\ m \notin Brain
    BY Kinds DEF EvidenceInv
  <1>1. /\ stage[m] = "acquired" /\ stage'[m] = "erasing"
        /\ \A y \in Run \ {m} : stage'[y] = stage[y]
        /\ UNCHANGED <<crew, items, matches, request, fresh, made, erased, doomed, unlinked,
                       together>>
    BY <1>t, Moves DEF MapBegins
  <1>2. Seeks(m, matches)
    BY DEF MapBegins
  <1>3. EvidenceTypes'
    BY <1>t, <1>1, <1>2, Finds DEF EvidenceTypes, MapBegins, Goes
  <1>4. made[m] = {} /\ erased[m] = {}
    BY <1>t, <1>1 DEF RunInv, WritesOwn
  <1>5. RunInv(m)'
    <2>1. StageOfKind(m)' /\ WritesOwn(m)' /\ VerdictsCite(m)' /\ ErasesCommitted(m)'
      BY <1>t, <1>1, <1>4
         DEF RunInv, StageOfKind, WritesOwn, VerdictsCite, ErasesCommitted, Active
    <2>2. KnowsOthers(m)'
      BY <1>t, <1>1, Kinds DEF RunInv, KnowsOthers, Active
    <2>3. LeavesOverlaps(m)'
      BY <1>t, <1>1, <1>2, Finds DEF RunInv, LeavesOverlaps
    <2>4. QED
      BY <2>1, <2>2, <2>3 DEF RunInv
  <1>6. QED
    BY <1>t, <1>1, <1>2, <1>3, <1>4, <1>5, Finds, OwnStep DEF Over

\* What a run erases others had committed, and no build of the profile has it locked.
LEMMA ErasesFacts ==
    ASSUME EvidenceInv, NEW x \in Run, stage[x] = "erasing", Free(x), Erases(x),
           UNCHANGED matches
    PROVE  /\ erased' \in [Run -> SUBSET Match]
           /\ erased'[x] = Found(x) /\ \A y \in Run \ {x} : erased'[y] = erased[y]
           /\ \A mt \in erased'[x] : Over(mt.by) /\ mt.by \in Run /\ mt.by # x
           /\ \A b \in Brain : stage[b] = "replaced" => erased'[x] \cap Citing(b) = {}
  <1>1. EvidenceTypes /\ Found(x) \in SUBSET matches /\ matches \in SUBSET Match
    BY DEF EvidenceInv, EvidenceTypes, Found
  <1>2. /\ erased' \in [Run -> SUBSET Match] /\ erased'[x] = Found(x)
        /\ \A y \in Run \ {x} : erased'[y] = erased[y]
    BY <1>1 DEF EvidenceTypes, Erases
  <1>3. \A mt \in Found(x) : Over(mt.by) /\ mt.by \in Run /\ mt.by # x
    BY <1>1, Kinds DEF EvidenceInv, Over
  <1>4. ASSUME NEW b \in Brain, stage[b] = "replaced" PROVE Found(x) \cap Citing(b) = {}
    <2>1. ~Awaits(x, b) /\ x # b
      BY <1>4, Kinds DEF Free
    <2>2. QED
      BY <1>4, <2>1 DEF Awaits, MatchesLocked
  <1>5. QED
    BY <1>2, <1>3, <1>4

LEMMA MapErasesKeeps == ASSUME EvidenceInv, NEW m \in Map, MapErases(m) PROVE EvidenceInv'
  <1>t. EvidenceTypes /\ RunInv(m) /\ m \in Run /\ m \notin Gap /\ m \notin Brain
    BY Kinds DEF EvidenceInv
  <1>1. /\ stage[m] = "erasing" /\ stage'[m] = "mapping"
        /\ \A y \in Run \ {m} : stage'[y] = stage[y]
        /\ UNCHANGED <<crew, items, matches, request, vault, todo, fresh, made, sought, doomed,
                       unlinked, together>>
    BY <1>t, Moves DEF MapErases
  <1>2. /\ erased' \in [Run -> SUBSET Match]
        /\ erased'[m] = Found(m) /\ \A y \in Run \ {m} : erased'[y] = erased[y]
        /\ \A mt \in erased'[m] : Over(mt.by) /\ mt.by \in Run /\ mt.by # m
        /\ \A b \in Brain : stage[b] = "replaced" => erased'[m] \cap Citing(b) = {}
    BY <1>t, <1>1, ErasesFacts DEF MapErases
  <1>3. EvidenceTypes'
    BY <1>t, <1>1, <1>2 DEF EvidenceTypes, MapErases, Goes
  <1>4. made[m] = {}
    BY <1>t, <1>1 DEF RunInv, WritesOwn
  <1>5. RunInv(m)'
    <2>1. StageOfKind(m)' /\ WritesOwn(m)' /\ VerdictsCite(m)'
      BY <1>t, <1>1, <1>4 DEF RunInv, StageOfKind, WritesOwn, VerdictsCite, Active
    <2>2. KnowsOthers(m)'
      BY <1>t, <1>1, Kinds DEF RunInv, KnowsOthers, Active
    <2>3. LeavesOverlaps(m)'
      BY <1>t, <1>1, <1>2 DEF RunInv, LeavesOverlaps, Found
    <2>4. ErasesCommitted(m)'
      BY <1>1, <1>2 DEF ErasesCommitted, Over
    <2>5. QED
      BY <2>1, <2>2, <2>3, <2>4 DEF RunInv
  <1>6. QED
    BY <1>t, <1>1, <1>2, <1>3, <1>5, OwnStep DEF Over

\* What a mapping records is cited, whatever the agent answers.
LEMMA VerdictFacts ==
    ASSUME NEW status \in Answers, NEW item \in Item \cup {NoItem}
    PROVE  /\ Verdict(status, item) \in Status
           /\ Verdict(status, item) # "missing" => item # NoItem
  BY EvidenceAssumption DEF Verdict, Status

LEMMA JudgeKeeps == ASSUME EvidenceInv, NEW m \in Map, Judge(m) PROVE EvidenceInv'
  <1>t. EvidenceTypes /\ RunInv(m) /\ m \in Run /\ m \notin Gap /\ m \notin Brain
    BY Kinds DEF EvidenceInv
  <1>1. PICK r \in todo[m], status \in Answers, item \in vault[m] \cup {NoItem} :
           /\ todo' = [todo EXCEPT ![m] = @ \ {r}]
           /\ made' = [made EXCEPT ![m] = @ \cup {[by |-> m, req |-> r, item |-> item,
                                                   status |-> Verdict(status, item)]}]
    BY DEF Judge
  <1> DEFINE mt == [by |-> m, req |-> r, item |-> item, status |-> Verdict(status, item)]
  <1>2. /\ stage[m] = "mapping"
        /\ UNCHANGED <<crew, items, matches, stage, request, vault, fresh, sought, erased,
                       doomed, unlinked, together>>
    BY DEF Judge
  <1>3. r \in Requirement /\ item \in Item \cup {NoItem}
    BY <1>t DEF EvidenceTypes
  <1>4. /\ mt \in Match /\ mt.by = m
        /\ mt.status # "missing" => mt.item # NoItem
    BY <1>3, VerdictFacts DEF Match
  <1> HIDE DEF mt
  <1>5. made' = [made EXCEPT ![m] = @ \cup {mt}]
    BY <1>1 DEF mt
  <1>6. EvidenceTypes'
    <2>1. todo' = [todo EXCEPT ![m] = @ \ {r}] /\ {mt} \subseteq Match
      BY <1>1, <1>4
    <2>2. todo' \in [Map -> SUBSET Requirement] /\ made' \in [Run -> SUBSET Match]
      BY <1>t, <1>5, <2>1 DEF EvidenceTypes
    <2>3. QED
      BY <1>t, <1>2, <2>2 DEF EvidenceTypes
  <1>7. made'[m] = made[m] \cup {mt} /\ \A y \in Run \ {m} : made'[y] = made[y]
    BY <1>t, <1>5 DEF EvidenceTypes
  <1>8. RunInv(m)'
    <2>1. StageOfKind(m)' /\ WritesOwn(m)'
      BY <1>t, <1>2, <1>4, <1>7 DEF RunInv, StageOfKind, WritesOwn, Active
    <2>2. VerdictsCite(m)'
      BY <1>t, <1>4, <1>7 DEF RunInv, VerdictsCite, UserProvided
    <2>3. KnowsOthers(m)' /\ LeavesOverlaps(m)' /\ ErasesCommitted(m)'
      BY <1>t, <1>2 DEF RunInv, KnowsOthers, LeavesOverlaps, ErasesCommitted, Active, Over
    <2>4. QED
      BY <2>1, <2>2, <2>3 DEF RunInv
  <1>9. \A b \in Brain : stage[b] = "replaced" => erased'[m] \cap Citing(b) = {}
    BY <1>t, <1>2 DEF EvidenceInv, Unerased
  <1>10. QED
    BY <1>t, <1>2, <1>6, <1>7, <1>8, <1>9, OwnStep DEF Over

LEMMA ResolveKeeps == ASSUME EvidenceInv, NEW g \in Gap \cap crew, Resolve(g) PROVE EvidenceInv'
  <1> DEFINE item == [by |-> g, of |-> NoDoc]
  <1>t. EvidenceTypes /\ RunInv(g) /\ g \in Run /\ g \notin Map /\ g \notin Brain
    BY Kinds DEF EvidenceInv
  <1>1. /\ stage[g] = "queued" /\ stage'[g] = "erasing"
        /\ \A y \in Run \ {g} : stage'[y] = stage[y]
        /\ fresh' = [fresh EXCEPT ![g] = {item}]
        /\ UNCHANGED <<crew, items, matches, request, vault, todo, made, erased, doomed, unlinked>>
    BY <1>t, Moves DEF Resolve
  <1>2. {item} \subseteq Item /\ item.by = g /\ item.of = NoDoc
    BY <1>t DEF Item
  <1> HIDE DEF item
  <1>3. Seeks(g, Replaces(g)) /\ Replaces(g) \in SUBSET matches
    BY DEF Resolve, Replaces
  <1>4. /\ fresh'[g] = {item} /\ fresh' \in [Run -> SUBSET Item]
        /\ \A y \in Run \ {g} : fresh'[y] = fresh[y]
    BY <1>t, <1>1, <1>2 DEF EvidenceTypes
  <1>5. EvidenceTypes'
    BY <1>t, <1>1, <1>3, <1>4, Finds DEF EvidenceTypes, Resolve, Goes
  <1>6. made[g] = {} /\ erased[g] = {}
    BY <1>t, <1>1 DEF RunInv, WritesOwn
  <1>7. KnowsOthers(g)' /\ together \subseteq together'
    BY <1>t, <1>1, BeginsKnown DEF Resolve
  <1>8. RunInv(g)'
    <2>1. StageOfKind(g)' /\ WritesOwn(g)' /\ VerdictsCite(g)' /\ ErasesCommitted(g)'
      BY <1>t, <1>1, <1>2, <1>4, <1>6
         DEF StageOfKind, WritesOwn, VerdictsCite, ErasesCommitted, Active
    <2>2. sought'[g] = {<<mt.by, mt.req>> : mt \in Replaces(g)}
      BY <1>t, <1>3, Finds
    <2>3. LeavesOverlaps(g)'
      BY <1>1, <1>2, <1>4, <2>2 DEF LeavesOverlaps, Replaces
    <2>4. QED
      BY <1>7, <2>1, <2>3 DEF RunInv
  <1>9. \A b \in Brain : stage[b] = "replaced" => erased'[g] \cap Citing(b) = {}
    BY <1>1, <1>6
  <1>10. QED
    BY <1>t, <1>1, <1>3, <1>4, <1>5, <1>7, <1>8, <1>9, Finds, OwnStep DEF Over

LEMMA GapErasesKeeps ==
    ASSUME EvidenceInv, NEW g \in Gap \cap crew, GapErases(g) PROVE EvidenceInv'
  <1> DEFINE M == {[by |-> g, req |-> request[g].req, item |-> item,
                    status |-> "user_provided"] : item \in fresh[g]}
  <1>t. EvidenceTypes /\ RunInv(g) /\ g \in Run /\ g \notin Map /\ g \notin Brain
    BY Kinds DEF EvidenceInv
  <1>1. /\ stage[g] = "erasing" /\ stage'[g] = "resolved"
        /\ \A y \in Run \ {g} : stage'[y] = stage[y]
        /\ made' = [made EXCEPT ![g] = M]
        /\ UNCHANGED <<crew, items, matches, request, vault, todo, fresh, sought, doomed,
                       unlinked, together>>
    BY <1>t, Moves DEF GapErases
  <1>2. /\ erased' \in [Run -> SUBSET Match]
        /\ erased'[g] = Found(g) /\ \A y \in Run \ {g} : erased'[y] = erased[y]
        /\ \A mt \in erased'[g] : Over(mt.by) /\ mt.by \in Run /\ mt.by # g
        /\ \A b \in Brain : stage[b] = "replaced" => erased'[g] \cap Citing(b) = {}
    BY <1>t, <1>1, ErasesFacts DEF GapErases
  <1>3. \A item \in fresh[g] : /\ item \in Item /\ item.by = g /\ item # NoItem
                               /\ UserProvided(item)
    <2>1. fresh[g] \subseteq Item
      BY <1>t DEF EvidenceTypes
    <2>2. \A item \in fresh[g] : item.by = g
      BY <1>t DEF RunInv, WritesOwn
    <2>3. QED
      BY <2>1, <2>2, EvidenceAssumption DEF UserProvided
  <1>4. request[g].req \in Requirement
    BY <1>t DEF EvidenceTypes, Requests
  <1>5. \A mt \in M : /\ mt \in Match /\ mt.by = g /\ mt.req = request[g].req
                      /\ mt.item \in fresh[g]
    BY <1>3, <1>4 DEF Match, Status
  <1> HIDE DEF M
  <1>6. /\ made'[g] = M /\ made' \in [Run -> SUBSET Match]
        /\ \A y \in Run \ {g} : made'[y] = made[y]
    BY <1>t, <1>1, <1>5 DEF EvidenceTypes
  <1>7. EvidenceTypes'
    BY <1>t, <1>1, <1>2, <1>6 DEF EvidenceTypes, GapErases, Goes
  <1>8. RunInv(g)'
    <2>1. StageOfKind(g)' /\ WritesOwn(g)'
      BY <1>t, <1>1, <1>5, <1>6 DEF RunInv, StageOfKind, WritesOwn, Active
    <2>2. VerdictsCite(g)'
      BY <1>3, <1>5, <1>6 DEF VerdictsCite, UserProvided
    <2>3. KnowsOthers(g)'
      BY <1>t, <1>1, Kinds DEF RunInv, KnowsOthers, Active
    <2>4. LeavesOverlaps(g)'
      BY <1>t, <1>1, <1>2 DEF RunInv, LeavesOverlaps, Found
    <2>5. ErasesCommitted(g)'
      BY <1>1, <1>2 DEF ErasesCommitted, Over
    <2>6. QED
      BY <2>1, <2>2, <2>3, <2>4, <2>5 DEF RunInv
  <1>9. QED
    BY <1>t, <1>1, <1>2, <1>6, <1>7, <1>8, OwnStep DEF Over

\* A run moves on, or fails before it has begun.
LEMMA QuietKeeps ==
    ASSUME EvidenceInv, NEW x \in Run, NEW to, Goes(x, to),
           UNCHANGED <<crew, items, matches, request, work, unlinked, together>>,
           \/ x \in Gap /\ stage[x] = "queued" /\ to \in {"failed", "given up"}
           \/ x \in Brain /\ stage[x] = "queued" /\ to \in {"loaded", "failed"}
           \/ x \in Brain /\ stage[x] = "loaded" /\ to = "sent"
           \/ x \in Brain /\ stage[x] = "deleting" /\ to = "replaced" /\ Unerased(x)'
    PROVE  EvidenceInv'
  <1>t. EvidenceTypes /\ RunInv(x) /\ ~Over(x) /\ x \notin Map
    BY Kinds DEF EvidenceInv, Over
  <1>1. /\ stage'[x] = to /\ \A y \in Run \ {x} : stage'[y] = stage[y]
        /\ UNCHANGED <<vault, todo, fresh, made, sought, erased, doomed>>
    BY <1>t, Moves DEF work
  <1>2. EvidenceTypes'
    BY <1>t, <1>1 DEF EvidenceTypes, Goes
  <1>3. stage[x] = "queued" => fresh[x] = {}
    BY <1>t DEF RunInv, WritesOwn, Active
  <1>4. made[x] = {} /\ erased[x] = {}
    BY <1>t DEF RunInv, WritesOwn
  <1>5. RunInv(x)'
    <2>1. StageOfKind(x)' /\ WritesOwn(x)' /\ VerdictsCite(x)' /\ ErasesCommitted(x)'
      BY <1>t, <1>1, <1>3, <1>4, Kinds
         DEF RunInv, StageOfKind, WritesOwn, VerdictsCite, ErasesCommitted, Active, Inferred,
             UserProvided
    <2>2. KnowsOthers(x)'
      BY <1>t, <1>1, Kinds DEF KnowsOthers, Active
    <2>3. LeavesOverlaps(x)'
      BY <1>t, <1>1 DEF RunInv, LeavesOverlaps
    <2>4. QED
      BY <2>1, <2>2, <2>3 DEF RunInv
  <1>6. x \in Brain => Unerased(x)'
    BY <1>1, Kinds DEF Unerased
  <1>7. QED
    BY <1>t, <1>1, <1>2, <1>4, <1>5, <1>6, OwnStep

LEMMA GapFailsKeeps == ASSUME EvidenceInv, NEW g \in Gap, GapFails(g) PROVE EvidenceInv'
  <1>1. PICK to \in {"failed", "given up"} : Goes(g, to)
    BY DEF GapFails
  <1>2. g \in Run /\ stage[g] = "queued"
        /\ UNCHANGED <<crew, items, matches, request, work, unlinked, together>>
    BY Kinds DEF GapFails
  <1>3. QED
    BY <1>1, <1>2, QuietKeeps

LEMMA BrainMovesKeeps ==
    ASSUME EvidenceInv, NEW b \in Brain, BrainLoads(b) \/ BrainFails(b) \/ BrainSends(b)
    PROVE  EvidenceInv'
  <1>1. b \in Run /\ UNCHANGED <<crew, items, matches, request, work, unlinked, together>>
    BY Kinds DEF BrainLoads, BrainFails, BrainSends
  <1>2. \/ stage[b] = "queued" /\ Goes(b, "loaded")
        \/ stage[b] = "queued" /\ Goes(b, "failed")
        \/ stage[b] = "loaded" /\ Goes(b, "sent")
    BY DEF BrainLoads, BrainFails, BrainSends
  <1>3. QED
    BY <1>1, <1>2, QuietKeeps

LEMMA BrainUnlinksKeeps == ASSUME EvidenceInv, NEW b \in Brain, BrainUnlinks(b) PROVE EvidenceInv'
  <1>t. RunInv(b) /\ b \in Run
    BY Kinds DEF EvidenceInv
  <1>1. /\ stage[b] = "deleting" /\ Free(b) /\ Goes(b, "replaced")
        /\ UNCHANGED <<crew, items, matches, request, work, unlinked, together>>
    BY DEF BrainUnlinks
  <1>2. ASSUME NEW x \in Run PROVE erased'[x] \cap Citing(b)' = {}
    <2>1. erased' = erased /\ Citing(b)' = Citing(b)
      BY <1>1 DEF work, Citing
    <2>2. CASE x = b
      BY <1>t, <1>1, <2>1, <2>2 DEF RunInv, WritesOwn
    <2>3. CASE x # b
      <3>1. ~Awaits(b, x)
        BY <1>1 DEF Free
      <3>2. QED
        BY <1>1, <2>1, <2>3, <3>1 DEF Awaits, MatchesLocked
    <2>4. QED
      BY <2>2, <2>3
  <1>3. Unerased(b)'
    BY <1>2 DEF Unerased
  <1>4. QED
    BY <1>t, <1>1, <1>3, QuietKeeps

LEMMA BrainReplacesKeeps ==
    ASSUME EvidenceInv, NEW b \in Brain, BrainReplaces(b) PROVE EvidenceInv'
  <1> DEFINE item == [by |-> b, of |-> NoDoc]
  <1>t. EvidenceTypes /\ RunInv(b) /\ b \in Run /\ b \notin Map /\ b \notin Gap
    BY Kinds DEF EvidenceInv
  <1>1. /\ stage[b] = "sent" /\ stage'[b] = "deleting"
        /\ \A y \in Run \ {b} : stage'[y] = stage[y]
        /\ fresh' = [fresh EXCEPT ![b] = {item}]
        /\ doomed' = [doomed EXCEPT ![b] = Replaceable]
        /\ UNCHANGED <<crew, items, matches, request, vault, todo, made, sought, erased,
                       unlinked, together>>
    BY <1>t, Moves DEF BrainReplaces
  <1>2. {item} \subseteq Item /\ item.by = b /\ item.of = NoDoc /\ Replaceable \subseteq Item
    <2>1. item \in Item
      BY <1>t DEF Item
    <2>2. Replaceable \subseteq Item
      BY <1>t DEF Replaceable, EvidenceTypes
    <2>3. QED
      BY <2>1, <2>2
  <1> HIDE DEF item
  <1>3. EvidenceTypes'
    <2>1. fresh' \in [Run -> SUBSET Item] /\ doomed' \in [Brain -> SUBSET Item]
      BY <1>t, <1>1, <1>2 DEF EvidenceTypes
    <2>2. stage' \in [Run -> {"idle", "queued", "acquired", "erasing", "mapping", "resolved",
                              "loaded", "sent", "deleting", "replaced", "done", "failed",
                              "given up"}]
      BY <1>t DEF EvidenceTypes, BrainReplaces, Goes
    <2>3. QED
      BY <1>t, <1>1, <2>1, <2>2 DEF EvidenceTypes
  <1>4. /\ fresh'[b] = {item} /\ doomed'[b] = Replaceable
        /\ \A y \in Run \ {b} : fresh'[y] = fresh[y] /\ (y \in Brain => doomed'[y] = doomed[y])
    BY <1>t, <1>1 DEF EvidenceTypes
  <1>5. made[b] = {} /\ erased[b] = {}
    BY <1>t, <1>1 DEF RunInv, WritesOwn
  <1>6. RunInv(b)'
    <2>1. StageOfKind(b)' /\ VerdictsCite(b)' /\ ErasesCommitted(b)' /\ KnowsOthers(b)'
      BY <1>t, <1>1, <1>5 DEF StageOfKind, VerdictsCite, ErasesCommitted, KnowsOthers
    <2>2. WritesOwn(b)'
      BY <1>1, <1>2, <1>4, <1>5 DEF WritesOwn, Active, Replaceable, Inferred, UserProvided
    <2>3. LeavesOverlaps(b)'
      BY <1>1, <1>2, <1>4 DEF LeavesOverlaps
    <2>4. QED
      BY <2>1, <2>2, <2>3 DEF RunInv
  <1>7. Unerased(b)'
    BY <1>1 DEF Unerased
  <1>8. QED
    BY <1>t, <1>1, <1>3, <1>4, <1>5, <1>6, <1>7, OwnStep DEF Over

LEMMA RollBackKeeps ==
    ASSUME EvidenceInv, NEW x \in Run, Active(x), RollBack(x) PROVE EvidenceInv'
  <1>t. EvidenceTypes /\ RunInv(x) /\ ~Over(x)
    BY DEF EvidenceInv, Active, Over
  <1>1. /\ stage'[x] = "queued" /\ \A y \in Run \ {x} : stage'[y] = stage[y]
        /\ Closed(x)
        /\ UNCHANGED <<crew, items, matches, request, unlinked, together>>
    BY <1>t, Moves DEF RollBack
  <1>2. EvidenceTypes'
    BY <1>t, <1>1, Closes DEF EvidenceTypes, RollBack, Goes
  <1>3. RunInv(x)'
    BY <1>t, <1>1, Closes
       DEF RunInv, StageOfKind, WritesOwn, VerdictsCite, KnowsOthers, LeavesOverlaps,
           ErasesCommitted, Active
  <1>4. x \in Brain => Unerased(x)'
    BY <1>1 DEF Unerased
  <1>5. QED
    BY <1>t, <1>1, <1>2, <1>3, <1>4, Closes, OwnStep

\* Nothing but the profile moves, and perhaps a claim of the owner's arrives.
LEMMA OwnerKeeps ==
    ASSUME EvidenceInv, NEW S \in SUBSET [by : Patch, of : {NoDoc}], items' = items \cup S,
           UNCHANGED <<crew, matches, stage, request, work, unlinked, together>>
    PROVE  EvidenceInv'
  <1>0. UNCHANGED <<vault, todo, fresh, made, sought, erased, doomed>>
    BY DEF work
  <1>1. EvidenceTypes'
    BY <1>0 DEF EvidenceInv, EvidenceTypes, Item
  <1>2. ASSUME NEW x \in Run PROVE RunInv(x)'
    <2>1. RunInv(x)
      BY DEF EvidenceInv
    <2>2. StageOfKind(x)' /\ WritesOwn(x)' /\ VerdictsCite(x)' /\ KnowsOthers(x)'
          /\ ErasesCommitted(x)'
      BY <1>0, <2>1 DEF RunInv, StageOfKind, WritesOwn, VerdictsCite, KnowsOthers,
         ErasesCommitted, Active, Over, Inferred, UserProvided
    <2>3. LeavesOverlaps(x)'
      BY <1>0, <2>1 DEF RunInv, LeavesOverlaps
    <2>4. QED
      BY <2>2, <2>3 DEF RunInv
  <1>3. \A mt \in matches' : Over(mt.by)'
    BY DEF EvidenceInv, Over
  <1>4. \A b \in Brain : Unerased(b)'
    BY <1>0 DEF EvidenceInv, Unerased, Citing
  <1>5. UncitedOnlyByReplacement'
    BY DEF EvidenceInv, UncitedOnlyByReplacement, UncitedIsUnlinked, OwnerStaysCited, UserProvided,
       Inferred
  <1>6. RepeatedOnlyByOverlap'
    BY DEF EvidenceInv, RepeatedOnlyByOverlap, OneVerdict, EvidenceOnce
  <1>7. QED
    BY <1>1, <1>2, <1>3, <1>4, <1>5, <1>6 DEF EvidenceInv

LEMMA EvidenceIdle ==
    ASSUME EvidenceInv, UNCHANGED <<crew, evidence>> PROVE EvidenceInv'
  <1>1. /\ items' = items \cup {}
        /\ UNCHANGED <<crew, matches, stage, request, work, unlinked, together>>
    BY DEF evidence
  <1>2. QED
    BY <1>1, OwnerKeeps

\* What a run writes when it commits is consistent with what the others have
\* written or are about to.
LEMMA CommitKeeps ==
    ASSUME EvidenceInv, NEW x \in Map \cup Gap, Active(x), Commits(x),
           NEW to \in {"done", "failed"}, Goes(x, to)
    PROVE  EvidenceInv'
  <1>t. EvidenceTypes /\ RunInv(x) /\ x \in Run /\ x \notin Brain /\ ~Over(x)
    BY Kinds DEF EvidenceInv, Active, Over
  <1>1. /\ stage'[x] = to /\ \A y \in Run \ {x} : stage'[y] = stage[y]
        /\ items' = items \cup fresh[x]
        /\ matches' = (matches \ erased[x]) \cup made[x]
        /\ Closed(x)
        /\ UNCHANGED <<crew, request, unlinked, together>>
    BY <1>t, Moves DEF Commits
  <1>2. EvidenceTypes'
    <2>1. /\ fresh[x] \subseteq Item /\ made[x] \subseteq Match
          /\ items \subseteq Item /\ matches \subseteq Match
      BY <1>t DEF EvidenceTypes
    <2>2. items' \subseteq Item /\ matches' \subseteq Match
      BY <1>1, <2>1
    <2>3. stage' \in [Run -> {"idle", "queued", "acquired", "erasing", "mapping", "resolved",
                              "loaded", "sent", "deleting", "replaced", "done", "failed",
                              "given up"}]
      BY <1>t DEF EvidenceTypes, Goes
    <2>4. QED
      BY <1>t, <1>1, <2>2, <2>3, Closes DEF EvidenceTypes
  <1>3. \A mt \in made[x] : mt.by = x
    BY <1>t DEF RunInv, WritesOwn
  <1>4. \A mt \in matches' : Over(mt.by)'
    <2> SUFFICES ASSUME NEW mt \in matches' PROVE Over(mt.by)'
      OBVIOUS
    <2>1. CASE mt \in made[x]
      BY <1>1, <1>3, <2>1 DEF Over
    <2>2. CASE mt \in matches
      BY <1>t, <1>1, <2>2, Kinds DEF EvidenceInv, EvidenceTypes, Over
    <2>3. QED
      BY <1>1, <2>1, <2>2
  <1>5. RunInv(x)'
    BY <1>t, <1>1, Closes
       DEF RunInv, StageOfKind, WritesOwn, VerdictsCite, KnowsOthers, LeavesOverlaps,
           ErasesCommitted, Active
  <1>6. ASSUME NEW y \in Run \ {x} PROVE RunInv(y)'
    <2>0. RunInv(y) /\ (\A mt \in erased[y] : mt.by \in Run) /\ y # x
      BY Kinds DEF EvidenceInv, EvidenceTypes
    <2>1. /\ stage'[y] = stage[y] /\ fresh'[y] = fresh[y] /\ made'[y] = made[y]
          /\ sought'[y] = sought[y] /\ erased'[y] = erased[y]
          /\ (y \in Brain => doomed'[y] = doomed[y])
      BY <1>t, <1>1, Closes
    <2>2. StageOfKind(y)' /\ WritesOwn(y)' /\ VerdictsCite(y)'
      BY <1>1, <2>0, <2>1
         DEF RunInv, StageOfKind, WritesOwn, VerdictsCite, Active, Inferred, UserProvided
    <2>3. KnowsOthers(y)'
      BY <1>1, <2>0, <2>1, Kinds DEF RunInv, KnowsOthers, Active
    <2>4. ErasesCommitted(y)'
      BY <1>t, <1>1, <2>0, <2>1 DEF RunInv, ErasesCommitted, Over
    <2>5. Active(y) /\ y \in Map \cup Gap => {y, x} \in together
      BY <1>t, <2>0 DEF RunInv, KnowsOthers
    <2>6. stage[y] \in {"erasing", "mapping", "resolved"} => Active(y) /\ y \in Map \cup Gap
      BY <2>0, Kinds DEF RunInv, StageOfKind, Active
    <2>7. ASSUME NEW item \in fresh[y], NEW z \in fresh[x], item.of = z.of, item.of # NoDoc
          PROVE  {y, z.by} \in together
      <3>1. y \in Map /\ Active(y) /\ z.by = x
        BY <1>t, <2>0, <2>7 DEF RunInv, WritesOwn
      <3>2. QED
        BY <2>5, <3>1
    <2>8. LeavesOverlaps(y)'
      <3>1. /\ \A mt \in matches' : mt \in matches \/ mt.by = x
            /\ \A mt \in matches' \ erased'[y] : mt \in matches \ erased[y] \/ mt.by = x
        BY <1>1, <1>3, <2>1
      <3>2. \A z \in items' : z \in items \/ z \in fresh[x]
        BY <1>1
      <3>3. QED
        BY <1>1, <2>0, <2>1, <2>5, <2>6, <2>7, <3>1, <3>2 DEF RunInv, LeavesOverlaps
    <2>9. QED
      BY <2>2, <2>3, <2>4, <2>8 DEF RunInv
  <1>7. ASSUME NEW b \in Brain PROVE Unerased(b)'
    <2> SUFFICES ASSUME stage'[b] = "replaced", NEW y \in Run
                 PROVE  erased'[y] \cap Citing(b)' = {}
      BY DEF Unerased
    <2>1. stage[b] = "replaced" /\ doomed'[b] = doomed[b]
      BY <1>t, <1>1, Closes, Kinds
    <2>2. \A mt \in Citing(b)' : mt \in Citing(b) \/ mt.by = x
      BY <1>1, <1>3, <2>1 DEF Citing
    <2>3. \A mt \in erased'[y] : mt \in erased[y] /\ mt.by # x
      BY <1>t, <1>1, Closes DEF EvidenceInv, RunInv, ErasesCommitted
    <2>4. erased[y] \cap Citing(b) = {}
      BY <2>1 DEF EvidenceInv, Unerased
    <2>5. QED
      BY <2>2, <2>3, <2>4
  <1>8. UncitedOnlyByReplacement'
    <2>1. VerdictsCite(x) /\ \A mt \in made[x] : mt.by = x
      BY <1>t DEF RunInv, WritesOwn
    <2>2. UncitedIsUnlinked'
      BY <1>1, <2>1 DEF EvidenceInv, UncitedOnlyByReplacement, UncitedIsUnlinked, VerdictsCite,
         Inferred, UserProvided
    <2>4. OwnerStaysCited'
      BY <1>1, <2>1 DEF EvidenceInv, UncitedOnlyByReplacement, OwnerStaysCited, VerdictsCite,
         UserProvided
    <2>5. QED
      BY <2>2, <2>4 DEF UncitedOnlyByReplacement
  <1>9. OneVerdict'
    <2>1. LeavesOverlaps(x) /\ WritesOwn(x)
      BY <1>t DEF RunInv
    <2>2. \A mt \in made[x], other \in matches \ erased[x] :
             mt.req = other.req => {x, other.by} \in together
      BY <2>1 DEF LeavesOverlaps, WritesOwn
    <2>3. OneVerdict
      BY DEF EvidenceInv, RepeatedOnlyByOverlap
    <2> SUFFICES ASSUME NEW a \in matches', NEW c \in matches', a.by # c.by, a.req = c.req
                 PROVE  {a.by, c.by} \in together
      BY <1>1 DEF OneVerdict
    <2>4. {a.by, c.by} = {c.by, a.by}
      OBVIOUS
    <2>5. CASE a \in made[x]
      BY <1>1, <1>3, <2>2, <2>5
    <2>6. CASE c \in made[x]
      BY <1>1, <1>3, <2>2, <2>4, <2>6
    <2>7. CASE a \in matches /\ c \in matches
      BY <2>3, <2>7 DEF OneVerdict
    <2>8. QED
      BY <1>1, <2>5, <2>6, <2>7
  <1>10. EvidenceOnce'
    <2>1. LeavesOverlaps(x) /\ WritesOwn(x) /\ fresh[x] \subseteq Item
      BY <1>t DEF RunInv, EvidenceTypes
    <2>2. \A item \in fresh[x], other \in items :
             item.of = other.of /\ item.of # NoDoc => {item.by, other.by} \in together
      BY <2>1 DEF LeavesOverlaps, WritesOwn
    <2>3. \A item, other \in fresh[x] : item.of = other.of => item = other
      BY <2>1 DEF WritesOwn, Item
    <2>4. EvidenceOnce
      BY DEF EvidenceInv, RepeatedOnlyByOverlap
    <2> SUFFICES ASSUME NEW a \in items', NEW c \in items', a # c, a.of = c.of, a.of # NoDoc
                 PROVE  {a.by, c.by} \in together
      BY <1>1 DEF EvidenceOnce
    <2>5. {a.by, c.by} = {c.by, a.by}
      OBVIOUS
    <2>6. CASE a \in fresh[x]
      BY <1>1, <2>2, <2>3, <2>6
    <2>7. CASE c \in fresh[x]
      BY <1>1, <2>2, <2>3, <2>5, <2>7
    <2>8. CASE a \in items /\ c \in items
      BY <2>4, <2>8 DEF EvidenceOnce
    <2>9. QED
      BY <1>1, <2>6, <2>7, <2>8
  <1>11. QED
    BY <1>2, <1>4, <1>5, <1>6, <1>7, <1>8, <1>9, <1>10 DEF EvidenceInv, RepeatedOnlyByOverlap

\* A match whose item is deleted.
Unlinked(mt) == [mt EXCEPT !.item = NoItem]

LEMMA UnlinkedFacts ==
    \A mt \in Match : /\ Unlinked(mt) \in Match /\ Unlinked(mt).by = mt.by
                      /\ Unlinked(mt).req = mt.req /\ Unlinked(mt).item = NoItem
                      /\ Unlinked(mt).status = mt.status
  BY DEF Match, Unlinked

LEMMA BrainCommitsKeeps ==
    ASSUME EvidenceInv, NEW b \in Brain, BrainCommits(b) PROVE EvidenceInv'
  <1>t. EvidenceTypes /\ RunInv(b) /\ b \in Run /\ b \notin Map /\ b \notin Gap /\ Unerased(b)
    BY Kinds DEF EvidenceInv
  <1>1. /\ stage[b] = "replaced" /\ stage'[b] = "done"
        /\ \A y \in Run \ {b} : stage'[y] = stage[y]
        /\ items' = (items \ doomed[b]) \cup fresh[b]
        /\ matches' = (matches \ Citing(b)) \cup {Unlinked(mt) : mt \in Citing(b)}
        /\ unlinked' = unlinked \cup Citing(b)
        /\ Closed(b)
        /\ UNCHANGED <<crew, request, together>>
    BY <1>t, Moves DEF BrainCommits, Unlinked
  <1>2. Citing(b) \subseteq matches /\ matches \subseteq Match
    BY <1>t DEF Citing, EvidenceTypes
  <1>3. \A n \in matches' :
           \/ n \in matches \ Citing(b)
           \/ \E mt \in Citing(b) : /\ n = Unlinked(mt) /\ n.by = mt.by /\ n.req = mt.req
                                    /\ n.item = NoItem /\ n.status = mt.status
    BY <1>1, <1>2, UnlinkedFacts
  <1>4. EvidenceTypes'
    <2>1. fresh[b] \subseteq Item /\ items \subseteq Item
      BY <1>t DEF EvidenceTypes
    <2>2. items' \subseteq Item /\ matches' \subseteq Match
      BY <1>1, <1>2, <2>1, UnlinkedFacts
    <2>3. stage' \in [Run -> {"idle", "queued", "acquired", "erasing", "mapping", "resolved",
                              "loaded", "sent", "deleting", "replaced", "done", "failed",
                              "given up"}]
      BY <1>t DEF EvidenceTypes, Goes, BrainCommits
    <2>4. QED
      BY <1>t, <1>1, <2>2, <2>3, Closes DEF EvidenceTypes
  <1>5. \A mt \in matches : Over(mt.by) /\ mt.by \in Run /\ mt.by # b
    BY <1>t, <1>1, <1>2, Kinds DEF EvidenceInv, Over
  <1>6. \A n \in matches' : Over(n.by)'
    <2>1. \A n \in matches' : \E mt \in matches : n.by = mt.by
      BY <1>2, <1>3
    <2>2. \A mt \in matches : stage'[mt.by] = stage[mt.by]
      BY <1>1, <1>5
    <2>3. QED
      BY <1>5, <2>1, <2>2 DEF Over
  <1>7. RunInv(b)'
    BY <1>t, <1>1, Closes
       DEF RunInv, StageOfKind, WritesOwn, VerdictsCite, KnowsOthers, LeavesOverlaps,
           ErasesCommitted, Active
  <1>8. \A z \in items' : z \in items \/ z.of = NoDoc
    BY <1>t, <1>1 DEF RunInv, WritesOwn
  <1>9. ASSUME NEW y \in Run \ {b} PROVE RunInv(y)'
    <2>0. RunInv(y) /\ (\A mt \in erased[y] : mt.by \in Run) /\ y # b
      BY Kinds DEF EvidenceInv, EvidenceTypes
    <2>1. /\ stage'[y] = stage[y] /\ fresh'[y] = fresh[y] /\ made'[y] = made[y]
          /\ sought'[y] = sought[y] /\ erased'[y] = erased[y]
          /\ (y \in Brain => doomed'[y] = doomed[y])
      BY <1>t, <1>1, Closes
    <2>2. StageOfKind(y)' /\ WritesOwn(y)' /\ VerdictsCite(y)'
      BY <1>1, <2>0, <2>1
         DEF RunInv, StageOfKind, WritesOwn, VerdictsCite, Active, Inferred, UserProvided
    <2>3. KnowsOthers(y)'
      BY <1>t, <1>1, <2>0, <2>1, Kinds DEF RunInv, KnowsOthers, Active
    <2>4. ErasesCommitted(y)'
      BY <1>t, <1>1, <2>0, <2>1 DEF RunInv, ErasesCommitted, Over
    <2>5. erased[y] \cap Citing(b) = {}
      BY <1>t, <1>1 DEF Unerased
    <2>6. /\ \A n \in matches' : \E mt \in matches : n.by = mt.by /\ n.req = mt.req
          /\ \A n \in matches' \ erased'[y] :
                \E mt \in matches \ erased[y] : n.by = mt.by /\ n.req = mt.req
      BY <1>2, <1>3, <2>1, <2>5
    <2>7. LeavesOverlaps(y)'
      BY <1>1, <1>8, <2>0, <2>1, <2>6 DEF RunInv, LeavesOverlaps
    <2>8. QED
      BY <2>2, <2>3, <2>4, <2>7 DEF RunInv
  <1>10. ASSUME NEW c \in Brain PROVE Unerased(c)'
    <2> SUFFICES ASSUME stage'[c] = "replaced", NEW y \in Run
                 PROVE  erased'[y] \cap Citing(c)' = {}
      BY DEF Unerased
    <2>1. c # b /\ stage[c] = "replaced" /\ doomed'[c] = doomed[c] /\ NoItem \notin doomed[c]
      <3>1. c \in Run /\ c # b
        BY <1>1, Kinds
      <3>2. stage[c] = "replaced" /\ doomed'[c] = doomed[c]
        BY <1>t, <1>1, <3>1, Closes
      <3>3. NoItem \notin doomed[c]
        BY <1>t, EvidenceAssumption DEF EvidenceTypes
      <3>4. QED
        BY <3>1, <3>2, <3>3
    <2>2. Citing(c)' \subseteq Citing(c)
      BY <1>3, <2>1 DEF Citing
    <2>3. erased'[y] \subseteq erased[y]
      BY <1>t, <1>1, Closes
    <2>4. QED
      BY <2>1, <2>2, <2>3 DEF EvidenceInv, Unerased
  <1>c. \A mt \in Citing(b) : mt \in matches /\ Inferred(mt.item)
    BY <1>t DEF Citing, RunInv, WritesOwn
  <1>11. UncitedIsUnlinked'
    <2> SUFFICES ASSUME NEW n \in matches', n.status # "missing", n.item = NoItem
                 PROVE  \E u \in unlinked' : n = [u EXCEPT !.item = NoItem] /\ Inferred(u.item)
      BY DEF UncitedIsUnlinked, Inferred, UserProvided
    <2>1. CASE n \in matches
      BY <1>1, <2>1 DEF EvidenceInv, UncitedOnlyByReplacement, UncitedIsUnlinked
    <2>2. CASE n \notin matches
      <3>1. PICK mt \in Citing(b) : n = Unlinked(mt)
        BY <1>3, <2>2
      <3>2. QED
        BY <1>1, <1>c, <3>1 DEF Unlinked
    <2>3. QED
      BY <2>1, <2>2
  <1>12. OwnerStaysCited'
    <2>1. \A mt \in Citing(b) : mt.by \notin Gap
      BY <1>c DEF EvidenceInv, UncitedOnlyByReplacement, OwnerStaysCited, Inferred
    <2>2. QED
      BY <1>3, <2>1 DEF EvidenceInv, UncitedOnlyByReplacement, OwnerStaysCited, UserProvided
  <1>13. OneVerdict'
    <2>1. \A n \in matches' : \E mt \in matches : n.by = mt.by /\ n.req = mt.req
      BY <1>2, <1>3
    <2>2. QED
      BY <1>1, <2>1 DEF EvidenceInv, RepeatedOnlyByOverlap, OneVerdict
  <1>14. EvidenceOnce'
    BY <1>1, <1>8 DEF EvidenceInv, RepeatedOnlyByOverlap, EvidenceOnce
  <1>15. QED
    BY <1>4, <1>6, <1>7, <1>9, <1>10, <1>11, <1>12, <1>13, <1>14
       DEF EvidenceInv, RepeatedOnlyByOverlap, UncitedOnlyByReplacement

-----------------------------------------------------------------------------
\* The organization: the steps of all actors

CoreInv == DocInv /\ ProfileInv /\ EvidenceInv

LEMMA CoreStarts == Init => CoreInv
  BY DocInit, ProfileStarts, EvidenceStarts DEF Init, CoreInv

LEMMA IngestionKeeps ==
    ASSUME CoreInv, Upload \/ (\E i \in Ingest \cap crew : IngestStep(i)),
           UNCHANGED <<crew, profiles, evidence>>
    PROVE  CoreInv'
  BY UploadKeepsDocs, IngestKeepsDocs, ProfileIdle, EvidenceIdle DEF CoreInv

\* A run that is rolled back also leaves the profile as it was.
LEMMA RollBackCore ==
    ASSUME CoreInv, NEW x \in Run, Active(x), RollBack(x) PROVE CoreInv'
  <1>1. DocInv' /\ EvidenceInv'
    BY DocIdle, RollBackKeeps DEF CoreInv, RollBack
  <1>2. ProfileInv'
    BY LoadKeepsProfile, ProfileIdle DEF CoreInv, RollBack, Writer
  <1>3. QED
    BY <1>1, <1>2 DEF CoreInv

LEMMA MapStepKeeps == ASSUME CoreInv, NEW m \in Map, MapStep(m) PROVE CoreInv'
  <1>0. m \in Run
    BY Kinds
  <1>1. CASE Acquire(m)
    BY <1>1, AcquireKeeps, DocIdle, ProfileIdle DEF CoreInv, Acquire
  <1>2. CASE MapBegins(m)
    BY <1>2, MapBeginsKeeps, DocIdle, ProfileIdle DEF CoreInv, MapBegins
  <1>3. CASE MapErases(m)
    BY <1>3, MapErasesKeeps, DocIdle, ProfileIdle DEF CoreInv, MapErases
  <1>4. CASE Judge(m)
    BY <1>4, JudgeKeeps, DocIdle, ProfileIdle DEF CoreInv, Judge
  <1>5. CASE MapCommits(m)
    <2>1. Active(m) /\ Commits(m) /\ Goes(m, "done")
      BY <1>5 DEF MapCommits, Active
    <2>2. QED
      BY <2>1, CommitKeeps, DocIdle, ProfileIdle DEF CoreInv, Commits
  <1>6. CASE MapFails(m)
    <2>1. Active(m) /\ Commits(m) /\ Goes(m, "failed")
      BY <1>6 DEF MapFails, Active
    <2>2. QED
      BY <2>1, CommitKeeps, DocIdle, ProfileIdle DEF CoreInv, Commits
  <1>7. CASE MapRefused(m)
    BY <1>0, <1>7, RollBackCore DEF MapRefused, Active
  <1>8. CASE RolledBack(m)
    BY <1>0, <1>8, RollBackCore DEF RolledBack
  <1>9. QED
    BY <1>1, <1>2, <1>3, <1>4, <1>5, <1>6, <1>7, <1>8 DEF MapStep

LEMMA GapStepKeeps == ASSUME CoreInv, NEW g \in Gap \cap crew, GapStep(g) PROVE CoreInv'
  <1>0. g \in Run
    BY Kinds
  <1>1. CASE Resolve(g)
    BY <1>1, ResolveKeeps, DocIdle, ProfileIdle DEF CoreInv, Resolve
  <1>2. CASE GapErases(g)
    BY <1>2, GapErasesKeeps, DocIdle, ProfileIdle DEF CoreInv, GapErases
  <1>3. CASE GapFails(g)
    BY <1>3, GapFailsKeeps, DocIdle, ProfileIdle DEF CoreInv, GapFails
  <1>4. CASE GapCommits(g)
    <2>1. Active(g) /\ Commits(g) /\ Goes(g, "done")
      BY <1>4 DEF GapCommits, Active
    <2>2. QED
      BY <2>1, CommitKeeps, DocIdle, ProfileIdle DEF CoreInv, Commits
  <1>5. CASE RolledBack(g)
    BY <1>0, <1>5, RollBackCore DEF RolledBack
  <1>6. QED
    BY <1>1, <1>2, <1>3, <1>4, <1>5 DEF GapStep

LEMMA BrainStepKeeps == ASSUME CoreInv, NEW b \in Brain, BrainStep(b) PROVE CoreInv'
  <1>0. b \in Run /\ b \in Writer
    BY Kinds DEF Writer
  <1>1. CASE BrainLoads(b)
    BY <1>0, <1>1, BrainMovesKeeps, DocIdle, LoadKeepsProfile DEF CoreInv, BrainLoads
  <1>2. CASE BrainFails(b)
    BY <1>2, BrainMovesKeeps, DocIdle, ProfileIdle DEF CoreInv, BrainFails
  <1>3. CASE BrainSends(b)
    BY <1>0, <1>3, BrainMovesKeeps, DocIdle, LoadKeepsProfile DEF CoreInv, BrainSends
  <1>4. CASE BrainRefused(b)
    BY <1>0, <1>4, RollBackCore DEF BrainRefused, Active
  <1>5. CASE BrainReplaces(b)
    BY <1>5, BrainReplacesKeeps, DocIdle, ProfileIdle DEF CoreInv, BrainReplaces
  <1>6. CASE BrainUnlinks(b)
    BY <1>6, BrainUnlinksKeeps, DocIdle, ProfileIdle DEF CoreInv, BrainUnlinks
  <1>7. CASE BrainCommits(b)
    BY <1>0, <1>7, BrainCommitsKeeps, DocIdle, StoreKeepsProfile DEF CoreInv, BrainCommits
  <1>8. CASE RolledBack(b)
    BY <1>0, <1>8, RollBackCore DEF RolledBack
  <1>9. QED
    BY <1>1, <1>2, <1>3, <1>4, <1>5, <1>6, <1>7, <1>8 DEF BrainStep

LEMMA OwnerStepKeeps ==
    ASSUME CoreInv, NEW w \in Patch \cup Onboard, OwnerStep(w) PROVE CoreInv'
  <1>1. w \in Writer
    BY DEF Writer
  <1>2. Load(w) \/ Send(w) \/ Store(w) \/ Undo(w)
    BY DEF OwnerStep
  <1>3. \E S \in SUBSET [by : Patch, of : {NoDoc}] : items' = items \cup S
    <2>1. CASE UNCHANGED items
      <3>1. items' = items \cup {} /\ {} \in SUBSET [by : Patch, of : {NoDoc}]
        BY <2>1
      <3>2. QED
        BY <3>1
    <2>2. CASE w \in Patch /\ items' = items \cup {[by |-> w, of |-> NoDoc]}
      <3>1. {[by |-> w, of |-> NoDoc]} \in SUBSET [by : Patch, of : {NoDoc}]
        BY <2>2
      <3>2. QED
        BY <2>2, <3>1
    <2>3. QED
      BY <2>1, <2>2 DEF OwnerStep
  <1>4. EvidenceInv'
    BY <1>3, OwnerKeeps DEF CoreInv, OwnerStep
  <1>5. ProfileInv'
    BY <1>1, <1>2, LoadKeepsProfile, StoreKeepsProfile DEF CoreInv
  <1>6. QED
    BY <1>4, <1>5, DocIdle DEF CoreInv, OwnerStep

LEMMA CoreIdle == ASSUME CoreInv, UNCHANGED <<crew, documents, profiles, evidence>> PROVE CoreInv'
  BY DocIdle, ProfileIdle, EvidenceIdle DEF CoreInv

LEMMA CoreKept == CoreInv /\ [Next]_vars => CoreInv'
  <1> SUFFICES ASSUME CoreInv, [Next]_vars PROVE CoreInv'
    OBVIOUS
  <1>1. CASE Next
    BY <1>1, IngestionKeeps, MapStepKeeps, GapStepKeeps, BrainStepKeeps, OwnerStepKeeps DEF Next
  <1>2. CASE UNCHANGED vars
    BY <1>2, CoreIdle DEF vars
  <1>3. QED
    BY <1>1, <1>2

\* A step stores the profile, or leaves it alone.
LEMMA ProfileStores ==
    ASSUME Next
    PROVE  UNCHANGED profile \/ \E w \in Writer : Store(w)
  <1>1. ASSUME NEW x \in Run, RollBack(x) PROVE UNCHANGED profile
    BY <1>1 DEF RollBack, Undo, profiles
  <1>2. ASSUME NEW m \in Map, MapStep(m) PROVE UNCHANGED profile
    BY <1>1, <1>2, Kinds
       DEF MapStep, Acquire, MapBegins, MapErases, Judge, MapCommits, MapFails, Commits,
           MapRefused, RolledBack, profiles
  <1>3. ASSUME NEW g \in Gap, GapStep(g) PROVE UNCHANGED profile
    BY <1>1, <1>3, Kinds
       DEF GapStep, Resolve, GapErases, GapFails, GapCommits, Commits, RolledBack, profiles
  <1>4. ASSUME NEW b \in Brain, BrainStep(b) PROVE UNCHANGED profile \/ Store(b)
    <2>1. CASE BrainLoads(b) \/ BrainFails(b) \/ BrainSends(b)
      BY <2>1 DEF BrainLoads, BrainFails, BrainSends, Load, LoadFull, Send, profiles
    <2>2. CASE BrainRefused(b) \/ RolledBack(b)
      BY <1>1, <2>2, Kinds DEF BrainRefused, RolledBack
    <2>3. CASE BrainReplaces(b) \/ BrainUnlinks(b)
      BY <2>3 DEF BrainReplaces, BrainUnlinks, profiles
    <2>4. CASE BrainCommits(b)
      BY <2>4 DEF BrainCommits
    <2>5. QED
      BY <1>4, <2>1, <2>2, <2>3, <2>4 DEF BrainStep
  <1>5. ASSUME NEW w \in Patch \cup Onboard, OwnerStep(w) PROVE UNCHANGED profile \/ Store(w)
    BY <1>5 DEF OwnerStep, Load, Send, Undo
  <1>6. QED
    BY <1>2, <1>3, <1>4, <1>5 DEF Next, Writer, profiles

\* An item leaves its table only if it was inferred.
LEMMA OnlyInferredLeaves ==
    ASSUME CoreInv, Next
    PROVE  \A item \in items : item \in items' \/ Inferred(item)
  <1>1. ASSUME NEW x \in Run, RollBack(x) PROVE UNCHANGED items
    BY <1>1 DEF RollBack
  <1>2. ASSUME NEW m \in Map, MapStep(m) PROVE items \subseteq items'
    BY <1>1, <1>2, Kinds
       DEF MapStep, Acquire, MapBegins, MapErases, Judge, MapCommits, MapFails, Commits,
           MapRefused, RolledBack
  <1>3. ASSUME NEW g \in Gap, GapStep(g) PROVE items \subseteq items'
    BY <1>1, <1>3, Kinds DEF GapStep, Resolve, GapErases, GapFails, GapCommits, Commits, RolledBack
  <1>4. ASSUME NEW b \in Brain, BrainStep(b)
        PROVE  \A item \in items : item \in items' \/ Inferred(item)
    <2>1. CASE BrainCommits(b)
      <3>1. items' = (items \ doomed[b]) \cup fresh[b] /\ RunInv(b) /\ b \in Brain
        BY <2>1, Kinds DEF BrainCommits, CoreInv, EvidenceInv
      <3>2. QED
        BY <3>1 DEF RunInv, WritesOwn
    <2>2. CASE ~BrainCommits(b)
      BY <1>1, <1>4, <2>2, Kinds
         DEF BrainStep, BrainLoads, BrainFails, BrainSends, BrainRefused, BrainReplaces,
             BrainUnlinks, RolledBack
    <2>3. QED
      BY <2>1, <2>2
  <1>5. ASSUME NEW w \in Patch \cup Onboard, OwnerStep(w) PROVE items \subseteq items'
    BY <1>5 DEF OwnerStep
  <1>6. QED
    BY <1>2, <1>3, <1>4, <1>5 DEF Next, evidence

-----------------------------------------------------------------------------
\* Packages: the inductive invariant

Narrative == [item : Item \cup {NoItem}, sourced : BOOLEAN]
Build == [stage : {"queued", "matched", "joined", "drafted", "done", "failed"},
          verdicts : SUBSET Match, claims : SUBSET Match, narrative : SUBSET Narrative]
Version == [claims : SUBSET Match, narrative : SUBSET Narrative, valid : BOOLEAN]

PackageTypes ==
    /\ sourced \in BOOLEAN
    /\ building \in [Package -> Build]
    /\ packages \in Seq(Version)
    /\ approved \in 0..Len(packages)

\* A claim is met, and its evidence was there.
Supported(mt) ==
    /\ Supports(mt)
    /\ mt.item \in items \cup (IF UserProvided(mt.item) THEN {} ELSE replaced)

\* A version makes supported claims only, and one that was found valid makes
\* some and has a narrative that cites what there is or was.
Sound(claims, narrative, valid) ==
    /\ \A mt \in claims : Supported(mt)
    /\ valid =>
          /\ claims # {} /\ narrative # {}
          /\ \A c \in narrative : c.item \in items \cup replaced \/ c.sourced

PackageInv ==
    /\ PackageTypes
    /\ \A p \in Package : \A mt \in building[p].claims : Supported(mt)
    /\ \A k \in 1..Len(packages) :
          Sound(packages[k].claims, packages[k].narrative, packages[k].valid)
    /\ approved # 0 => packages[approved].valid

IInv == CoreInv /\ PackageInv

-----------------------------------------------------------------------------
\* Packages: the steps

LEMMA PackageStarts == PackageInit => PackageInv
  <1> SUFFICES ASSUME PackageInit PROVE PackageInv
    OBVIOUS
  <1>1. sourced \in BOOLEAN
    BY DEF PackageInit
  <1>2. Fresh \in Build /\ Fresh.claims = {}
    BY DEF Fresh, Build
  <1>3. /\ building = [p \in Package |-> Fresh] /\ packages = <<>> /\ approved = 0
    BY DEF PackageInit
  <1>4. QED
    BY <1>1, <1>2, <1>3 DEF PackageInv, PackageTypes

\* The evidence of a claim stays, or was inferred and is remembered.
LEMMA EvidenceStepKeepsPackages ==
    ASSUME CoreInv, PackageInv, EvidenceStep PROVE PackageInv'
  <1>1. /\ UNCHANGED <<sourced, building, packages, approved>>
        /\ replaced' = replaced \cup (items \ items')
        /\ \A item \in items : item \in items' \/ Inferred(item)
    BY OnlyInferredLeaves DEF EvidenceStep
  <1>2. \A mt : Supported(mt) =>
           Supports(mt) /\ mt.item \in items' \cup (IF UserProvided(mt.item) THEN {} ELSE replaced')
    BY <1>1 DEF Supported, Inferred
  <1>3. \A item \in items \cup replaced : item \in items' \cup replaced'
    BY <1>1
  <1>4. PackageTypes'
    BY <1>1 DEF PackageInv, PackageTypes
  <1>5. \A p \in Package : \A mt \in building'[p].claims : Supported(mt)'
    BY <1>1, <1>2 DEF PackageInv, Supported, Supports, UserProvided
  <1>6. \A k \in 1..Len(packages) :
           Sound(packages[k].claims, packages[k].narrative, packages[k].valid)'
    <2> SUFFICES ASSUME NEW k \in 1..Len(packages)
                 PROVE  Sound(packages[k].claims, packages[k].narrative, packages[k].valid)'
      OBVIOUS
    <2>1. Sound(packages[k].claims, packages[k].narrative, packages[k].valid)
      BY DEF PackageInv
    <2>2. QED
      BY <1>1, <1>2, <1>3, <2>1 DEF Sound, Supported, Supports, UserProvided
  <1>7. QED
    BY <1>1, <1>4, <1>5, <1>6 DEF PackageInv

\* The evidence stays; one build goes on.
LEMMA BuildGoesOn ==
    ASSUME PackageInv, UNCHANGED <<items, replaced, sourced, packages, approved>>,
           NEW p \in Package, NEW b \in Build, building' = [building EXCEPT ![p] = b],
           \A mt \in b.claims : Supported(mt)
    PROVE  PackageInv'
  <1>1. PackageTypes'
    BY DEF PackageInv, PackageTypes
  <1>2. \A q \in Package : \A mt \in building'[q].claims : Supported(mt)'
    <2>1. \A q \in Package : \A mt \in building'[q].claims : Supported(mt)
      BY DEF PackageInv, PackageTypes
    <2>2. QED
      BY <2>1 DEF Supported, Supports, UserProvided
  <1>3. \A k \in 1..Len(packages) :
           Sound(packages[k].claims, packages[k].narrative, packages[k].valid)'
    BY DEF PackageInv, Sound, Supported, Supports, UserProvided
  <1>4. QED
    BY <1>1, <1>2, <1>3 DEF PackageInv

LEMMA FreshBuilds == \A how \in {"queued", "done", "failed"} :
    [Fresh EXCEPT !.stage = how] \in Build /\ [Fresh EXCEPT !.stage = how].claims = {}
  BY DEF Fresh, Build

LEMMA MatrixReadKeeps ==
    ASSUME CoreInv, PackageInv, NEW p \in Package, MatrixRead(p) PROVE PackageInv'
  <1>1. PICK V \in Verdicts :
           building' = [building EXCEPT ![p].stage = "matched", ![p].verdicts = V]
    BY DEF MatrixRead
  <1> DEFINE b == [building[p] EXCEPT !.stage = "matched", !.verdicts = V]
  <1>2. building[p] \in Build /\ building \in [Package -> Build]
    BY DEF PackageInv, PackageTypes
  <1>3. V \subseteq Match
    BY DEF Verdicts, CoreInv, EvidenceInv, EvidenceTypes
  <1>4. b \in Build /\ b.claims = building[p].claims
    BY <1>2, <1>3 DEF Build
  <1>5. building' = [building EXCEPT ![p] = b]
    BY <1>1, <1>2
  <1>6. UNCHANGED <<items, replaced, sourced, packages, approved>>
    BY DEF MatrixRead, vars, evidence
  <1>7. \A mt \in b.claims : Supported(mt)
    BY <1>4 DEF PackageInv
  <1> HIDE DEF b
  <1>8. QED
    BY <1>4, <1>5, <1>6, <1>7, BuildGoesOn

LEMMA MatrixJoinedKeeps ==
    ASSUME PackageInv, NEW p \in Package, MatrixJoined(p) PROVE PackageInv'
  <1> DEFINE C == {mt \in building[p].verdicts : Supports(mt) /\ mt.item \in items}
             b == [building[p] EXCEPT !.stage = "joined", !.claims = C]
  <1>1. building' = [building EXCEPT ![p].stage = "joined", ![p].claims = C]
    BY DEF MatrixJoined
  <1>2. building[p] \in Build /\ building \in [Package -> Build]
    BY DEF PackageInv, PackageTypes
  <1>3. C \subseteq Match /\ \A mt \in C : Supported(mt)
    BY <1>2 DEF Build, Supported
  <1> HIDE DEF C
  <1>4. b \in Build /\ b.claims = C
    BY <1>2, <1>3 DEF Build
  <1>5. building' = [building EXCEPT ![p] = b]
    BY <1>1, <1>2
  <1>6. UNCHANGED <<items, replaced, sourced, packages, approved>>
    BY DEF MatrixJoined, vars, evidence
  <1> HIDE DEF b
  <1>7. QED
    BY <1>3, <1>4, <1>5, <1>6, BuildGoesOn

LEMMA DraftedKeeps ==
    ASSUME PackageInv, NEW p \in Package, Drafted(p) PROVE PackageInv'
  <1>1. PICK N \in Narratives(building[p].claims) :
           building' = [building EXCEPT ![p].stage = "drafted", ![p].narrative = N]
    BY DEF Drafted
  <1> DEFINE b == [building[p] EXCEPT !.stage = "drafted", !.narrative = N]
  <1>2. /\ building[p] \in Build /\ building \in [Package -> Build] /\ sourced \in BOOLEAN
        /\ building[p].claims \subseteq Match
    BY DEF PackageInv, PackageTypes, Build
  <1>3. N \subseteq Narrative
    <2> DEFINE cited == {mt.item : mt \in building[p].claims} \cup {NoItem}
    <2>1. cited \subseteq Item \cup {NoItem}
      BY <1>2 DEF Match
    <2>2. {Citation(mt) : mt \in building[p].claims} \subseteq Narrative
      BY <1>2 DEF Citation, Narrative, Match
    <2>3. [item : cited, sourced : {FALSE, sourced}] \subseteq Narrative
      BY <1>2, <2>1 DEF Narrative
    <2>4. \/ N = {} \/ N = {Citation(mt) : mt \in building[p].claims}
          \/ \E c \in [item : cited, sourced : {FALSE, sourced}] : N = {c}
      BY DEF Narratives
    <2> HIDE DEF cited
    <2>5. QED
      BY <2>2, <2>3, <2>4
  <1>4. b \in Build /\ b.claims = building[p].claims
    BY <1>2, <1>3 DEF Build
  <1>5. building' = [building EXCEPT ![p] = b]
    BY <1>1, <1>2
  <1>6. UNCHANGED <<items, replaced, sourced, packages, approved>>
    BY DEF Drafted, vars, evidence
  <1>7. \A mt \in b.claims : Supported(mt)
    BY <1>4 DEF PackageInv
  <1> HIDE DEF b
  <1>8. QED
    BY <1>4, <1>5, <1>6, <1>7, BuildGoesOn

LEMMA BuildStopsKeeps ==
    ASSUME PackageInv, NEW p \in Package, DraftFails(p) \/ BuildRolledBack(p) PROVE PackageInv'
  <1>1. UNCHANGED <<items, replaced, sourced, packages, approved>>
    BY DEF DraftFails, BuildRolledBack, evidence
  <1>2. Fresh = [Fresh EXCEPT !.stage = "queued"]
    BY DEF Fresh
  <1>3. \E b \in Build : b.claims = {} /\ building' = [building EXCEPT ![p] = b]
    BY <1>2, FreshBuilds DEF DraftFails, BuildRolledBack
  <1>4. QED
    BY <1>1, <1>3, BuildGoesOn

\* What the check of the citations says of a build.
LEMMA ValidatedFacts ==
    ASSUME PackageInv, NEW p \in Package
    PROVE  Sound(building[p].claims, building[p].narrative, Validated(building[p]))
  <1>1. \A mt \in building[p].claims : Supported(mt)
    BY DEF PackageInv
  <1>2. ASSUME Validated(building[p])
        PROVE  /\ building[p].claims # {} /\ building[p].narrative # {}
               /\ \A c \in building[p].narrative : c.item \in items \/ c.sourced
    BY <1>2 DEF Validated, Resolves
  <1>3. QED
    BY <1>1, <1>2 DEF Sound

LEMMA BuildCommitsKeeps ==
    ASSUME PackageInv, NEW p \in Package, BuildCommits(p) PROVE PackageInv'
  <1> DEFINE v == [claims |-> building[p].claims, narrative |-> building[p].narrative,
                   valid |-> Validated(building[p])]
             b == [Fresh EXCEPT !.stage = "done"]
  <1>1. /\ packages' = Append(packages, v) /\ building' = [building EXCEPT ![p] = b]
        /\ UNCHANGED <<items, replaced, sourced, approved>>
    BY DEF BuildCommits, vars, evidence
  <1>2. b \in Build /\ b.claims = {}
    BY FreshBuilds
  <1>3. PackageTypes
    BY DEF PackageInv
  <1>4. Validated(building[p]) \in BOOLEAN
    BY DEF Validated
  <1>5. v \in Version /\ Sound(v.claims, v.narrative, v.valid)
    BY <1>3, <1>4, ValidatedFacts DEF PackageTypes, Build, Version
  <1> HIDE DEF v, b
  <1>6. /\ packages' \in Seq(Version) /\ Len(packages') = Len(packages) + 1
        /\ Len(packages) \in Nat
        /\ \A k \in 1..Len(packages) : packages'[k] = packages[k]
        /\ packages'[Len(packages) + 1] = v
    BY <1>1, <1>3, <1>5 DEF PackageTypes
  <1>7. PackageTypes'
    BY <1>1, <1>2, <1>3, <1>6 DEF PackageTypes
  <1>8. \A q \in Package : \A mt \in building'[q].claims : Supported(mt)'
    <2>1. \A q \in Package : \A mt \in building'[q].claims : Supported(mt)
      BY <1>1, <1>2, <1>3 DEF PackageInv, PackageTypes
    <2>2. QED
      BY <1>1, <2>1 DEF Supported, Supports, UserProvided
  <1>9. \A k \in 1..Len(packages') :
           Sound(packages[k].claims, packages[k].narrative, packages[k].valid)'
    <2> SUFFICES ASSUME NEW k \in 1..Len(packages')
                 PROVE  Sound(packages[k].claims, packages[k].narrative, packages[k].valid)'
      OBVIOUS
    <2>1. Sound(packages'[k].claims, packages'[k].narrative, packages'[k].valid)
      BY <1>5, <1>6 DEF PackageInv
    <2>2. QED
      BY <1>1, <2>1 DEF Sound, Supported, Supports, UserProvided
  <1>10. approved # 0 => packages'[approved].valid
    BY <1>3, <1>6 DEF PackageInv, PackageTypes
  <1>11. QED
    BY <1>1, <1>7, <1>8, <1>9, <1>10 DEF PackageInv

LEMMA ApproveKeeps == ASSUME PackageInv, Approve PROVE PackageInv'
  <1>1. /\ packages # <<>> /\ packages[Len(packages)].valid /\ approved' = Len(packages)
        /\ UNCHANGED <<items, replaced, sourced, building, packages>>
    BY DEF Approve, vars, evidence
  <1>2. PackageTypes'
    BY <1>1 DEF PackageInv, PackageTypes
  <1>3. \A k \in 1..Len(packages) :
           Sound(packages[k].claims, packages[k].narrative, packages[k].valid)'
    BY <1>1 DEF PackageInv, Sound, Supported, Supports, UserProvided
  <1>4. \A p \in Package : \A mt \in building'[p].claims : Supported(mt)'
    BY <1>1 DEF PackageInv, Supported, Supports, UserProvided
  <1>5. QED
    BY <1>1, <1>2, <1>3, <1>4 DEF PackageInv

LEMMA PackageIdle == ASSUME PackageInv, UNCHANGED <<items, assembly>> PROVE PackageInv'
  BY DEF assembly, PackageInv, PackageTypes, Sound, Supported, Supports, UserProvided

LEMMA BuildLeavesCore ==
    ASSUME CoreInv, Approve \/ \E p \in Package : PackageStep(p) PROVE CoreInv'
  <1>1. UNCHANGED <<crew, documents, profiles, evidence>>
    BY DEF Approve, PackageStep, MatrixRead, MatrixJoined, Drafted, DraftFails,
       BuildRolledBack, BuildCommits, vars
  <1>2. QED
    BY <1>1, CoreIdle

LEMMA AllKept == IInv /\ [PackageNext]_allVars => IInv'
  <1> SUFFICES ASSUME IInv, [PackageNext]_allVars PROVE IInv'
    OBVIOUS
  <1>i. CoreInv /\ PackageInv
    BY DEF IInv
  <1>1. CASE EvidenceStep
    BY <1>i, <1>1, CoreKept, EvidenceStepKeepsPackages DEF EvidenceStep, IInv
  <1>2. CASE Approve
    BY <1>i, <1>2, BuildLeavesCore, ApproveKeeps DEF IInv
  <1>3. ASSUME NEW p \in Package, PackageStep(p) PROVE IInv'
    <2>1. PackageInv'
      BY <1>i, <1>3, MatrixReadKeeps, MatrixJoinedKeeps, DraftedKeeps, BuildStopsKeeps,
         BuildCommitsKeeps DEF PackageStep
    <2>2. QED
      BY <1>i, <1>3, <2>1, BuildLeavesCore DEF IInv
  <1>4. CASE UNCHANGED allVars
    BY <1>i, <1>4, CoreIdle, PackageIdle DEF allVars, vars, evidence, IInv
  <1>5. QED
    BY <1>1, <1>2, <1>3, <1>4 DEF PackageNext

LEMMA Inductive == PackageSpec => []IInv
  <1>1. PackageInit => IInv
    BY CoreStarts, PackageStarts DEF PackageInit, IInv
  <1>2. QED
    BY <1>1, AllKept, PTL DEF PackageSpec

-----------------------------------------------------------------------------

\* What is parsed can be cited, and from one place: however the ingestions of a
\* text overlap, fail and are tried again (ingestion/service.py), it is chunked
\* for one document; the exceptions are the documents whose hash a run replaced
\* without replacing their chunks.
THEOREM ParsedCitedOnce == PackageSpec => []ParsedIsCitedOnce
  <1>1. IInv => ParsedIsCitedOnce
    BY ParsedFromDocs DEF IInv, CoreInv
  <1>2. QED
    BY <1>1, Inductive, PTL

\* CON-2: a verdict cites its evidence, whatever string the agent answered, until
\* a rebuild of the profile deletes it; what the owner supplied is never taken from
\* a verdict (services/evidence.py, gaps.py, company_brain.py).
THEOREM ClaimsStayCited == PackageSpec => []UncitedOnlyByReplacement
  <1>1. IInv => UncitedOnlyByReplacement
    BY DEF IInv, CoreInv, EvidenceInv
  <1>2. QED
    BY <1>1, Inductive, PTL

\* Mappings and gap resolutions that do not overlap give a requirement one
\* verdict and take a document's chunks once, however often each is tried.
THEOREM NothingRepeated == PackageSpec => []RepeatedOnlyByOverlap
  <1>1. IInv => RepeatedOnlyByOverlap
    BY DEF IInv, CoreInv, EvidenceInv
  <1>2. QED
    BY <1>1, Inductive, PTL

\* An approved package makes claims, each a met requirement whose evidence is
\* there or was inferred and replaced since (services/packaging.py).
THEOREM ApprovedSupported == PackageSpec => []ApprovedIsSupported
  <1>1. IInv => ApprovedIsSupported
    <2> SUFFICES ASSUME IInv, approved # 0
                 PROVE  LET package == packages[approved] IN
                        /\ package.claims # {} /\ package.narrative # {}
                        /\ \A mt \in package.claims :
                             /\ mt.status \in {"matched", "user_provided"}
                             /\ mt.item \in items \cup (IF UserProvided(mt.item) THEN {}
                                                        ELSE replaced)
                        /\ \A c \in package.narrative :
                             c.item \in items \cup replaced \/ c.sourced
      BY DEF ApprovedIsSupported
    <2>1. approved \in 1..Len(packages) /\ packages[approved].valid
      BY DEF IInv, PackageInv, PackageTypes
    <2>2. Sound(packages[approved].claims, packages[approved].narrative, TRUE)
      BY <2>1 DEF IInv, PackageInv, Sound
    <2>3. QED
      BY <2>2 DEF Sound, Supported, Supports
  <1>2. QED
    BY <1>1, Inductive, PTL

\* A value the owner has set is replaced by an inferred one only if it was set
\* while another writer had the profile loaded (services/company_brain.py,
\* api/company_profile.py).
THEOREM OwnerKeepsWinning == PackageSpec => OwnerWins
  <1>1. IInv /\ [PackageNext]_allVars =>
           [\A f \in Field : profile # NoProfile /\ profile.value[f] = "owner"
               /\ profile'.value[f] = "inferred" => f \in exposed]_vars
    <2> SUFFICES ASSUME IInv, [PackageNext]_allVars, NEW f \in Field, profile # NoProfile,
                        profile.value[f] = "owner", profile'.value[f] = "inferred"
                 PROVE  f \in exposed
      OBVIOUS
    <2>1. profile' # profile
      OBVIOUS
    <2>2. Next
      <3>1. CASE EvidenceStep
        BY <3>1 DEF EvidenceStep
      <3>2. CASE Approve \/ (\E p \in Package : PackageStep(p)) \/ UNCHANGED allVars
        BY <2>1, <3>2 DEF Approve, PackageStep, MatrixRead, MatrixJoined, Drafted, DraftFails,
           BuildRolledBack, BuildCommits, vars, allVars, profiles
      <3>3. QED
        BY <3>1, <3>2 DEF PackageNext
    <2>3. PICK w \in Writer : Store(w)
      BY <2>1, <2>2, ProfileStores
    <2>4. QED
      BY <2>3, StoreRespectsOwner DEF IInv, CoreInv, Owned
  <1>2. QED
    BY <1>1, Inductive, PTL DEF PackageSpec, OwnerWins
=============================================================================
