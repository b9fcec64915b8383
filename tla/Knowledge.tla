------------------------------- MODULE Knowledge -------------------------------
(***************************************************************************)
(* The knowledge tier: the script that ingests the official laws           *)
(* (ingest_legal_corpus.py), the corpus that a service loads when it starts*)
(* (corpus_ingestion.py), the Qdrant index that all services share         *)
(* (qdrant_retriever.py), and the check of every citation against the      *)
(* corpus of the service that answers (citation_validator.py).             *)
(*                                                                         *)
(* A law appears in editions 1, 2, ...; the text of a provision is told by *)
(* its edition.  Every document is in force: no source sets effective_to.  *)
(***************************************************************************)
EXTENDS Integers, Sequences, FiniteSets

CONSTANTS
    Laws,                 \* OFFICIAL_SOURCES, in order
    Provisions,           \* provisions of a law
    SyntheticProvisions,  \* those the synthetic fixtures have too
    Services,             \* API and worker processes
    ReadOnly,             \* those that see the corpus directory mounted read-only
    RetrievalLimit,       \* limit of a query
    MaxEdition,           \* bound: editions of a law
    MaxIngests,           \* bound: runs of the script
    MaxStarts             \* bound: starts of services

ASSUME KnowledgeAssumption ==
    /\ SyntheticProvisions \subseteq Provisions /\ ReadOnly \subseteq Services
    /\ {RetrievalLimit, MaxEdition, MaxIngests, MaxStarts} \subseteq Nat \ {0}

VARIABLES
    published,  \* published[law]: the edition at the official URL
    pdf,        \* pdf[law]: the cached download
    chunks,     \* chunks[law]: chunks.json
    corpusManifest,  \* corpus_manifest.json: what text it says each law has
    ingest,     \* the run of the script: the law it is at, and what it parsed
    points,     \* points[key]: the text the index holds, by law and provision
    collection, \* the index has been created
    service,    \* service[s]: phase, corpus, and the keys it has yet to index
    answer,     \* the citations returned in the last step, if it was a query
    runs,       \* bounded counters
    starts

knowVars == <<published, pdf, chunks, corpusManifest, ingest, points, collection,
              service, answer, runs, starts>>

\* Texts that are not an edition.
Synthetic == 0
NoText    == -1   \* no file, no point
Damaged   == -2   \* a write was interrupted
Unparsed  == -3   \* no article was found in the PDF

LawSet   == {Laws[i] : i \in 1 .. Len(Laws)}
Keys     == LawSet \X Provisions
Everywhere(text) == [law \in LawSet |-> text]

NoAnswer     == [by |-> "nobody", citations |-> {}]
NotIngesting == [at |-> 0, parsed |-> <<>>]
Down         == [phase |-> "down", corpus |-> Everywhere(NoText), todo |-> {}]

KnowInit ==
    /\ published = Everywhere(1)
    /\ pdf = Everywhere(NoText) /\ chunks = Everywhere(NoText)
    /\ corpusManifest = Everywhere(NoText)
    /\ ingest = NotIngesting
    /\ points = [k \in Keys |-> NoText] /\ collection = FALSE
    /\ service = [s \in Services |-> Down]
    /\ answer = NoAnswer
    /\ runs = 0 /\ starts = 0

\* What a step of the script, or of the world, leaves alone.
NothingElse == UNCHANGED <<points, collection, service, starts>> /\ answer' = NoAnswer

\* The government publishes a later edition at the same URL.
Publish(law) ==
    /\ published[law] < MaxEdition
    /\ published' = [published EXCEPT ![law] = @ + 1]
    /\ UNCHANGED <<pdf, chunks, corpusManifest, ingest, runs>> /\ NothingElse

-----------------------------------------------------------------------------
\* The ingestion script.  It writes each file in place.

StartIngest ==
    /\ ingest.at = 0 /\ runs < MaxIngests
    /\ runs' = runs + 1
    /\ ingest' = [at |-> 1, parsed |-> <<>>]
    /\ UNCHANGED <<published, pdf, chunks, corpusManifest>> /\ NothingElse

AtLaw(law) == ingest.at \in 1 .. Len(Laws) /\ law = Laws[ingest.at]

\* A download that is not cached; an interrupted write leaves a cut file, which
\* is large enough to count as cached.
Fetch(law) ==
    /\ AtLaw(law) /\ pdf[law] = NoText
    /\ \/ pdf' = [pdf EXCEPT ![law] = published[law]] /\ UNCHANGED ingest
       \/ pdf' = [pdf EXCEPT ![law] = Damaged] /\ ingest' = NotIngesting
    /\ UNCHANGED <<published, chunks, corpusManifest, runs>> /\ NothingElse

\* The operator removes a cached download, without which the script would never
\* see a later edition.
ClearCache(law) ==
    /\ pdf[law] # NoText /\ ingest.at = 0
    /\ pdf' = [pdf EXCEPT ![law] = NoText]
    /\ UNCHANGED <<published, chunks, corpusManifest, ingest, runs>> /\ NothingElse

\* parse_articles of the cached file, and the law's chunks.json.
WriteChunks(law) ==
    /\ AtLaw(law) /\ pdf[law] # NoText
    /\ \/ LET text == IF pdf[law] = Damaged THEN Unparsed ELSE pdf[law]
          IN  /\ chunks' = [chunks EXCEPT ![law] = text]
              /\ ingest' = [at |-> ingest.at + 1, parsed |-> Append(ingest.parsed, text)]
       \/ chunks' = [chunks EXCEPT ![law] = Damaged] /\ ingest' = NotIngesting
    /\ UNCHANGED <<published, pdf, corpusManifest, runs>> /\ NothingElse

WriteCorpusManifest ==
    /\ ingest.at = Len(Laws) + 1
    /\ corpusManifest' = [law \in LawSet |->
                             ingest.parsed[CHOOSE i \in 1 .. Len(Laws) : Laws[i] = law]]
    /\ ingest' = NotIngesting
    /\ UNCHANGED <<published, pdf, chunks, runs>> /\ NothingElse

\* A download fails, a PDF cannot be read, or the script is killed.
StopIngest ==
    /\ ingest.at # 0
    /\ ingest' = NotIngesting
    /\ UNCHANGED <<published, pdf, chunks, corpusManifest, runs>> /\ NothingElse

-----------------------------------------------------------------------------
\* A service.

\* load_official_corpus: every file must be there and whole, and something in
\* one of them.
OfficialCorpusLoads ==
    /\ \A law \in LawSet : chunks[law] \notin {NoText, Damaged}
    /\ \E law \in LawSet : chunks[law] # Unparsed

\* ingest_minimal_corpus: otherwise the synthetic fixtures, whose manifest
\* replaces the file; the official corpus keeps the manifest it finds.
LoadedCorpus == IF OfficialCorpusLoads THEN chunks ELSE Everywhere(Synthetic)

ManifestIsKept == OfficialCorpusLoads /\ \E law \in LawSet : corpusManifest[law] # NoText

ManifestAfterLoad == IF ManifestIsKept THEN corpusManifest ELSE LoadedCorpus

KeysOf(corpus) ==
    {k \in Keys : \/ corpus[k[1]] > Synthetic
                  \/ corpus[k[1]] = Synthetic /\ k[2] \in SyntheticProvisions}

\* What a step of a service leaves alone.
FilesUntouched == UNCHANGED <<published, pdf, chunks, ingest, runs>>

\* The constructor of RealT3Adapter loads the corpus, ensures that there is an
\* index, and puts the corpus into it, chunk by chunk.  Where the directory is
\* read-only it raises at a manifest it has to write.
StartService(s) ==
    /\ service[s].phase = "down" /\ starts < MaxStarts
    /\ s \in ReadOnly => ManifestIsKept
    /\ starts' = starts + 1
    /\ corpusManifest' = ManifestAfterLoad
    /\ service' = [service EXCEPT ![s] = [phase  |-> "loaded",
                                          corpus |-> LoadedCorpus,
                                          todo   |-> KeysOf(LoadedCorpus)]]
    /\ answer' = NoAnswer
    /\ FilesUntouched /\ UNCHANGED <<points, collection>>

\* ensure_collection asks first and creates after; when another process was faster,
\* the creation is refused and the constructor raises.
EnsureCollection(s) ==
    /\ \/ /\ service[s].phase = "loaded"
          /\ service' = [service EXCEPT ![s].phase =
                            IF collection THEN "starting" ELSE "creating"]
          /\ UNCHANGED collection
       \/ /\ service[s].phase = "creating"
          /\ service' = [service EXCEPT ![s] =
                            IF collection THEN Down ELSE [@ EXCEPT !.phase = "starting"]]
          /\ collection' = TRUE
    /\ answer' = NoAnswer
    /\ FilesUntouched /\ UNCHANGED <<corpusManifest, points, starts>>

\* index_chunk: the id of a point is that of its law and provision, so the
\* upsert replaces the text another process has put there.
IndexChunk(s) ==
    /\ service[s].phase = "starting"
    /\ \E k \in service[s].todo :
          /\ points' = [points EXCEPT ![k] = service[s].corpus[k[1]]]
          /\ service' = [service EXCEPT ![s].todo  = @ \ {k},
                                        ![s].phase = IF service[s].todo = {k} THEN "up" ELSE @]
    /\ answer' = NoAnswer
    /\ FilesUntouched /\ UNCHANGED <<corpusManifest, collection, starts>>

StopService(s) ==
    /\ service[s].phase # "down"
    /\ service' = [service EXCEPT ![s] = Down]
    /\ answer' = NoAnswer
    /\ FilesUntouched /\ UNCHANGED <<corpusManifest, points, collection, starts>>

\* Defect: the hash of the citation is not compared.
ProvisionRegistered(s, k) == k \in KeysOf(service[s].corpus)

\* validate_citation: the provision is in the service's own corpus, with the hash
\* of the text the index returned.
CitationValid(s, k) ==
    k \in KeysOf(service[s].corpus) /\ points[k] = service[s].corpus[k[1]]

\* validate_all drops the invalid citations; with none left the answer is a
\* structured failure, which cites nothing.
Validated(s, found) ==
    {[key |-> k, text |-> points[k]] : k \in {f \in found : CitationValid(s, f)}}

AnswerWith(s, citations) ==
    /\ service[s].phase = "up"
    /\ answer' = [by |-> s, citations |-> citations]
    /\ FilesUntouched /\ UNCHANGED <<corpusManifest, points, collection, service, starts>>

\* retrieve returns some of the points.
Query(s) ==
    \E found \in SUBSET {k \in Keys : points[k] # NoText} :
        Cardinality(found) <= RetrievalLimit /\ AnswerWith(s, Validated(s, found))

\* Qdrant or the encoder fails: query_legal_evidence makes a structured failure of
\* the exception.
QueryFails(s) == AnswerWith(s, {})

KnowNext ==
    \/ StartIngest \/ WriteCorpusManifest \/ StopIngest
    \/ \E law \in LawSet : Publish(law) \/ Fetch(law) \/ ClearCache(law) \/ WriteChunks(law)
    \/ \E s \in Services : \/ StartService(s) \/ EnsureCollection(s) \/ IndexChunk(s)
                           \/ StopService(s) \/ Query(s) \/ QueryFails(s)

KnowSpec == KnowInit /\ [][KnowNext]_knowVars

-----------------------------------------------------------------------------
\* The evidence of one answer is text of one corpus, the one its service loaded
\* whole, though every process that starts overwrites the index: no synthetic fixture
\* stands beside a law and no edition beside that of another load.  That corpus may
\* be the fixtures, but not of a service that sees its directory read-only.
EvidenceIsOwnCorpus ==
    /\ \A c \in answer.citations :
          /\ c.text = service[answer.by].corpus[c.key[1]]
          /\ c.text \in {Synthetic} \cup 1 .. MaxEdition
          /\ answer.by \in ReadOnly => c.text # Synthetic
    /\ \A c, d \in answer.citations : (c.text = Synthetic) = (d.text = Synthetic)

=============================================================================
