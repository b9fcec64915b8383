---------------------------- MODULE Offline_proofs ----------------------------
(***************************************************************************)
(* Proofs about the components that work beside the jobs, each with an     *)
(* inductive invariant of its own: what the service's answers rest on (the *)
(* citations of the knowledge tier, the data and gates of the trained      *)
(* models), and the scripts that are run by hand (the release of a         *)
(* detector, the executor's runs on tickets, the Linear board).            *)
(***************************************************************************)
EXTENDS ProvisionalJobs, Knowledge, PhaseGates, VisionData, DetectionScores, DetectorRelease,
        LinearBoard, HermesRuns, FiniteSetTheorems, TLAPS

-----------------------------------------------------------------------------
(* Knowledge.                                                               *)

Editions == 1 .. MaxEdition

Parsed == [LawSet -> {Unparsed} \cup Editions]

\* What a service may have loaded: the laws, or the fixtures in place of all.
Corpora == Parsed \cup {Everywhere(Synthetic)}

\* A service without write access cannot have loaded the fixtures.
CorporaOf(s) == IF s \in ReadOnly THEN Parsed ELSE Corpora

Loading == [phase  : {"down", "loaded", "creating", "starting", "up"},
            corpus : Corpora \cup {Everywhere(NoText)},
            todo   : SUBSET Keys]

\* No file mixes the fixtures with the laws, so no corpus does.
KnowInv ==
    /\ published \in [LawSet -> Editions]
    /\ pdf \in [LawSet -> {NoText, Damaged} \cup Editions]
    /\ chunks \in [LawSet -> {NoText, Damaged, Unparsed} \cup Editions]
    /\ service \in [Services -> Loading]
    /\ \A s \in Services : service[s].phase # "down" => service[s].corpus \in CorporaOf(s)
    /\ EvidenceIsOwnCorpus

LEMMA NobodyAnswers == answer' = NoAnswer => EvidenceIsOwnCorpus'
BY DEF EvidenceIsOwnCorpus, NoAnswer

\* The step leaves the services alone; the files it writes are whole or damaged.
LEMMA FilesChange ==
  ASSUME KnowInv, answer' = NoAnswer, service' = service,
         published' \in [LawSet -> Editions],
         pdf' \in [LawSet -> {NoText, Damaged} \cup Editions],
         chunks' \in [LawSet -> {NoText, Damaged, Unparsed} \cup Editions]
  PROVE  KnowInv'
BY NobodyAnswers DEF KnowInv

LEMMA PublishInv ==
  ASSUME KnowInv, NEW law \in LawSet, Publish(law) PROVE KnowInv'
<1>1. published' \in [LawSet -> Editions]
  <2>1. MaxEdition \in Nat
    BY KnowledgeAssumption
  <2>2. published \in [LawSet -> Editions] /\ published[law] < MaxEdition
    BY DEF KnowInv, Publish
  <2>3. published[law] + 1 \in Editions
    BY <2>1, <2>2 DEF Editions
  <2> QED BY <2>2, <2>3 DEF Publish
<1> QED BY <1>1, FilesChange DEF Publish, NothingElse, KnowInv

LEMMA FetchInv ==
  ASSUME KnowInv, NEW law \in LawSet, Fetch(law) PROVE KnowInv'
<1>1. published[law] \in Editions /\ pdf \in [LawSet -> {NoText, Damaged} \cup Editions]
  BY DEF KnowInv
<1>2. pdf' \in [LawSet -> {NoText, Damaged} \cup Editions]
  BY <1>1 DEF Fetch
<1> QED BY <1>2, FilesChange DEF Fetch, NothingElse, KnowInv

LEMMA ClearCacheInv ==
  ASSUME KnowInv, NEW law \in LawSet, ClearCache(law) PROVE KnowInv'
<1>1. pdf \in [LawSet -> {NoText, Damaged} \cup Editions]
  BY DEF KnowInv
<1>2. pdf' \in [LawSet -> {NoText, Damaged} \cup Editions]
  BY <1>1 DEF ClearCache
<1> QED BY <1>2, FilesChange DEF ClearCache, NothingElse, KnowInv

LEMMA WriteChunksInv ==
  ASSUME KnowInv, NEW law \in LawSet, WriteChunks(law) PROVE KnowInv'
<1>1. /\ chunks \in [LawSet -> {NoText, Damaged, Unparsed} \cup Editions]
      /\ pdf[law] \in {NoText, Damaged} \cup Editions /\ pdf[law] # NoText
  BY DEF KnowInv, WriteChunks
<1> DEFINE text == IF pdf[law] = Damaged THEN Unparsed ELSE pdf[law]
<1>2. text \in {Unparsed} \cup Editions
  BY <1>1
<1>3. chunks' = [chunks EXCEPT ![law] = text] \/ chunks' = [chunks EXCEPT ![law] = Damaged]
  BY DEF WriteChunks
<1>4. chunks' \in [LawSet -> {NoText, Damaged, Unparsed} \cup Editions]
  <2> HIDE DEF text
  <2> QED BY <1>1, <1>2, <1>3
<1> QED BY <1>4, FilesChange DEF WriteChunks, NothingElse, KnowInv

LEMMA ScriptInv ==
  ASSUME KnowInv, StartIngest \/ WriteCorpusManifest \/ StopIngest PROVE KnowInv'
BY FilesChange DEF StartIngest, WriteCorpusManifest, StopIngest, NothingElse, KnowInv

\* What load_minimal_corpus gives a service is the laws or the fixtures.
LEMMA LoadsWhole ==
  KnowInv => LoadedCorpus \in Corpora /\ (OfficialCorpusLoads => LoadedCorpus \in Parsed)
<1> SUFFICES ASSUME KnowInv
             PROVE  LoadedCorpus \in Corpora /\ (OfficialCorpusLoads => LoadedCorpus \in Parsed)
  OBVIOUS
<1>1. CASE OfficialCorpusLoads
  <2>1. chunks \in [LawSet -> {NoText, Damaged, Unparsed} \cup Editions]
    BY DEF KnowInv
  <2>2. \A law \in LawSet : chunks[law] \notin {NoText, Damaged}
    BY <1>1 DEF OfficialCorpusLoads
  <2>3. chunks \in Parsed
    BY <2>1, <2>2 DEF Parsed
  <2> QED BY <1>1, <2>3 DEF LoadedCorpus, Corpora
<1>2. CASE ~ OfficialCorpusLoads
  BY <1>2 DEF LoadedCorpus, Corpora
<1> QED BY <1>1, <1>2

\* A service changes; the files stay.
LEMMA ServiceChanges ==
  ASSUME KnowInv, NEW s \in Services, FilesUntouched, answer' = NoAnswer,
         NEW after \in Loading, after.phase # "down" => after.corpus \in CorporaOf(s),
         service' = [service EXCEPT ![s] = after]
  PROVE  KnowInv'
<1>1. service' \in [Services -> Loading]
  BY DEF KnowInv
<1>2. \A t \in Services : service'[t].phase # "down" => service'[t].corpus \in CorporaOf(t)
  BY DEF KnowInv
<1> QED BY <1>1, <1>2, NobodyAnswers DEF FilesUntouched, KnowInv

LEMMA ServiceStepInv ==
  ASSUME KnowInv, NEW s \in Services,
         StartService(s) \/ EnsureCollection(s) \/ IndexChunk(s) \/ StopService(s)
  PROVE  KnowInv'
<1> DEFINE before == service[s]
<1>1. /\ before \in Loading /\ service \in [Services -> Loading]
      /\ before.phase # "down" => before.corpus \in CorporaOf(s)
  BY DEF KnowInv
<1>2. ASSUME StartService(s) PROVE KnowInv'
  <2> DEFINE after == [phase |-> "loaded", corpus |-> LoadedCorpus,
                       todo |-> KeysOf(LoadedCorpus)]
  <2>1. LoadedCorpus \in Corpora /\ KeysOf(LoadedCorpus) \in SUBSET Keys
    BY LoadsWhole DEF KeysOf
  <2>2. after \in Loading /\ after.corpus \in CorporaOf(s)
    BY <1>2, <2>1, LoadsWhole DEF Loading, CorporaOf, StartService, ManifestIsKept
  <2>3. FilesUntouched /\ answer' = NoAnswer /\ service' = [service EXCEPT ![s] = after]
    BY <1>2 DEF StartService
  <2> HIDE DEF after
  <2> QED BY <2>2, <2>3, ServiceChanges
<1>3. CASE service' = [service EXCEPT ![s] = Down] /\ FilesUntouched /\ answer' = NoAnswer
  <2>1. Down \in Loading /\ Down.phase = "down"
    BY DEF Down, Loading
  <2> QED BY <1>3, <2>1, ServiceChanges
<1>4. ASSUME EnsureCollection(s) PROVE KnowInv'
  <2>1. FilesUntouched /\ answer' = NoAnswer /\ before.phase \in {"loaded", "creating"}
    BY <1>4 DEF EnsureCollection
  <2>2. CASE service' = [service EXCEPT ![s] = Down]
    BY <1>3, <2>1, <2>2
  <2>3. CASE \E phase \in {"creating", "starting"} :
                service' = [service EXCEPT ![s].phase = phase]
    <3>1. PICK phase \in {"creating", "starting"} :
             service' = [service EXCEPT ![s].phase = phase]
      BY <2>3
    <3> DEFINE after == [before EXCEPT !.phase = phase]
    <3>2. service' = [service EXCEPT ![s] = after]
      BY <1>1, <3>1
    <3>3. after \in Loading /\ after.corpus = before.corpus
      <4> HIDE DEF before
      <4> QED BY <1>1 DEF Loading
    <3> HIDE DEF before, after
    <3> QED BY <1>1, <2>1, <3>2, <3>3, ServiceChanges
  <2> QED BY <1>4, <2>2, <2>3 DEF EnsureCollection
<1>5. ASSUME IndexChunk(s) PROVE KnowInv'
  <2>1. FilesUntouched /\ answer' = NoAnswer /\ before.phase = "starting"
    BY <1>5 DEF IndexChunk
  <2>2. PICK k \in before.todo :
           service' = [service EXCEPT ![s].todo  = @ \ {k},
                                      ![s].phase = IF before.todo = {k} THEN "up" ELSE @]
    BY <1>5 DEF IndexChunk
  <2> DEFINE phase == IF before.todo = {k} THEN "up" ELSE "starting"
             todo  == before.todo \ {k}
             after == [before EXCEPT !.todo = todo, !.phase = phase]
  <2>3. service' = [service EXCEPT ![s] = after]
    BY <1>1, <2>1, <2>2
  <2>4. phase \in {"starting", "up"} /\ todo \in SUBSET Keys
    BY <1>1 DEF Loading
  <2>5. after \in Loading /\ after.corpus = before.corpus
    <3> HIDE DEF before, phase, todo
    <3> QED BY <1>1, <2>4 DEF Loading
  <2> HIDE DEF before, after
  <2> QED BY <1>1, <2>1, <2>3, <2>5, ServiceChanges
<1>6. ASSUME StopService(s) PROVE KnowInv'
  BY <1>3, <1>6 DEF StopService
<1> QED BY <1>2, <1>4, <1>5, <1>6

\* validate_citation: whatever other services have put into the index, a citation
\* that is returned has the text of the service's own corpus.
LEMMA AnswerInv ==
  ASSUME KnowInv, NEW s \in Services, Query(s) \/ QueryFails(s) PROVE KnowInv'
<1>1. PICK found \in SUBSET Keys : AnswerWith(s, Validated(s, found))
  <2>1. Validated(s, {}) = {}
    BY DEF Validated
  <2>2. {} \in SUBSET Keys
    OBVIOUS
  <2> QED BY <2>1, <2>2 DEF Query, QueryFails
<1>2. service[s].corpus \in CorporaOf(s)
  BY <1>1 DEF AnswerWith, KnowInv
<1>3. service' = service /\ answer' = [by |-> s, citations |-> Validated(s, found)]
  BY <1>1 DEF AnswerWith
<1>4. \A c \in answer'.citations :
         \E k \in Keys : /\ c = [key |-> k, text |-> points[k]]
                         /\ k \in KeysOf(service[s].corpus)
                         /\ points[k] = service[s].corpus[k[1]]
  BY <1>3 DEF Validated, CitationValid
<1>5. \A c \in answer'.citations :
         /\ c.key[1] \in LawSet /\ c.text = service[s].corpus[c.key[1]]
         /\ c.text > Synthetic \/ c.text = Synthetic
  BY <1>4 DEF KeysOf, Keys
<1>6. CASE service[s].corpus = Everywhere(Synthetic) /\ s \notin ReadOnly
  <2>1. \A c \in answer'.citations : c.text = Synthetic
    BY <1>5, <1>6 DEF Everywhere
  <2>2. EvidenceIsOwnCorpus'
    BY <1>3, <1>5, <1>6, <2>1 DEF EvidenceIsOwnCorpus
  <2> QED BY <1>1, <2>2 DEF AnswerWith, FilesUntouched, KnowInv
<1>7. CASE service[s].corpus \in Parsed
  <2>1. \A c \in answer'.citations : c.text \in {Unparsed} \cup Editions
    BY <1>5, <1>7 DEF Parsed
  <2>2. MaxEdition \in Nat
    BY KnowledgeAssumption
  <2>3. \A c \in answer'.citations : c.text \in 1 .. MaxEdition /\ c.text # Synthetic
    BY <1>5, <2>1, <2>2 DEF Unparsed, Synthetic, Editions
  <2> QED BY <1>1, <1>3, <1>5, <2>3 DEF AnswerWith, FilesUntouched, KnowInv, EvidenceIsOwnCorpus
<1> QED BY <1>2, <1>6, <1>7 DEF CorporaOf, Corpora

LEMMA KnowInvInit == KnowInit => KnowInv
<1> SUFFICES ASSUME KnowInit PROVE KnowInv
  OBVIOUS
<1>1. 1 \in Editions
  BY KnowledgeAssumption DEF Editions
<1>2. \A s \in Services : service[s] = Down
  BY DEF KnowInit
<1>3. Down \in Loading
  BY DEF Down, Loading
<1> QED BY <1>1, <1>2, <1>3 DEF KnowInit, KnowInv, Everywhere, Down, NoAnswer, EvidenceIsOwnCorpus

LEMMA KnowInvNext == KnowInv /\ [KnowNext]_knowVars => KnowInv'
<1> SUFFICES ASSUME KnowInv, [KnowNext]_knowVars PROVE KnowInv'
  OBVIOUS
<1>1. CASE UNCHANGED knowVars
  BY <1>1 DEF knowVars, KnowInv, EvidenceIsOwnCorpus
<1>2. CASE StartIngest \/ WriteCorpusManifest \/ StopIngest
  BY <1>2, ScriptInv
<1>3. CASE \E law \in LawSet : Publish(law) \/ Fetch(law) \/ ClearCache(law) \/ WriteChunks(law)
  BY <1>3, PublishInv, FetchInv, ClearCacheInv, WriteChunksInv
<1>4. CASE \E s \in Services : \/ StartService(s) \/ EnsureCollection(s) \/ IndexChunk(s)
                               \/ StopService(s)
  BY <1>4, ServiceStepInv
<1>5. CASE \E s \in Services : Query(s) \/ QueryFails(s)
  BY <1>5, AnswerInv
<1> QED BY <1>1, <1>2, <1>3, <1>4, <1>5 DEF KnowNext

\* Every reachable state satisfies the invariant.
THEOREM KnowledgeInvariant == KnowSpec => []KnowInv
<1> QED BY KnowInvInit, KnowInvNext, PTL DEF KnowSpec

\* However many services start, die and overwrite the shared index, the citations
\* of an answer are text of the one corpus its service loaded, and never of the fixtures
\* where its directory is read-only (citation_validator, qdrant_retriever,
\* corpus_ingestion).
THEOREM EvidenceOwn == KnowSpec => []EvidenceIsOwnCorpus
<1>1. KnowInv => EvidenceIsOwnCorpus
  BY DEF KnowInv
<1> QED BY <1>1, KnowledgeInvariant, PTL

-----------------------------------------------------------------------------
(* PhaseGates: what was trained on what.                                    *)

Readiness == [dataset : Nat, model : Nat, kpi : BOOLEAN]

DatasetDirectories == [data : Nat, manifest : {"none", "candidate", "pass"},
                       splits : {NoSplits} \cup {Splits(steps) : steps \in Nat},
                       report : BOOLEAN, baseline : BOOLEAN]

ScenarioDirectories == [data : Nat, manifest : {"none", "written", "validated"},
                        report : BOOLEAN]

Ensembles == [data : Nat, reported : BOOLEAN,
              benchmark : {"none", "standard", "other", "slow", "simulated"}]

GateReports == [p2 : Readiness, p2surrogate : Nat, p3 : BOOLEAN,
                phase4 : {"none", "ready", "blocked"}]

\* The directories hold what the scripts write, and the splits are those of the data.
GateTypes ==
    /\ dataset \in DatasetDirectories /\ sumo \in ScenarioDirectories
    /\ forecaster \in [data : Nat, reported : BOOLEAN]
    /\ evidence \in [model : Nat, dataset : Nat] /\ readiness \in Readiness
    /\ surrogate \in Ensembles /\ reports \in GateReports
    /\ dataset.splits \in {NoSplits, Splits(dataset.data)}

Valid(kind, data) == data = 0 \/ <<kind, data>> \in passed

\* A manifest that says so follows a validation of the data that is there.
ManifestsTell ==
    /\ dataset.manifest = "pass" => Valid("dataset", dataset.data)
    /\ sumo.manifest = "validated" => Valid("scenarios", sumo.data)

TrainedOnValid ==
    /\ Valid("dataset", forecaster.data) /\ Valid("scenarios", surrogate.data)
    /\ Valid("dataset", evidence.dataset) /\ Valid("dataset", evidence.model)
    /\ Valid("dataset", readiness.dataset) /\ Valid("dataset", readiness.model)

ReportedOnValid ==
    /\ Valid("dataset", reports.p2.dataset) /\ Valid("dataset", reports.p2.model)
    /\ Valid("scenarios", reports.p2surrogate)

\* A KPI is that of a model, and the gate is passed with a surrogate.
KpisHaveModels ==
    /\ readiness.kpi => readiness.model # 0
    /\ reports.p2.kpi => reports.p2.model # 0 /\ reports.p2surrogate # 0
    /\ reports.phase4 = "ready" => reports.p2.model # 0 /\ reports.p2surrogate # 0

GateInv ==
    /\ GateTypes /\ ManifestsTell
    /\ TrainedOnValid /\ ReportedOnValid /\ KpisHaveModels

\* What passed stays passed.
LEMMA PassedStays ==
  ASSUME passed \subseteq passed', NEW kind, NEW data, Valid(kind, data)
  PROVE  data = 0 \/ <<kind, data>> \in passed'
BY DEF Valid

\* A step that changes the dataset directory alone, or with what it passed.
LEMMA DatasetChanges ==
  ASSUME GateInv, passed \subseteq passed', dataset' \in DatasetDirectories,
         dataset'.splits \in {NoSplits, Splits(dataset'.data)},
         dataset'.manifest = "pass" => <<"dataset", dataset'.data>> \in passed',
         UNCHANGED <<forecaster, evidence, readiness, sumo, surrogate, reports>>
  PROVE  GateInv'
BY PassedStays
DEF GateInv, GateTypes, ManifestsTell, TrainedOnValid, ReportedOnValid, KpisHaveModels, Valid

LEMMA ScenariosChange ==
  ASSUME GateInv, passed \subseteq passed', sumo' \in ScenarioDirectories,
         sumo'.manifest = "validated" => <<"scenarios", sumo'.data>> \in passed',
         UNCHANGED <<dataset, forecaster, evidence, readiness, surrogate, reports>>
  PROVE  GateInv'
BY PassedStays
DEF GateInv, GateTypes, ManifestsTell, TrainedOnValid, ReportedOnValid, KpisHaveModels, Valid

\* A step that trains, binds or evaluates.
LEMMA ModelsChange ==
  ASSUME GateInv, UNCHANGED <<dataset, sumo, reports, passed>>,
         forecaster' \in [data : Nat, reported : BOOLEAN],
         evidence' \in [model : Nat, dataset : Nat], readiness' \in Readiness,
         surrogate' \in Ensembles, TrainedOnValid', readiness'.kpi => readiness'.model # 0
  PROVE  GateInv'
BY DEF GateInv, GateTypes, ManifestsTell, ReportedOnValid, KpisHaveModels, Valid

LEMMA GenerateInv ==
  ASSUME GateInv, NEW steps \in Lengths, GenerateDataset(steps) PROVE GateInv'
<1>1. PICK mark \in {"none", "candidate"} :
         dataset' = [NoDataset EXCEPT !.data = steps, !.splits = Splits(steps),
                                      !.manifest = mark]
  BY DEF GenerateDataset, Regenerated
<1>2. steps \in Nat
  BY GateAssumption
<1>3. dataset' \in DatasetDirectories
  <2>1. Splits(steps) \in {Splits(n) : n \in Nat}
    BY <1>2
  <2> QED BY <1>1, <1>2, <2>1 DEF NoDataset, DatasetDirectories
<1>4. dataset'.data = steps /\ dataset'.splits = Splits(steps) /\ dataset'.manifest = mark
  BY <1>1 DEF NoDataset
<1> QED BY <1>3, <1>4, DatasetChanges DEF GenerateDataset

LEMMA RemoveInv == GateInv /\ RemoveUnfinished => GateInv'
<1> SUFFICES ASSUME GateInv, RemoveUnfinished PROVE GateInv'
  OBVIOUS
<1> USE DEF RemoveUnfinished
<1>1. CASE dataset' = NoDataset /\ UNCHANGED <<forecaster, sumo, surrogate>>
  <2>1. NoDataset \in DatasetDirectories
    BY DEF NoDataset, DatasetDirectories
  <2>2. NoDataset.manifest = "none" /\ NoDataset.splits = NoSplits
    BY DEF NoDataset
  <2> QED BY <1>1, <2>1, <2>2, DatasetChanges
<1>2. CASE forecaster' = NoForecaster /\ UNCHANGED <<dataset, sumo, surrogate>>
  <2>1. NoForecaster \in [data : Nat, reported : BOOLEAN] /\ NoForecaster.data = 0
    BY DEF NoForecaster
  <2>2. TrainedOnValid'
    BY <1>2, <2>1 DEF GateInv, TrainedOnValid, Valid
  <2> QED BY <1>2, <2>1, <2>2, ModelsChange DEF GateInv, GateTypes, KpisHaveModels
<1>3. CASE sumo' = NoScenarios /\ UNCHANGED <<dataset, forecaster, surrogate>>
  <2>1. NoScenarios \in ScenarioDirectories /\ NoScenarios.manifest = "none"
    BY DEF NoScenarios, ScenarioDirectories
  <2> QED BY <1>3, <2>1, ScenariosChange
<1>4. CASE surrogate' = NoSurrogate /\ UNCHANGED <<dataset, forecaster, sumo>>
  <2>1. surrogate' \in Ensembles /\ surrogate'.data = 0
    BY <1>4 DEF NoSurrogate, Ensembles
  <2>2. TrainedOnValid'
    BY <1>4, <2>1 DEF GateInv, TrainedOnValid, Valid
  <2> QED BY <1>4, <2>1, <2>2, ModelsChange DEF GateInv, GateTypes, KpisHaveModels
<1> QED BY <1>1, <1>2, <1>3, <1>4

LEMMA FinalizeInv == GateInv /\ FinalizeP1 => GateInv'
<1> SUFFICES ASSUME GateInv, FinalizeP1 PROVE GateInv'
  OBVIOUS
<1>1. passed' = passed \cup {<<"dataset", dataset.data>>}
  BY DEF FinalizeP1
<1>2. /\ dataset' \in DatasetDirectories
      /\ dataset'.data = dataset.data /\ dataset'.splits = dataset.splits
  BY DEF FinalizeP1, GateInv, GateTypes, DatasetDirectories
<1> QED BY <1>1, <1>2, DatasetChanges DEF FinalizeP1, GateInv, GateTypes

LEMMA BaselinesInv == GateInv /\ EvaluateBaselines => GateInv'
<1> SUFFICES ASSUME GateInv, EvaluateBaselines PROVE GateInv'
  OBVIOUS
<1>1. /\ dataset' \in DatasetDirectories /\ dataset'.manifest = dataset.manifest
      /\ dataset'.data = dataset.data /\ dataset'.splits = dataset.splits
  BY DEF EvaluateBaselines, GateInv, GateTypes, DatasetDirectories
<1>2. /\ dataset'.splits \in {NoSplits, Splits(dataset'.data)}
      /\ UNCHANGED <<forecaster, evidence, readiness, sumo, surrogate, reports, passed>>
  BY <1>1 DEF EvaluateBaselines, GateInv, GateTypes
<1>3. GateTypes' /\ ManifestsTell'
  BY <1>1, <1>2 DEF GateInv, GateTypes, ManifestsTell, Valid
<1> QED BY <1>2, <1>3 DEF GateInv, TrainedOnValid, ReportedOnValid, KpisHaveModels, Valid

LEMMA TrainInv == GateInv /\ TrainForecaster => GateInv'
<1> SUFFICES ASSUME GateInv, TrainForecaster PROVE GateInv'
  OBVIOUS
<1>1. PICK reported \in BOOLEAN : forecaster' = [data |-> dataset.data, reported |-> reported]
  BY DEF TrainForecaster
<1>2. dataset.data \in Nat /\ Valid("dataset", dataset.data)
  BY DEF TrainForecaster, GateInv, GateTypes, ManifestsTell, DatasetDirectories
<1>3. /\ forecaster' \in [data : Nat, reported : BOOLEAN] /\ forecaster'.data = dataset.data
      /\ evidence' \in [model : Nat, dataset : Nat]
      /\ evidence'.model = 0 /\ evidence'.dataset = 0
  BY <1>1, <1>2 DEF TrainForecaster, NoEvidence
<1>4. TrainedOnValid'
  BY <1>2, <1>3 DEF TrainForecaster, GateInv, TrainedOnValid, Valid
<1> QED BY <1>3, <1>4, ModelsChange DEF TrainForecaster, GateInv, GateTypes, KpisHaveModels

LEMMA BindInv == GateInv /\ BindEvidence => GateInv'
<1> SUFFICES ASSUME GateInv, BindEvidence PROVE GateInv'
  OBVIOUS
<1>1. /\ dataset.data \in Nat /\ Valid("dataset", dataset.data)
      /\ forecaster.data \in Nat /\ Valid("dataset", forecaster.data)
  BY DEF BindEvidence, GateInv, GateTypes, ManifestsTell, TrainedOnValid, DatasetDirectories
<1>2. /\ evidence' \in [model : Nat, dataset : Nat]
      /\ evidence'.model = forecaster.data /\ evidence'.dataset = dataset.data
  BY <1>1 DEF BindEvidence
<1>3. TrainedOnValid'
  BY <1>1, <1>2 DEF BindEvidence, GateInv, TrainedOnValid, Valid
<1> QED BY <1>2, <1>3, ModelsChange DEF BindEvidence, GateInv, GateTypes, KpisHaveModels

LEMMA ReadinessInv == GateInv /\ ReportReadiness => GateInv'
<1> SUFFICES ASSUME GateInv, ReportReadiness PROVE GateInv'
  OBVIOUS
<1>1. PICK kpi \in BOOLEAN :
         readiness' = [dataset |-> dataset.data, model |-> forecaster.data, kpi |-> kpi]
  BY DEF ReportReadiness
<1>2. /\ dataset.data \in Nat /\ Valid("dataset", dataset.data) /\ forecaster.data # 0
      /\ forecaster.data \in Nat /\ Valid("dataset", forecaster.data)
  BY DEF ReportReadiness, GateInv, GateTypes, ManifestsTell, TrainedOnValid, DatasetDirectories
<1>3. /\ readiness' \in Readiness /\ readiness'.dataset = dataset.data
      /\ readiness'.model = forecaster.data
  BY <1>1, <1>2 DEF Readiness
<1>4. TrainedOnValid'
  BY <1>2, <1>3 DEF ReportReadiness, GateInv, TrainedOnValid, Valid
<1> QED BY <1>2, <1>3, <1>4, ModelsChange DEF ReportReadiness, GateInv, GateTypes

LEMMA GenerateScenariosInv == GateInv /\ GenerateScenarios => GateInv'
<1> SUFFICES ASSUME GateInv, GenerateScenarios PROVE GateInv'
  OBVIOUS
<1>1. PICK mark \in {"none", "written"} :
         sumo' = [NoScenarios EXCEPT !.data = dataset.data, !.manifest = mark]
  BY DEF GenerateScenarios, ScenariosOf
<1>2. dataset.data \in Nat
  BY DEF GateInv, GateTypes, DatasetDirectories
<1>3. sumo' \in ScenarioDirectories /\ sumo'.manifest = mark
  BY <1>1, <1>2 DEF NoScenarios, ScenarioDirectories
<1> QED BY <1>3, ScenariosChange DEF GenerateScenarios

LEMMA ScenarioStepInv == GateInv /\ (ValidateScenarios \/ Resplit) => GateInv'
<1> SUFFICES ASSUME GateInv, ValidateScenarios \/ Resplit PROVE GateInv'
  OBVIOUS
<1>1. sumo \in ScenarioDirectories
  BY DEF GateInv, GateTypes
<1>2. CASE ValidateScenarios
  <2>1. /\ sumo' \in ScenarioDirectories /\ sumo'.data = sumo.data
        /\ passed' = passed \cup {<<"scenarios", sumo.data>>}
    BY <1>1, <1>2 DEF ValidateScenarios, ScenarioDirectories
  <2> QED BY <1>2, <2>1, ScenariosChange DEF ValidateScenarios
<1>3. CASE Resplit
  <2>1. sumo' \in ScenarioDirectories /\ sumo'.manifest = "written"
    BY <1>1, <1>3 DEF Resplit, ScenarioDirectories
  <2> QED BY <1>3, <2>1, ScenariosChange DEF Resplit
<1> QED BY <1>2, <1>3

LEMMA SurrogateInv == GateInv /\ (TrainSurrogate \/ SimulateBenchmark) => GateInv'
<1> SUFFICES ASSUME GateInv, TrainSurrogate \/ SimulateBenchmark PROVE GateInv'
  OBVIOUS
<1>1. UNCHANGED <<dataset, forecaster, evidence, readiness, sumo, reports, passed>>
  BY DEF TrainSurrogate, SimulateBenchmark
<1>2. surrogate \in Ensembles /\ Valid("scenarios", surrogate.data)
  BY DEF GateInv, GateTypes, TrainedOnValid
<1>3. surrogate' \in Ensembles /\ Valid("scenarios", surrogate'.data)
  <2>1. CASE SimulateBenchmark
    <3>1. surrogate' \in Ensembles /\ surrogate'.data = surrogate.data
      BY <1>2, <2>1 DEF SimulateBenchmark, Ensembles
    <3> QED BY <1>2, <3>1
  <2>2. CASE surrogate' = [data |-> 0, reported |-> FALSE, benchmark |-> "none"]
    BY <2>2 DEF Ensembles, Valid
  <2>3. CASE sumo.manifest = "validated" /\ surrogate' \in EnsemblesOf(sumo.data)
    <3>1. sumo.data \in Nat /\ Valid("scenarios", sumo.data)
      BY <2>3 DEF GateInv, GateTypes, ManifestsTell, ScenarioDirectories
    <3>2. PICK benchmark \in {"none", "standard", "other", "slow"} :
             surrogate' = [data |-> sumo.data, reported |-> TRUE, benchmark |-> benchmark]
      BY <2>3 DEF EnsemblesOf
    <3> QED BY <3>1, <3>2 DEF Ensembles
  <2> QED BY <2>1, <2>2, <2>3 DEF TrainSurrogate
<1>4. TrainedOnValid'
  BY <1>1, <1>3 DEF GateInv, TrainedOnValid, Valid
<1> QED BY <1>1, <1>3, <1>4, ModelsChange DEF GateInv, GateTypes, KpisHaveModels

\* A gate writes its report and nothing else.
LEMMA ReportsChange ==
  ASSUME GateInv,
         UNCHANGED <<dataset, forecaster, evidence, readiness, sumo, surrogate, passed>>,
         reports' \in GateReports, ReportedOnValid', KpisHaveModels'
  PROVE  GateInv'
BY DEF GateInv, GateTypes, ManifestsTell, TrainedOnValid, Valid

LEMMA PassGateP2Inv == GateInv /\ PassGateP2 => GateInv'
<1> SUFFICES ASSUME GateInv, PassGateP2 PROVE GateInv'
  OBVIOUS
<1>1. /\ readiness \in Readiness /\ surrogate.data \in Nat /\ reports \in GateReports
      /\ readiness.kpi /\ readiness.model # 0 /\ surrogate.data # 0
      /\ Valid("scenarios", surrogate.data)
      /\ Valid("dataset", readiness.dataset) /\ Valid("dataset", readiness.model)
  BY DEF PassGateP2, P2Earned, GateInv, GateTypes, Ensembles, TrainedOnValid, KpisHaveModels
<1>2. /\ reports' \in GateReports
      /\ reports'.p2 = readiness /\ reports'.p2surrogate = surrogate.data
  BY <1>1 DEF PassGateP2, GateReports
<1>3. ReportedOnValid' /\ KpisHaveModels'
  BY <1>1, <1>2 DEF PassGateP2, ReportedOnValid, KpisHaveModels, Valid
<1> QED BY <1>2, <1>3, ReportsChange DEF PassGateP2

LEMMA LaterGatesInv == GateInv /\ (EvaluateGateP3 \/ StartPhase4) => GateInv'
<1> SUFFICES ASSUME GateInv, EvaluateGateP3 \/ StartPhase4 PROVE GateInv'
  OBVIOUS
<1>1. /\ reports \in GateReports
      /\ UNCHANGED <<dataset, forecaster, evidence, readiness, sumo, surrogate, passed>>
  BY DEF EvaluateGateP3, StartPhase4, GateInv, GateTypes
<1>2. /\ reports' \in GateReports /\ reports'.p2 = reports.p2
      /\ reports'.p2surrogate = reports.p2surrogate
      /\ reports'.phase4 = "ready" => reports.phase4 = "ready" \/ reports.p2.kpi
  <2>1. CASE EvaluateGateP3
    BY <1>1, <2>1 DEF EvaluateGateP3, GateReports
  <2>2. CASE StartPhase4
    BY <1>1, <2>2 DEF StartPhase4, GateReports
  <2> QED BY <2>1, <2>2
<1>3. ReportedOnValid' /\ KpisHaveModels'
  BY <1>1, <1>2 DEF GateInv, ReportedOnValid, KpisHaveModels, Valid
<1> QED BY <1>1, <1>2, <1>3, ReportsChange

LEMMA GateInvInit == GateInit => GateInv
<1> SUFFICES ASSUME GateInit PROVE GateInv
  OBVIOUS
<1>1. NoDataset \in DatasetDirectories /\ NoScenarios \in ScenarioDirectories
  BY DEF NoDataset, DatasetDirectories, NoScenarios, ScenarioDirectories
<1>2. /\ NoForecaster \in [data : Nat, reported : BOOLEAN] /\ NoReadiness \in Readiness
      /\ NoEvidence \in [model : Nat, dataset : Nat] /\ NoSurrogate \in Ensembles
  BY DEF NoForecaster, NoReadiness, NoEvidence, NoSurrogate, Readiness, Ensembles
<1>3. NoReports \in GateReports
  BY <1>2 DEF NoReports, GateReports
<1>4. GateTypes
  BY <1>1, <1>2, <1>3 DEF GateInit, GateTypes, NoDataset
<1>5. ManifestsTell /\ TrainedOnValid /\ ReportedOnValid /\ KpisHaveModels
  BY DEF GateInit, ManifestsTell, TrainedOnValid, ReportedOnValid, KpisHaveModels, Valid,
         NoDataset, NoScenarios, NoForecaster, NoEvidence, NoReadiness, NoSurrogate, NoReports
<1> QED BY <1>4, <1>5 DEF GateInv

LEMMA GateInvNext == GateInv /\ [GateNext]_gateVars => GateInv'
<1> SUFFICES ASSUME GateInv, [GateNext]_gateVars PROVE GateInv'
  OBVIOUS
<1>1. CASE UNCHANGED gateVars
  BY <1>1 DEF gateVars, GateInv, GateTypes, ManifestsTell, TrainedOnValid, ReportedOnValid,
              KpisHaveModels, Valid
<1>2. CASE (\E steps \in Lengths : GenerateDataset(steps)) \/ RemoveUnfinished
  BY <1>2, GenerateInv, RemoveInv
<1>3. CASE FinalizeP1 \/ EvaluateBaselines
  BY <1>3, FinalizeInv, BaselinesInv
<1>4. CASE TrainForecaster \/ BindEvidence \/ ReportReadiness
  BY <1>4, TrainInv, BindInv, ReadinessInv
<1>5. CASE GenerateScenarios \/ ValidateScenarios \/ Resplit
  BY <1>5, GenerateScenariosInv, ScenarioStepInv
<1>6. CASE TrainSurrogate \/ SimulateBenchmark
  BY <1>6, SurrogateInv
<1>7. CASE PassGateP2 \/ EvaluateGateP3 \/ StartPhase4
  BY <1>7, PassGateP2Inv, LaterGatesInv
<1> QED BY <1>1, <1>2, <1>3, <1>4, <1>5, <1>6, <1>7 DEF GateNext

\* Every reachable state satisfies the invariant.
THEOREM GateInvariant == GateSpec => []GateInv
<1> QED BY GateInvInit, GateInvNext, PTL DEF GateSpec

\* Whichever script died before, what was trained was trained on data that passed
\* its validation, and phase 4 starts after such a forecaster met its KPI and such a
\* surrogate was trained (validate_phase1_gate to validate_phase4_start).
THEOREM GatesEarned == GateSpec => []GatesWereEarned
<1>1. GateInv => GatesWereEarned
  BY DEF GateInv, TrainedOnValid, ReportedOnValid, KpisHaveModels, Valid, GatesWereEarned
<1> QED BY <1>1, GateInvariant, PTL

\* The windows of the three splits lie one after another.
LEMMA SplitsInOrder ==
  ASSUME NEW n \in Nat, dataset.data = n, dataset.splits = Splits(n)
  PROVE  SplitsDoNotLeak
<1> DEFINE span   == HistorySteps + ForecastSteps
           first  == TrainCutoff(n)
           second == ValidationCutoff(n)
           steps(split) == UNION {StepsOf(w) : w \in dataset.splits[split]}
<1>1. HistorySteps \in Nat /\ ForecastSteps \in Nat
  BY GateAssumption
<1>2. first \in Nat /\ second \in Nat /\ first <= second
  BY DEF TrainCutoff, ValidationCutoff
<1>3. \A step \in steps("train") : step \in Int /\ step < first
  <2>1. ASSUME NEW w \in dataset.splits["train"], NEW step \in StepsOf(w)
        PROVE  step \in Int /\ step < first
    <3>1. w \in Int /\ w + HistorySteps + ForecastSteps <= first
      BY <1>1 DEF Splits, Windows
    <3> HIDE DEF first
    <3> QED BY <1>1, <1>2, <3>1 DEF StepsOf
  <2> QED BY <2>1
<1>4. \A step \in steps("val") : step \in Int /\ step >= first /\ step < second
  <2>1. ASSUME NEW w \in dataset.splits["val"], NEW step \in StepsOf(w)
        PROVE  step \in Int /\ step >= first /\ step < second
    <3>1. w \in Int /\ w >= first /\ w + HistorySteps + ForecastSteps <= second
      BY <1>1 DEF Splits, Windows
    <3> HIDE DEF first, second
    <3> QED BY <1>1, <1>2, <3>1 DEF StepsOf
  <2> QED BY <2>1
<1>5. \A step \in steps("test") : step \in Int /\ step >= second
  <2>1. ASSUME NEW w \in dataset.splits["test"], NEW step \in StepsOf(w)
        PROVE  step \in Int /\ step >= second
    <3>1. w \in Int /\ w >= second
      BY <1>1 DEF Splits, Windows
    <3> HIDE DEF second
    <3> QED BY <1>1, <1>2, <3>1 DEF StepsOf
  <2> QED BY <2>1
<1>6. /\ \A step \in steps("val") \cup steps("test") : step >= first
      /\ steps("train") \cap steps("val") = {} /\ steps("train") \cap steps("test") = {}
      /\ steps("val") \cap steps("test") = {}
  <2> HIDE DEF steps, first, second
  <2> QED BY <1>2, <1>3, <1>4, <1>5
<1>7. \A s, t \in {"train", "val", "test"} : s # t => steps(s) \cap steps(t) = {}
  <2> HIDE DEF steps
  <2> QED BY <1>6
<1> QED BY <1>3, <1>6, <1>7 DEF SplitsDoNotLeak

\* A dataset of whatever length has no step in windows of two splits, and the scaler
\* has seen no step of the later ones (chronological_split_indices).
THEOREM SplitsSound == GateSpec => []SplitsDoNotLeak
<1>1. GateInv => SplitsDoNotLeak
  <2> SUFFICES ASSUME GateInv PROVE SplitsDoNotLeak
    OBVIOUS
  <2>1. dataset.data \in Nat /\ dataset.splits \in {NoSplits, Splits(dataset.data)}
    BY DEF GateInv, GateTypes, DatasetDirectories
  <2>2. CASE dataset.splits = NoSplits
    <3>1. \A split \in {"train", "val", "test"} : dataset.splits[split] = {}
      BY <2>2 DEF NoSplits
    <3> QED BY <3>1 DEF SplitsDoNotLeak
  <2>3. CASE dataset.splits = Splits(dataset.data)
    BY <2>1, <2>3, SplitsInOrder
  <2> QED BY <2>1, <2>2, <2>3
<1> QED BY <1>1, GateInvariant, PTL

-----------------------------------------------------------------------------
(* DetectorRelease.                                                         *)

Measurements == [map50 : {"high", "middle", "low", "nan"},
                 privacy : {Reviewed, "needs_review"}]

Artifacts == [weights : Nat,
              map50   : {"none", "high", "middle", "low", "nan"},
              privacy : {"none", Reviewed, "needs_review"},
              status  : {"none", "candidate", "official_mvp_primary"}]

\* An artifact says of the weights whose hash it has what they achieved.
ArtifactTrue(a) ==
    a.weights # 0 => /\ a.weights \in 1 .. Len(measured)
                     /\ measured[a.weights].map50 = a.map50
                     /\ measured[a.weights].privacy = a.privacy

\* Both artifacts are true, and one that calls itself official was promoted.
ReleaseInv ==
    /\ measured \in Seq(Measurements)
    /\ run \in [weights : Nat, artifact : Artifacts]
    /\ official \in [weights : Nat, artifact : Artifacts]
    /\ ArtifactTrue(run.artifact) /\ ArtifactTrue(official.artifact)
    /\ official.artifact.status = "official_mvp_primary" =>
          official.artifact.weights \in released

\* One more training does not touch what is known of the earlier weights.
LEMMA ArtifactStaysTrue ==
  ASSUME measured \in Seq(Measurements), NEW m \in Measurements,
         measured' = Append(measured, m), NEW a \in Artifacts, ArtifactTrue(a)
  PROVE  ArtifactTrue(a)'
<1>1. Len(measured') = Len(measured) + 1
      /\ \A i \in 1 .. Len(measured) : measured'[i] = measured[i]
  OBVIOUS
<1>2. Len(measured) \in Nat
  OBVIOUS
<1>3. 1 .. Len(measured) \subseteq 1 .. Len(measured')
  BY <1>1, <1>2
<1> QED BY <1>1, <1>3 DEF ArtifactTrue

LEMMA TrainDetectorInv ==
  ASSUME ReleaseInv, NEW map50 \in {"high", "middle", "low", "nan"},
         NEW privacy \in {Reviewed, "needs_review"}, NEW resumed \in BOOLEAN,
         NEW finished \in BOOLEAN, TrainDetector(map50, privacy, resumed, finished)
  PROVE  ReleaseInv'
<1> DEFINE m == [map50 |-> map50, privacy |-> privacy]
           w == Len(measured')
           new == [weights |-> w, map50 |-> map50, privacy |-> privacy,
                   status |-> "candidate"]
<1>1. m \in Measurements /\ measured \in Seq(Measurements) /\ measured' = Append(measured, m)
  BY DEF Measurements, ReleaseInv, TrainDetector
<1>2. measured' \in Seq(Measurements) /\ w \in Nat /\ w # 0 /\ measured'[w] = m
      /\ w \in 1 .. Len(measured')
  <2>1. Len(measured) \in Nat /\ Len(measured') = Len(measured) + 1
    BY <1>1
  <2> QED BY <1>1, <2>1
<1>3. official' = official /\ released' = released
  BY DEF TrainDetector
<1>4. ArtifactTrue(official.artifact)' /\ official \in [weights : Nat, artifact : Artifacts]
  BY <1>1, <1>3, ArtifactStaysTrue DEF ReleaseInv
<1>5. run' \in [weights : Nat, artifact : Artifacts] /\ ArtifactTrue(run.artifact)'
  <2>1. CASE finished
    <3>1. run' = [weights |-> w, artifact |-> new]
      BY <2>1 DEF TrainDetector
    <3>2. new \in Artifacts
      BY <1>2 DEF Artifacts
    <3> HIDE DEF w
    <3> QED BY <1>1, <1>2, <3>1, <3>2 DEF ArtifactTrue
  <2>2. CASE ~ finished /\ resumed
    <3>1. run' = [weights |-> w, artifact |-> run.artifact]
      BY <2>2 DEF TrainDetector
    <3>2. run.artifact \in Artifacts /\ ArtifactTrue(run.artifact)
      BY DEF ReleaseInv
    <3>3. PICK a \in Artifacts : a = run.artifact
      BY <3>2
    <3>4. ArtifactTrue(a)'
      BY <1>1, <3>2, <3>3, ArtifactStaysTrue
    <3> QED BY <1>2, <3>1, <3>3, <3>4 DEF ArtifactTrue
  <2>3. CASE ~ finished /\ ~ resumed
    <3>1. run' = [weights |-> w, artifact |-> NoArtifact]
      BY <2>3 DEF TrainDetector
    <3> QED BY <1>2, <3>1 DEF NoArtifact, Artifacts, ArtifactTrue
  <2> QED BY <2>1, <2>2, <2>3
<1> QED BY <1>2, <1>3, <1>4, <1>5 DEF ReleaseInv

LEMMA PromoteInv ==
  ASSUME ReleaseInv, NEW lowered \in BOOLEAN, NEW finished \in BOOLEAN,
         Promote(lowered, finished)
  PROVE  ReleaseInv'
<1>1. run' = run /\ measured' = measured
      /\ run.weights \in Nat /\ run.artifact \in Artifacts /\ ArtifactTrue(run.artifact)
      /\ run.artifact.weights = run.weights
      /\ official.weights \in Nat /\ official.artifact \in Artifacts
  BY DEF Promote, Promotable, ReleaseInv
<1>2. CASE finished
  <2> DEFINE a == [run.artifact EXCEPT !.weights = run.weights,
                                       !.status = "official_mvp_primary"]
  <2>1. official' = [weights |-> run.weights, artifact |-> a]
        /\ released' = released \cup {run.weights}
    BY <1>2 DEF Promote
  <2>2. a \in Artifacts /\ a.weights = run.artifact.weights
        /\ a.map50 = run.artifact.map50 /\ a.privacy = run.artifact.privacy
    BY <1>1 DEF Artifacts
  <2> HIDE DEF a
  <2> QED BY <1>1, <2>1, <2>2 DEF ReleaseInv, ArtifactTrue
<1>3. CASE ~ finished
  <2>1. official' = [weights |-> run.weights, artifact |-> official.artifact]
        /\ released' = released
    BY <1>3 DEF Promote
  <2> QED BY <1>1, <2>1 DEF ReleaseInv, ArtifactTrue
<1> QED BY <1>2, <1>3

\* Every reachable state satisfies the invariant.
THEOREM ReleaseInvariant == ReleaseSpec => []ReleaseInv
<1>1. ReleaseInit => ReleaseInv
  <2> SUFFICES ASSUME ReleaseInit PROVE ReleaseInv
    OBVIOUS
  <2>1. NoArtifact \in Artifacts /\ NoArtifact.weights = 0 /\ NoArtifact.status = "none"
    BY DEF NoArtifact, Artifacts
  <2>2. <<>> \in Seq(Measurements)
    OBVIOUS
  <2> QED BY <2>1, <2>2 DEF ReleaseInit, ReleaseInv, ArtifactTrue
<1>2. ReleaseInv /\ [ReleaseNext]_releaseVars => ReleaseInv'
  <2> SUFFICES ASSUME ReleaseInv, [ReleaseNext]_releaseVars PROVE ReleaseInv'
    OBVIOUS
  <2>1. CASE UNCHANGED releaseVars
    BY <2>1 DEF releaseVars, ReleaseInv, ArtifactTrue
  <2> QED BY <2>1, TrainDetectorInv, PromoteInv DEF ReleaseNext
<1> QED BY <1>1, <1>2, PTL DEF ReleaseSpec

\* The camera pipeline (validate_for_mvp) runs a detector only if exactly its
\* weights passed a promotion, were trained on reviewed data and did not measure
\* below the gate, whichever script died between two writes.
THEOREM LoadedOnlyReleased == ReleaseSpec => []LoadedWasReleased
<1>1. ReleaseInv => LoadedWasReleased
  BY DEF ReleaseInv, ArtifactTrue, LoadedWasReleased, Loadable
<1> QED BY <1>1, ReleaseInvariant, PTL

-----------------------------------------------------------------------------
(* HermesRuns.                                                              *)

BridgeStates == {"none", "queued", "running", "human_review"}

Bridges == [state : BridgeStates, allowed : SUBSET Patterns, clean : BOOLEAN,
            files : SUBSET Files]

\* Whatever the packets have become since, those a batch was checked with do not
\* overlap.
HermesInv ==
    /\ packet \in [Tickets -> SUBSET Patterns]
    /\ changed \in [Tickets -> SUBSET Files]
    /\ checked \in [Tickets -> SUBSET Patterns]
    /\ bridge \in [Tickets -> Bridges]
    /\ \A t \in Tickets : bridge[t].state = "human_review" =>
          bridge[t].files \subseteq FilesOf(bridge[t].allowed)
    /\ \A t \in LastBatch : bridge[t].state \in {"running", "human_review"} =>
          bridge[t].clean
    /\ \A t, u \in LastBatch : t # u => ~ ScopesOverlap(checked[t], checked[u])

LEMMA NoRunIsBridge == NoRun \in Bridges /\ NoRun.state = "none"
BY DEF NoRun, Bridges, BridgeStates

\* A step that moves only the bridge of t, to b, and may take t out of the batch.
LEMMA OneBridgeMoves ==
  ASSUME HermesInv, NEW t \in Tickets, NEW b \in Bridges,
         bridge' = [bridge EXCEPT ![t] = b],
         packet' = packet, changed' = changed,
         checked' \in {checked, [checked EXCEPT ![t] = {}]},
         b.state = "human_review" => b.files \subseteq FilesOf(b.allowed),
         t \in LastBatch' /\ b.state # "none" => b.clean
  PROVE  HermesInv'
<1>1. bridge' \in [Tickets -> Bridges] /\ bridge'[t] = b
      /\ \A u \in Tickets \ {t} : bridge'[u] = bridge[u]
  BY DEF HermesInv
<1>2. /\ checked' \in [Tickets -> SUBSET Patterns]
      /\ \A u \in Tickets \ {t} : checked'[u] = checked[u]
      /\ checked' = checked \/ checked'[t] = {}
  BY DEF HermesInv
<1>3. \A u \in LastBatch' : u \in LastBatch /\ checked'[u] = checked[u]
  BY <1>2 DEF LastBatch
<1>4. \A u \in Tickets : bridge'[u].state = "human_review" =>
         bridge'[u].files \subseteq FilesOf(bridge'[u].allowed)
  BY <1>1 DEF HermesInv
<1>5. \A u \in LastBatch' : bridge'[u].state \in {"running", "human_review"} =>
         bridge'[u].clean
  <2> SUFFICES ASSUME NEW u \in LastBatch', bridge'[u].state \in {"running", "human_review"}
               PROVE  bridge'[u].clean
    OBVIOUS
  <2>1. CASE u = t
    BY <1>1, <2>1
  <2>2. CASE u # t
    <3>1. u \in Tickets \ {t} /\ u \in LastBatch
      BY <1>3, <2>2 DEF LastBatch
    <3> QED BY <1>1, <3>1 DEF HermesInv
  <2> QED BY <2>1, <2>2
<1>6. \A u, v \in LastBatch' : u # v => ~ ScopesOverlap(checked'[u], checked'[v])
  BY <1>3 DEF HermesInv
<1>7. packet' \in [Tickets -> SUBSET Patterns] /\ changed' \in [Tickets -> SUBSET Files]
  BY DEF HermesInv
<1> QED BY <1>1, <1>2, <1>4, <1>5, <1>6, <1>7 DEF HermesInv, ScopesOverlap, FilesOf

\* A step that changes packets or workspaces, and nothing of batch and bridges.
LEMMA WorkspaceInv ==
  ASSUME HermesInv, bridge' = bridge, checked' = checked,
         packet' \in [Tickets -> SUBSET Patterns], changed' \in [Tickets -> SUBSET Files]
  PROVE  HermesInv'
<1>1. LastBatch' = LastBatch
  BY DEF LastBatch
<1> QED BY <1>1 DEF HermesInv, ScopesOverlap, FilesOf

LEMMA WritePacketInv ==
  ASSUME HermesInv, NEW t \in Tickets, WritePacket(t) PROVE HermesInv'
<1>1. PICK allowed \in Packets : packet' = [packet EXCEPT ![t] = allowed]
  BY DEF WritePacket
<1>2. packet' \in [Tickets -> SUBSET Patterns]
  BY <1>1, PatternAssumption DEF HermesInv
<1> QED BY <1>2, WorkspaceInv DEF WritePacket, HermesInv

\* The jobs of a batch are checked with packets that do not overlap.
LEMMA ExecuteBatchInv ==
  ASSUME HermesInv, NEW jobs \in SUBSET Tickets, ExecuteBatch(jobs) PROVE HermesInv'
<1> DEFINE q == [NoRun EXCEPT !.state = "queued"]
<1>1. q \in Bridges /\ q.state = "queued"
  BY DEF NoRun, Bridges, BridgeStates
<1>2. /\ packet' = packet /\ changed' = changed
      /\ checked' = [t \in Tickets |-> IF t \in jobs THEN packet[t] ELSE {}]
      /\ bridge' = [t \in Tickets |-> IF t \in jobs THEN q ELSE bridge[t]]
      /\ \A t, u \in jobs : t # u => ~ ScopesOverlap(packet[t], packet[u])
  BY DEF ExecuteBatch
<1> HIDE DEF q
<1>3. bridge' \in [Tickets -> Bridges] /\ checked' \in [Tickets -> SUBSET Patterns]
  BY <1>1, <1>2 DEF HermesInv
<1>4. \A t \in LastBatch' : t \in jobs /\ checked'[t] = packet[t] /\ bridge'[t] = q
  BY <1>2 DEF LastBatch
<1>5. \A t \in Tickets : bridge'[t].state = "human_review" =>
         bridge'[t].files \subseteq FilesOf(bridge'[t].allowed)
  BY <1>1, <1>2 DEF HermesInv
<1>6. \A t, u \in LastBatch' : t # u => ~ ScopesOverlap(checked'[t], checked'[u])
  BY <1>2, <1>4
<1>7. \A t \in LastBatch' : bridge'[t].state \notin {"running", "human_review"}
  BY <1>1, <1>4
<1> QED BY <1>2, <1>3, <1>5, <1>6, <1>7 DEF HermesInv, ScopesOverlap, FilesOf

\* A bridge of a batch starts in a clean workspace, with the packet as it now is.
LEMMA StartBridgeInv ==
  ASSUME HermesInv, NEW t \in Tickets, NEW resumeDirty \in BOOLEAN,
         NEW runnerFound \in BOOLEAN, StartBridge(t, resumeDirty, runnerFound),
         packet' = packet, changed' = changed,
         checked' \in {checked, [checked EXCEPT ![t] = {}]},
         t \in LastBatch' => ~ resumeDirty
  PROVE  HermesInv'
<1> DEFINE b == [state |-> "running", allowed |-> packet[t],
                 clean |-> changed[t] = {}, files |-> {}]
<1>1. CASE Ready(t, resumeDirty) /\ runnerFound
  <2>1. bridge' = [bridge EXCEPT ![t] = b]
    BY <1>1 DEF StartBridge
  <2>2. b \in Bridges /\ b.state = "running"
    BY DEF HermesInv, Bridges, BridgeStates
  <2>3. t \in LastBatch' => b.clean
    BY <1>1 DEF Ready
  <2> HIDE DEF b
  <2> QED BY <2>1, <2>2, <2>3, OneBridgeMoves
<1>2. CASE ~ (Ready(t, resumeDirty) /\ runnerFound)
  <2>1. bridge' = [bridge EXCEPT ![t] = NoRun]
    BY <1>2 DEF StartBridge
  <2> QED BY <2>1, NoRunIsBridge, OneBridgeMoves
<1> QED BY <1>1, <1>2

\* A bridge ends for review when what was changed is within what it read.
LEMMA FinishBridgeInv ==
  ASSUME HermesInv, NEW t \in Tickets, NEW exitCode \in 0 .. 1, NEW complete \in BOOLEAN,
         FinishBridge(t, exitCode, complete)
  PROVE  HermesInv'
<1>0. /\ bridge[t].state = "running" /\ packet' = packet /\ changed' = changed
      /\ checked' = checked /\ bridge[t] \in Bridges /\ changed[t] \in SUBSET Files
  BY DEF FinishBridge, HermesInv
<1>1. CASE t \in there /\ ForReview(exitCode, OutOfScope(t, bridge[t].allowed), complete)
  <2> DEFINE b == [bridge[t] EXCEPT !.state = "human_review", !.files = changed[t]]
  <2>1. bridge' = [bridge EXCEPT ![t] = b]
    BY <1>1 DEF FinishBridge
  <2>2. b \in Bridges
    BY <1>0 DEF Bridges, BridgeStates
  <2>3. b.state = "human_review" /\ b.files = changed[t] /\ b.allowed = bridge[t].allowed
        /\ b.clean = bridge[t].clean
    BY <1>0 DEF Bridges
  <2>4. b.files \subseteq FilesOf(b.allowed)
    BY <1>1, <2>3 DEF ForReview, OutOfScope
  <2>5. t \in LastBatch' => b.clean
    BY <1>0, <2>3 DEF HermesInv, LastBatch
  <2> HIDE DEF b
  <2> QED BY <1>0, <2>1, <2>2, <2>3, <2>4, <2>5, OneBridgeMoves
<1>2. CASE ~ (t \in there /\ ForReview(exitCode, OutOfScope(t, bridge[t].allowed), complete))
  <2>1. bridge' = [bridge EXCEPT ![t] = NoRun]
    BY <1>2 DEF FinishBridge
  <2> QED BY <1>0, <2>1, NoRunIsBridge, OneBridgeMoves
<1> QED BY <1>1, <1>2

LEMMA HermesInvNext == HermesInv /\ [HermesNext]_hermesVars => HermesInv'
<1> SUFFICES ASSUME HermesInv, [HermesNext]_hermesVars PROVE HermesInv'
  OBVIOUS
<1>1. CASE UNCHANGED hermesVars
  BY <1>1, WorkspaceInv DEF hermesVars, HermesInv
<1>2. ASSUME NEW jobs \in SUBSET Tickets, ExecuteBatch(jobs) PROVE HermesInv'
  BY <1>2, ExecuteBatchInv
<1>3. ASSUME NEW old \in SUBSET Tickets, InspectWorkspaces(old) PROVE HermesInv'
  BY <1>3, WorkspaceInv DEF InspectWorkspaces, HermesInv
<1>4. ASSUME NEW t \in Tickets, WritePacket(t) PROVE HermesInv'
  BY <1>4, WritePacketInv
<1>5. ASSUME NEW t \in Tickets, Change(t) PROVE HermesInv'
  <2>1. PICK f \in Files :
          changed' = [changed EXCEPT ![t] = IF f \in @ THEN @ \ {f} ELSE @ \cup {f}]
    BY <1>5 DEF Change
  <2>2. changed' \in [Tickets -> SUBSET Files]
    BY <2>1 DEF HermesInv
  <2> QED BY <1>5, <2>2, WorkspaceInv DEF Change, HermesInv
<1>6. ASSUME NEW t \in Tickets, DeleteWorkspace(t) PROVE HermesInv'
  <2>1. changed' \in [Tickets -> SUBSET Files]
    BY <1>6 DEF DeleteWorkspace, HermesInv
  <2> QED BY <1>6, <2>1, WorkspaceInv DEF DeleteWorkspace, HermesInv
<1>7. ASSUME NEW t \in Tickets, NEW runnerFound \in BOOLEAN, StartJob(t, runnerFound)
      PROVE  HermesInv'
  BY <1>7, StartBridgeInv DEF StartJob
<1>8. ASSUME NEW t \in Tickets, NEW runnerFound \in BOOLEAN, NEW resumeDirty \in BOOLEAN,
             RunBridge(t, resumeDirty, runnerFound)
      PROVE  HermesInv'
  <2>1. checked' = [checked EXCEPT ![t] = {}] /\ t \notin LastBatch'
    BY <1>8 DEF RunBridge, LastBatch, HermesInv
  <2> QED BY <1>8, <2>1, StartBridgeInv DEF RunBridge
<1>9. ASSUME NEW t \in Tickets, NEW exitCode \in 0 .. 1, NEW complete \in BOOLEAN,
             FinishBridge(t, exitCode, complete)
      PROVE  HermesInv'
  BY <1>9, FinishBridgeInv
<1> QED BY <1>1, <1>2, <1>3, <1>4, <1>5, <1>6, <1>7, <1>8, <1>9 DEF HermesNext

\* Every reachable state satisfies the invariant.
THEOREM HermesInvariant == HermesSpec => []HermesInv
<1>1. HermesInit => HermesInv
  BY NoRunIsBridge DEF HermesInit, HermesInv, LastBatch
<1>2. HermesInv /\ [HermesNext]_hermesVars => HermesInv'
  BY HermesInvNext
<1> QED BY <1>1, <1>2, PTL DEF HermesSpec

\* What bridges present for review is within the packets they read, and bridges of
\* one batch, in workspaces that were clean before, present different files, if they
\* read the packets the batch was checked with and these name no class of letters:
\* without one, fnmatch finds no file for two packets in which the comparison of letters
\* found no overlap (hermes_batch_dispatch, hermes_runner_bridge).
THEOREM ReviewedDisjoint == HermesSpec => []ReviewedWorkIsDisjoint
<1>1. HermesInv => ReviewedWorkIsDisjoint
  <2> SUFFICES ASSUME HermesInv PROVE ReviewedWorkIsDisjoint
    OBVIOUS
  <2>1. \A t \in Presented : bridge[t].files \subseteq FilesOf(bridge[t].allowed)
    BY DEF HermesInv, Presented
  <2>2. \A t \in Presented \cap LastBatch : bridge[t].clean
    BY DEF HermesInv, Presented
  <2>3. ASSUME NEW t \in Presented \cap LastBatch, NEW u \in Presented \cap LastBatch,
               t # u, \A v \in {t, u} : bridge[v].allowed = checked[v],
               (checked[t] \cup checked[u]) \cap Bracketed = {},
               NEW f \in bridge[t].files \cap bridge[u].files
        PROVE  FALSE
    <3>1. /\ checked[t] \subseteq Patterns /\ checked[u] \subseteq Patterns
          /\ ~ ScopesOverlap(checked[t], checked[u])
      BY <2>3 DEF HermesInv, LastBatch
    <3>2. PICK p \in checked[t], q \in checked[u] : f \in Matched[p] \cap Matched[q]
      BY <2>1, <2>3 DEF FilesOf
    <3>3. p \notin Wild \cup Bracketed /\ q \notin Wild \cup Bracketed
      BY <2>3, <3>1 DEF ScopesOverlap
    <3>4. <<p, q>> \in Related
      BY <3>1, <3>2, <3>3, PatternAssumption
    <3> QED BY <3>1, <3>4 DEF ScopesOverlap
  <2> QED BY <2>1, <2>2, <2>3 DEF ReviewedWorkIsDisjoint
<1> QED BY <1>1, HermesInvariant, PTL

-----------------------------------------------------------------------------
(* LinearBoard.                                                             *)

SeedLabels == UNION {ItemLabels[s] : s \in Seeds}

Issues == [seed : Seeds, title : Seeds \cup {Edited},
           state : States \cup {ItemState[s] : s \in Seeds}, labels : SUBSET SeedLabels]

Dispatches == [at : {"none", "search", "title", "label"}, left : Seq(Seeds)]

\* An administration holds a value for one field of an issue that exists.
Administrations ==
    [issue : 1 .. Len(issues), field : {"state"}, value : States]
    \cup [issue : 1 .. Len(issues), field : {"labels"}, value : SUBSET SeedLabels]

\* While the dispatch is between its search and the creation, no issue has the
\* seed it works on: only the dispatch creates issues.
LinearInv ==
    /\ issues \in Seq(Issues) /\ teamLabels \subseteq SeedLabels
    /\ dispatch \in Dispatches
    /\ dispatch.at # "none" => dispatch.left # <<>>
    /\ admin = NoAdmin \/ admin \in Administrations
    /\ dispatch.at \in {"title", "label"} =>
          \A i \in 1 .. Len(issues) : issues[i].seed # Head(dispatch.left)
    /\ OneIssuePerSeed

\* The search for a seed returns every issue that contains it: with one issue per
\* seed, a page has room for the seed's own and all that mention it.
LEMMA SearchIsComplete ==
  ASSUME LinearInv, NEW s \in Seeds, NEW page \in Found(Containing(s))
  PROVE  page = Containing(s)
<1> DEFINE C == Containing(s)
           M == {t \in Seeds : s \in Mentions[t]}
           f == [i \in C |-> issues[i].seed]
<1>1. /\ DOMAIN issues = 1 .. Len(issues) /\ issues \in Seq(Issues)
      /\ \A i \in 1 .. Len(issues) : issues[i].seed \in Seeds
  <2>1. issues \in Seq(Issues)
    BY DEF LinearInv
  <2>2. \A r \in Issues : r.seed \in Seeds
    BY DEF Issues
  <2>3. /\ DOMAIN issues = 1 .. Len(issues)
        /\ \A i \in 1 .. Len(issues) : issues[i] \in Issues
    BY <2>1
  <2> QED BY <2>1, <2>2, <2>3
<1>2. C \subseteq 1 .. Len(issues)
  BY <1>1 DEF Containing
<1>3. f \in Injection(C, M \cup {s})
  <2>1. \A i \in C : issues[i].seed \in M \cup {s}
    BY <1>1 DEF Containing
  <2>2. \A i, k \in C : issues[i].seed = issues[k].seed => i = k
    BY <1>1, <1>2 DEF LinearInv, OneIssuePerSeed
  <2> HIDE DEF C, M
  <2> QED BY <2>1, <2>2 DEF Injection, IsInjective
<1>4. IsFiniteSet(M) /\ Cardinality(M) < Page /\ Page \in Nat
  BY PageAssumption, FS_Subset
<1>5. IsFiniteSet(M \cup {s}) /\ Cardinality(M \cup {s}) <= Page
  <2>1. Cardinality(M) \in Nat
    BY <1>4, FS_CardinalityType
  <2>2. /\ IsFiniteSet(M \cup {s})
        /\ Cardinality(M \cup {s}) = IF s \in M THEN Cardinality(M) ELSE Cardinality(M) + 1
    BY <1>4, FS_AddElement
  <2> HIDE DEF M
  <2> QED BY <1>4, <2>1, <2>2
<1>6. IsFiniteSet(C) /\ Cardinality(C) <= Cardinality(M \cup {s})
  <2> HIDE DEF C, M, f
  <2> QED BY <1>3, <1>5, FS_Injection
<1>7. ~ (Cardinality(C) > Page)
  <2>1. Cardinality(C) \in Nat /\ Cardinality(M \cup {s}) \in Nat
    BY <1>5, <1>6, FS_CardinalityType
  <2> HIDE DEF C, M
  <2> QED BY <1>4, <1>5, <1>6, <2>1
<1>8. page \in SUBSET C /\ Cardinality(page) = Cardinality(C)
  <2>1. page \in Found(C)
    OBVIOUS
  <2> HIDE DEF C
  <2> QED BY <1>7, <2>1 DEF Found
<1>9. page = C
  <2> HIDE DEF C
  <2> QED BY <1>6, <1>8, FS_Subset
<1> QED BY <1>9

\* The chosen items, as a sequence.
LEMMA ChosenItems ==
  ASSUME NEW chosen \in SUBSET Seeds, chosen # {}
  PROVE  SetToSeq(chosen) \in Seq(Seeds) /\ SetToSeq(chosen) # <<>>
<1> DEFINE n == Cardinality(chosen)
<1>1. IsFiniteSet(chosen)
  BY PageAssumption, FS_Subset
<1>2. n \in Nat /\ n # 0 /\ ExistsBijection(1 .. n, chosen)
  BY <1>1, FS_CardinalityType, FS_EmptySet
<1> HIDE DEF n
<1>3. \E f \in [1 .. n -> chosen] : IsInjective(f)
  BY <1>2 DEF ExistsBijection, Bijection, Injection
<1>4. SetToSeq(chosen) \in [1 .. n -> chosen]
  BY <1>3 DEF SetToSeq, n
<1>5. SetToSeq(chosen) \in [1 .. n -> Seeds]
  BY <1>4
<1>6. SetToSeq(chosen) \in Seq(Seeds) /\ Len(SetToSeq(chosen)) = n
  BY <1>2, <1>5
<1> QED BY <1>2, <1>6

\* The next item, the end and the death of a dispatch.
LEMMA DispatchMovesOn ==
  ASSUME LinearInv, dispatch.at # "none", NextItem \/ DispatchDies
  PROVE  /\ dispatch' \in Dispatches
         /\ dispatch'.at # "none" => dispatch'.left # <<>>
         /\ dispatch'.at \notin {"title", "label"}
<1>1. dispatch \in Dispatches /\ dispatch.left \in Seq(Seeds) /\ dispatch.left # <<>>
  BY DEF LinearInv, Dispatches
<1>2. CASE dispatch' = NoDispatch
  <2>1. <<>> \in Seq(Seeds)
    OBVIOUS
  <2> QED BY <1>2, <2>1 DEF NoDispatch, Dispatches
<1>3. CASE Len(dispatch.left) # 1
           /\ dispatch' = [dispatch EXCEPT !.at = "search", !.left = Tail(@)]
  <2>1. Tail(dispatch.left) \in Seq(Seeds) /\ Len(Tail(dispatch.left)) # 0
    BY <1>1, <1>3
  <2>0. Len(<<>>) = 0
    OBVIOUS
  <2>2. dispatch' = [at |-> "search", left |-> Tail(dispatch.left)]
    BY <1>1, <1>3 DEF Dispatches
  <2>3. Tail(dispatch.left) # <<>>
    BY <2>0, <2>1, Zenon
  <2>4. dispatch' \in Dispatches
    BY <2>1, <2>2 DEF Dispatches
  <2> QED BY <2>2, <2>3, <2>4
<1> QED BY <1>2, <1>3 DEF NextItem, DispatchDies

\* A step that changes the dispatch alone.
LEMMA DispatchAlone ==
  ASSUME LinearInv, issues' = issues, admin' = admin, teamLabels' \subseteq SeedLabels,
         dispatch' \in Dispatches,
         dispatch'.at # "none" => dispatch'.left # <<>>,
         dispatch'.at \in {"title", "label"} =>
            \A i \in 1 .. Len(issues) : issues[i].seed # Head(dispatch'.left)
  PROVE  LinearInv'
BY DEF LinearInv, Administrations, OneIssuePerSeed

LEMMA StartDispatchInv == LinearInv /\ StartDispatch => LinearInv'
<1> SUFFICES ASSUME LinearInv, StartDispatch PROVE LinearInv'
  OBVIOUS
<1>1. PICK chosen \in (SUBSET Seeds) \ {{}} :
        dispatch' = [at |-> "search", left |-> SetToSeq(chosen)]
  BY DEF StartDispatch
<1>2. SetToSeq(chosen) \in Seq(Seeds) /\ SetToSeq(chosen) # <<>>
  <2>1. chosen \in SUBSET Seeds /\ chosen # {}
    BY <1>1
  <2> QED BY <2>1, ChosenItems
<1>3. dispatch' \in Dispatches /\ dispatch'.at = "search" /\ dispatch'.left # <<>>
  BY <1>1, <1>2 DEF Dispatches
<1> QED BY <1>3, DispatchAlone DEF StartDispatch, LinearInv

\* What the dispatch is about while it runs.
LEMMA CurrentItem ==
  ASSUME LinearInv, dispatch.at # "none"
  PROVE  /\ Head(dispatch.left) \in Seeds /\ dispatch \in Dispatches
         /\ \A point \in {"title", "label"} : MovesTo(point) =>
               /\ dispatch' \in Dispatches /\ dispatch'.at = point
               /\ dispatch'.left = dispatch.left /\ dispatch.left # <<>>
<1>1. dispatch \in Dispatches /\ dispatch.left \in Seq(Seeds) /\ dispatch.left # <<>>
  BY DEF LinearInv, Dispatches
<1> QED BY <1>1 DEF MovesTo, Dispatches

LEMMA SearchSeedInv == LinearInv /\ SearchSeed => LinearInv'
<1> SUFFICES ASSUME LinearInv, SearchSeed PROVE LinearInv'
  OBVIOUS
<1>1. /\ dispatch.at = "search" /\ issues' = issues /\ admin' = admin
      /\ teamLabels' = teamLabels /\ teamLabels \subseteq SeedLabels
  BY DEF SearchSeed, LinearInv
<1> DEFINE s == Head(dispatch.left)
<1>2. CASE NextItem \/ DispatchDies
  BY <1>1, <1>2, DispatchMovesOn, DispatchAlone
<1>3. CASE MovesTo("title") /\ \E page \in Found(Containing(s)) : \A i \in page : ~ IsFor(i, s)
  <2>1. s \in Seeds
    BY <1>1, CurrentItem
  <2>2. \A i \in Containing(s) : ~ IsFor(i, s)
    BY <1>3, <2>1, SearchIsComplete
  <2>3. \A i \in 1 .. Len(issues) : issues[i].seed # s
    <3>1. DOMAIN issues = 1 .. Len(issues)
      BY DEF LinearInv
    <3> QED BY <2>2, <3>1 DEF Containing, IsFor
  <2>4. /\ dispatch' \in Dispatches /\ dispatch'.left = dispatch.left
        /\ dispatch.left # <<>>
    BY <1>1, <1>3, CurrentItem
  <2> QED BY <1>1, <2>3, <2>4, DispatchAlone
<1> QED BY <1>2, <1>3 DEF SearchSeed

LEMMA SearchTitleInv == LinearInv /\ SearchTitle => LinearInv'
<1> SUFFICES ASSUME LinearInv, SearchTitle PROVE LinearInv'
  OBVIOUS
<1>1. /\ dispatch.at = "title" /\ issues' = issues /\ admin' = admin
      /\ teamLabels' = teamLabels /\ teamLabels \subseteq SeedLabels
      /\ \A i \in 1 .. Len(issues) : issues[i].seed # Head(dispatch.left)
  BY DEF SearchTitle, LinearInv
<1>2. CASE NextItem \/ DispatchDies
  BY <1>1, <1>2, DispatchMovesOn, DispatchAlone
<1>3. CASE MovesTo("label")
  <2>1. /\ dispatch' \in Dispatches /\ dispatch'.left = dispatch.left
        /\ dispatch.left # <<>>
    BY <1>1, <1>3, CurrentItem
  <2> QED BY <1>1, <2>1, DispatchAlone
<1> QED BY <1>2, <1>3 DEF SearchTitle

LEMMA EnsureLabelInv == LinearInv /\ EnsureLabel => LinearInv'
<1> SUFFICES ASSUME LinearInv, EnsureLabel PROVE LinearInv'
  OBVIOUS
<1>1. /\ dispatch.at = "label" /\ issues' = issues /\ admin' = admin
      /\ \A i \in 1 .. Len(issues) : issues[i].seed # Head(dispatch.left)
      /\ dispatch.left # <<>> /\ dispatch \in Dispatches
  BY DEF EnsureLabel, LinearInv
<1>2. PICK l \in ItemLabels[Head(dispatch.left)] \ teamLabels :
        \/ /\ teamLabels' = teamLabels \cup {l}
           /\ UNCHANGED dispatch \/ DispatchDies
        \/ DispatchDies /\ UNCHANGED teamLabels
  BY DEF EnsureLabel
<1>3. l \in SeedLabels
  BY <1>1, <1>2, CurrentItem DEF SeedLabels
<1>4. teamLabels' \subseteq SeedLabels
  BY <1>2, <1>3 DEF LinearInv
<1>5. CASE DispatchDies
  BY <1>1, <1>4, <1>5, DispatchMovesOn, DispatchAlone
<1>6. CASE UNCHANGED dispatch
  BY <1>1, <1>4, <1>6, DispatchAlone
<1> QED BY <1>2, <1>5, <1>6

\* The new issue is the first of its seed.
LEMMA CreateIssueInv == LinearInv /\ CreateIssue => LinearInv'
<1> SUFFICES ASSUME LinearInv, CreateIssue PROVE LinearInv'
  OBVIOUS
<1> DEFINE s == Head(dispatch.left)
           n == Len(issues)
<1>1. /\ dispatch.at = "label" /\ admin' = admin /\ teamLabels' = teamLabels
      /\ \A i \in 1 .. n : issues[i].seed # s
      /\ issues \in Seq(Issues) /\ n \in Nat /\ teamLabels \subseteq SeedLabels
      /\ s \in Seeds /\ ItemLabels[s] \subseteq SeedLabels
  BY CurrentItem DEF CreateIssue, LinearInv, SeedLabels
<1>2. NextItem \/ DispatchDies
  BY DEF CreateIssue
<1>3. /\ dispatch' \in Dispatches /\ dispatch'.at \notin {"title", "label"}
      /\ dispatch'.at # "none" => dispatch'.left # <<>>
  BY <1>1, <1>2, DispatchMovesOn
<1>4. CASE issues' = issues
  BY <1>1, <1>3, <1>4, DispatchAlone
<1>5. CASE issues' = Append(issues, NewIssue(s))
  <2>1. NewIssue(s) \in Issues /\ NewIssue(s).seed = s
    BY <1>1 DEF NewIssue, Issues
  <2>2. /\ issues' \in Seq(Issues) /\ Len(issues') = n + 1 /\ issues'[n + 1].seed = s
        /\ \A i \in 1 .. n : issues'[i] = issues[i]
    <3> HIDE DEF s
    <3> QED BY <1>1, <1>5, <2>1
  <2>3. DOMAIN issues' = 1 .. (n + 1) /\ DOMAIN issues = 1 .. n
    BY <1>1, <2>2
  <2>4. \A i \in 1 .. (n + 1) : i \in 1 .. n \/ i = n + 1
    <3> HIDE DEF n
    <3> QED BY <1>1
  <2>5. OneIssuePerSeed'
    <3>1. \A i, k \in 1 .. n : issues[i].seed = issues[k].seed => i = k
      BY <2>3 DEF LinearInv, OneIssuePerSeed
    <3> HIDE DEF s, n
    <3>2. \A i, k \in 1 .. (n + 1) : issues'[i].seed = issues'[k].seed => i = k
      BY <1>1, <2>2, <2>4, <3>1
    <3> QED BY <2>3, <3>2 DEF OneIssuePerSeed
  <2>6. admin' = NoAdmin \/ admin' \in Administrations'
    <3>1. 1 .. n \subseteq 1 .. Len(issues')
      <4> HIDE DEF n
      <4> QED BY <1>1, <2>2
    <3> QED BY <1>1, <3>1 DEF LinearInv, Administrations
  <2> QED BY <1>1, <1>3, <2>2, <2>5, <2>6 DEF LinearInv
<1> QED BY <1>4, <1>5 DEF CreateIssue

\* A change of another field keeps the seeds.
LEMMA FieldInv ==
  ASSUME LinearInv, NEW i \in 1 .. Len(issues), NEW r \in Issues,
         r.seed = issues[i].seed,
         issues' = [issues EXCEPT ![i] = r], dispatch' = dispatch,
         teamLabels' = teamLabels, admin' = NoAdmin \/ admin' = admin
  PROVE  LinearInv'
<1>1. /\ issues' \in Seq(Issues) /\ Len(issues') = Len(issues)
      /\ DOMAIN issues' = DOMAIN issues /\ DOMAIN issues = 1 .. Len(issues)
      /\ \A k \in 1 .. Len(issues) : issues'[k].seed = issues[k].seed
  BY DEF LinearInv
<1>2. OneIssuePerSeed'
  BY <1>1 DEF LinearInv, OneIssuePerSeed
<1>3. admin' = NoAdmin \/ admin' \in Administrations'
  BY <1>1 DEF LinearInv, Administrations
<1> QED BY <1>1, <1>2, <1>3 DEF LinearInv

LEMMA PeopleInv ==
  ASSUME LinearInv, NEW i \in DOMAIN issues,
         \/ EditTitle(i)
         \/ \E state \in States : AdminRead(i, "state", state)
         \/ \E some \in SUBSET teamLabels : AdminRead(i, "labels", some)
  PROVE  LinearInv'
<1>0. i \in 1 .. Len(issues) /\ issues[i] \in Issues
  BY DEF LinearInv
<1>1. CASE EditTitle(i)
  <2> DEFINE r == [issues[i] EXCEPT !.title = Edited]
  <2>1. r \in Issues /\ r.seed = issues[i].seed
    BY <1>0 DEF Issues
  <2>2. issues' = [issues EXCEPT ![i] = r]
    BY <1>1 DEF EditTitle
  <2> HIDE DEF r
  <2> QED BY <1>0, <1>1, <2>1, <2>2, FieldInv DEF EditTitle
<1>2. ASSUME NEW state \in States, AdminRead(i, "state", state) PROVE LinearInv'
  <2>1. admin' \in Administrations
    BY <1>0, <1>2 DEF AdminRead, Administrations
  <2> QED BY <1>2, <2>1 DEF AdminRead, LinearInv, Administrations, OneIssuePerSeed
<1>3. ASSUME NEW some \in SUBSET teamLabels, AdminRead(i, "labels", some) PROVE LinearInv'
  <2>1. admin' \in Administrations
    BY <1>0, <1>3 DEF AdminRead, Administrations, LinearInv
  <2> QED BY <1>3, <2>1 DEF AdminRead, LinearInv, Administrations, OneIssuePerSeed
<1> QED BY <1>1, <1>2, <1>3

LEMMA AdminWriteInv == LinearInv /\ AdminWrite => LinearInv'
<1> SUFFICES ASSUME LinearInv, AdminWrite PROVE LinearInv'
  OBVIOUS
<1>0. admin \in Administrations /\ admin' = NoAdmin /\ dispatch' = dispatch
      /\ teamLabels' = teamLabels
  BY DEF AdminWrite, LinearInv
<1>1. admin.issue \in 1 .. Len(issues) /\ issues[admin.issue] \in Issues
  BY <1>0 DEF LinearInv, Administrations
<1>2. CASE UNCHANGED issues
  BY <1>0, <1>2 DEF LinearInv, OneIssuePerSeed
<1>3. CASE issues' = [issues EXCEPT ![admin.issue][admin.field] = admin.value]
  <2> DEFINE r == [issues[admin.issue] EXCEPT ![admin.field] = admin.value]
  <2>1. issues' = [issues EXCEPT ![admin.issue] = r]
    BY <1>3
  <2>2. r \in Issues /\ r.seed = issues[admin.issue].seed
    <3>1. CASE admin.field = "state" /\ admin.value \in States
      BY <1>1, <3>1 DEF Issues
    <3>2. CASE admin.field = "labels" /\ admin.value \in SUBSET SeedLabels
      BY <1>1, <3>2 DEF Issues
    <3> QED BY <1>0, <3>1, <3>2 DEF Administrations
  <2> HIDE DEF r
  <2> QED BY <1>0, <1>1, <2>1, <2>2, FieldInv
<1> QED BY <1>2, <1>3 DEF AdminWrite

\* Every reachable state satisfies the invariant.
THEOREM LinearInvariant == LinearSpec => []LinearInv
<1>1. LinearInit => LinearInv
  <2> SUFFICES ASSUME LinearInit PROVE LinearInv
    OBVIOUS
  <2>1. <<>> \in Seq(Issues) /\ <<>> \in Seq(Seeds) /\ DOMAIN <<>> = {} /\ Len(<<>>) = 0
    OBVIOUS
  <2>2. dispatch \in Dispatches /\ dispatch.at = "none"
    BY <2>1 DEF LinearInit, NoDispatch, Dispatches
  <2> QED BY <2>1, <2>2 DEF LinearInit, LinearInv, OneIssuePerSeed
<1>2. LinearInv /\ [LinearNext]_linearVars => LinearInv'
  <2> SUFFICES ASSUME LinearInv, [LinearNext]_linearVars PROVE LinearInv'
    OBVIOUS
  <2>1. CASE UNCHANGED linearVars
    BY <2>1 DEF linearVars, LinearInv, Administrations, OneIssuePerSeed
  <2> QED
    BY <2>1, StartDispatchInv, SearchSeedInv, SearchTitleInv, EnsureLabelInv,
       CreateIssueInv, AdminWriteInv, PeopleInv DEF LinearNext
<1> QED BY <1>1, <1>2, PTL DEF LinearSpec

\* However often dispatch_linear_issues is cut short and run again, and whoever
\* renames issues meanwhile, an item has one issue.
THEOREM OneIssueEach == LinearSpec => []OneIssuePerSeed
<1>1. LinearInv => OneIssuePerSeed
  BY DEF LinearInv
<1> QED BY <1>1, LinearInvariant, PTL

-----------------------------------------------------------------------------
(* DetectionScores.                                                         *)

\* What greedy_match has decided on so far: of a candidate it considered, a match it is
\* or shares an end with; the matches of an image overlap no less than what is left.
ScoreInv ==
    /\ matches \subseteq Candidates
    /\ remaining \subseteq Candidates
    /\ \A c \in Candidates \ remaining :
          c \in matches \/ UsedBetter(c[1], c[2])
    /\ \A m \in matches, d \in remaining :
          Image(m) = Image(d) => ~ Below(Overlap(m[1], m[2]), Overlap(d[1], d[2]))

\* A candidate lies within one image, and so do two that share an end.
LEMMA SharedImage ==
  ASSUME NEW c \in Candidates, NEW d \in Candidates, Share(c, d)
  PROVE  Image(c) = Image(d)
<1>1. /\ targets[c[1]].image = predictions[c[2]].image
      /\ targets[d[1]].image = predictions[d[2]].image
  BY DEF Candidates, Overlaps
<1> QED BY <1>1 DEF Share, Image

LEMMA CandidateIsPair ==
  ASSUME NEW c \in Candidates
  PROVE  c = <<c[1], c[2]>> /\ c[1] \in Labels /\ c[2] \in Predictions
BY DEF Candidates

\* The labels and the predictions are given.
LEMMA SameDetections ==
  ASSUME UNCHANGED <<targets, predictions>>
  PROVE  /\ Candidates' = Candidates
         /\ \A c : Image(c)' = Image(c)
         /\ \A t, p : Overlap(t, p)' = Overlap(t, p)
BY DEF Candidates, Labels, Predictions, Overlaps, Overlap, Image

LEMMA ConsiderInv ==
  ASSUME ScoreInv, NEW c \in remaining, Consider(c) PROVE ScoreInv'
<1>1. /\ Candidates' = Candidates
      /\ \A d : Image(d)' = Image(d)
      /\ \A t, p : Overlap(t, p)' = Overlap(t, p)
  BY SameDetections DEF Consider
<1>2. remaining' = remaining \ {c} /\ c \in Candidates
  BY DEF Consider, ScoreInv
<1>3. /\ matches \subseteq matches' /\ matches' \subseteq matches \cup {c}
      /\ c \in matches' \/ \E m \in matches : Share(m, c)
  BY DEF Consider
<1>4. \A m \in matches', d \in remaining' :
          Image(m) = Image(d) => ~ Below(Overlap(m[1], m[2]), Overlap(d[1], d[2]))
  <2> SUFFICES ASSUME NEW m \in matches', NEW d \in remaining', Image(m) = Image(d)
               PROVE  ~ Below(Overlap(m[1], m[2]), Overlap(d[1], d[2]))
    OBVIOUS
  <2>1. CASE m = c
    BY <1>2, <2>1 DEF Consider, Before
  <2>2. CASE m \in matches
    BY <1>2, <2>2 DEF ScoreInv
  <2> QED BY <1>3, <2>1, <2>2
<1>5. ASSUME NEW d \in Candidates \ remaining'
      PROVE  \/ d \in matches'
             \/ \E m \in matches' :
                   /\ Share(m, <<d[1], d[2]>>)
                   /\ ~ Below(Overlap(m[1], m[2]), Overlap(d[1], d[2]))
  <2>1. CASE d = c
    <3>1. CASE c \in matches'
      BY <2>1, <3>1
    <3>2. ASSUME NEW m \in matches, Share(m, c)
          PROVE  /\ Share(m, <<c[1], c[2]>>)
                 /\ ~ Below(Overlap(m[1], m[2]), Overlap(c[1], c[2]))
      <4>1. m \in Candidates /\ Image(m) = Image(c)
        BY <1>2, <3>2, SharedImage DEF ScoreInv
      <4>2. c = <<c[1], c[2]>>
        BY <1>2, CandidateIsPair
      <4> QED BY <3>2, <4>1, <4>2 DEF ScoreInv
    <3> QED BY <1>3, <2>1, <3>1, <3>2
  <2>2. CASE d \notin remaining
    <3>1. d \in matches \/ UsedBetter(d[1], d[2])
      BY <2>2 DEF ScoreInv
    <3> QED BY <1>3, <3>1 DEF UsedBetter
  <2> QED BY <1>2, <2>1, <2>2
<1>6. matches' \subseteq Candidates /\ remaining' \subseteq Candidates
  BY <1>2, <1>3 DEF ScoreInv
<1> QED BY <1>1, <1>4, <1>5, <1>6 DEF ScoreInv, UsedBetter, Share

LEMMA ScoreRestInv ==
  ASSUME ScoreInv, UNCHANGED <<targets, predictions, remaining, matches>>
  PROVE  ScoreInv'
<1>1. /\ Candidates' = Candidates
      /\ \A d : Image(d)' = Image(d)
      /\ \A t, p : Overlap(t, p)' = Overlap(t, p)
  BY SameDetections
<1> QED BY <1>1 DEF ScoreInv, UsedBetter, Share

\* The inductive invariant of the comparison of labels and predictions.
THEOREM ScoreInvariant == ScoreSpec => []ScoreInv
<1>1. ScoreInit => ScoreInv
  BY DEF ScoreInit, ScoreInv
<1>2. ScoreInv /\ [ScoreNext]_scoreVars => ScoreInv'
  <2> SUFFICES ASSUME ScoreInv, [ScoreNext]_scoreVars PROVE ScoreInv'
    OBVIOUS
  <2>1. ASSUME NEW c \in remaining, Consider(c) PROVE ScoreInv'
    BY <2>1, ConsiderInv
  <2>2. ASSUME NEW p \in Predictions, Rank(p) PROVE ScoreInv'
    BY <2>2, ScoreRestInv DEF Rank
  <2>4. ASSUME NEW class \in Classes, Sum(class) PROVE ScoreInv'
    BY <2>4, ScoreRestInv DEF Sum
  <2>3. CASE UNCHANGED scoreVars
    BY <2>3, ScoreRestInv DEF scoreVars
  <2> QED BY <2>1, <2>2, <2>3, <2>4 DEF ScoreNext
<1> QED BY <1>1, <1>2, PTL DEF ScoreSpec

\* Whatever the boxes and the threshold, an error of the analysis is one of the review
\* packs, or the analysis has matched the box or what covers it with a better one.
THEOREM ErrorsExplained == ScoreSpec => []ErrorsAreExplained
<1>1. ScoreInv => ErrorsAreExplained
  <2> SUFFICES ASSUME ScoreInv, remaining = {} PROVE ErrorsAreExplained
    BY DEF ErrorsAreExplained, Analysed
  <2>1. ASSUME NEW t \in Labels, NEW p \in Predictions, <<t, p>> \in matches
        PROVE  Alike(t, p) <=> SameClass(t, p)
    BY <2>1 DEF ScoreInv, Candidates, Overlaps, Alike
  <2>2. ASSUME NEW t \in Labels, NEW p \in Predictions, <<t, p>> \in matches
        PROVE  ~ Below(Overlap(t, p), Threshold)
    BY <2>2 DEF ScoreInv, Candidates, Overlaps
  <2>3. ASSUME NEW t \in Labels, NEW p \in Predictions, Alike(t, p),
               ~ Below(Overlap(t, p), Threshold), <<t, p>> \notin matches
        PROVE  Overlaps(t, p) /\ UsedBetter(t, p)
    <3>1. Overlaps(t, p)
      BY <2>3 DEF Overlaps, Alike
    <3>2. <<t, p>> \in Candidates
      BY <3>1 DEF Candidates
    <3> QED BY <2>3, <3>1, <3>2 DEF ScoreInv
  <2>4. ASSUME NEW t \in Labels
        PROVE  /\ Missed(t) => ~ Recalled(t)
               /\ ~ Missed(t) /\ ~ Recalled(t) =>
                     \E p \in Predictions :
                         Alike(t, p) /\ Overlaps(t, p) /\ UsedBetter(t, p)
    <3>1. Missed(t) => ~ Recalled(t)
      BY <2>1, <2>2 DEF Missed, Recalled
    <3>2. ASSUME ~ Missed(t), ~ Recalled(t)
          PROVE  \E p \in Predictions :
                     Alike(t, p) /\ Overlaps(t, p) /\ UsedBetter(t, p)
      <4>1. PICK p \in Predictions : Alike(t, p) /\ ~ Below(Overlap(t, p), Threshold)
        BY <3>2 DEF Missed
      <4>2. <<t, p>> \notin matches
        BY <3>2, <4>1 DEF Recalled, Alike
      <4> QED BY <2>3, <4>1, <4>2
    <3> QED BY <3>1, <3>2
  <2>5. ASSUME NEW p \in Predictions
        PROVE  /\ Unfounded(p) => ~ Correct(p)
               /\ ~ Unfounded(p) /\ ~ Correct(p) =>
                     \E t \in Labels :
                         Alike(t, p) /\ Overlaps(t, p) /\ UsedBetter(t, p)
    <3>1. Unfounded(p) => ~ Correct(p)
      BY <2>1, <2>2 DEF Unfounded, Correct
    <3>2. ASSUME ~ Unfounded(p), ~ Correct(p)
          PROVE  \E t \in Labels :
                     Alike(t, p) /\ Overlaps(t, p) /\ UsedBetter(t, p)
      <4>1. PICK t \in Labels : Alike(t, p) /\ ~ Below(Overlap(t, p), Threshold)
        BY <3>2 DEF Unfounded
      <4>2. <<t, p>> \notin matches
        BY <3>2, <4>1 DEF Correct, Alike
      <4> QED BY <2>3, <4>1, <4>2
    <3> QED BY <3>1, <3>2
  <2> QED BY <2>4, <2>5 DEF ErrorsAreExplained
<1> QED BY <1>1, ScoreInvariant, PTL

\* The numbers of boxes.
LEMMA MaxOfTwo ==
  ASSUME NEW a \in Int, NEW b \in Int
  PROVE  Max({a, b}) \in Int /\ Min({a, b}) \in Int
<1>1. \E x \in {a, b} : \A y \in {a, b} : x >= y
  OBVIOUS
<1>2. \E x \in {a, b} : \A y \in {a, b} : x =< y
  OBVIOUS
<1>3. Max({a, b}) \in {a, b}
  BY <1>1 DEF Max
<1>4. Min({a, b}) \in {a, b}
  BY <1>2 DEF Min
<1> QED BY <1>3, <1>4

IntegerBox(b) == b.x1 \in Int /\ b.y1 \in Int /\ b.x2 \in Int /\ b.y2 \in Int

LEMMA AreaIsInteger ==
  ASSUME NEW b, IntegerBox(b)
  PROVE  Area(b) \in Int
<1>1. b.x2 - b.x1 \in Int /\ b.y2 - b.y1 \in Int
  BY DEF IntegerBox
<1>2. Max({0, b.x2 - b.x1}) \in Int /\ Max({0, b.y2 - b.y1}) \in Int
  BY <1>1, MaxOfTwo
<1> QED BY <1>2 DEF Area

LEMMA IouIsFraction ==
  ASSUME NEW a, NEW b, IntegerBox(a), IntegerBox(b)
  PROVE  Iou(a, b)[1] \in Int /\ Iou(a, b)[2] \in Int
<1> DEFINE shared == [x1 |-> Max({a.x1, b.x1}), y1 |-> Max({a.y1, b.y1}),
                      x2 |-> Min({a.x2, b.x2}), y2 |-> Min({a.y2, b.y2})]
           common == Area(shared)
           union  == Area(a) + Area(b) - common
<1>1. IntegerBox(shared)
  <2>1. /\ Max({a.x1, b.x1}) \in Int /\ Max({a.y1, b.y1}) \in Int
        /\ Min({a.x2, b.x2}) \in Int /\ Min({a.y2, b.y2}) \in Int
    BY MaxOfTwo DEF IntegerBox
  <2> QED BY <2>1 DEF IntegerBox
<1> HIDE DEF shared
<1>2. common \in Int /\ Area(a) \in Int /\ Area(b) \in Int
  BY <1>1, AreaIsInteger
<1>3. Iou(a, b) = IF union <= 0 THEN <<0, 1>> ELSE <<common, union>>
  BY DEF Iou, shared
<1> HIDE DEF common
<1> QED BY <1>2, <1>3

LEMMA ClippedIsInteger ==
  ASSUME NEW b, IntegerBox(b)
  PROVE  IntegerBox(Clipped(b))
<1>1. /\ Max({0, b.x1}) \in Int /\ Max({0, b.y1}) \in Int
      /\ Min({Side, b.x2}) \in Int /\ Min({Side, b.y2}) \in Int
  <2>1. Side \in Int /\ b.x1 \in Int /\ b.y1 \in Int /\ b.x2 \in Int /\ b.y2 \in Int
    BY BoxAssumption DEF IntegerBox
  <2>2. Max({0, b.x1}) \in Int /\ Max({0, b.y1}) \in Int
    BY <2>1, MaxOfTwo
  <2>3. Min({Side, b.x2}) \in Int /\ Min({Side, b.y2}) \in Int
    BY <2>1, MaxOfTwo
  <2> QED BY <2>2, <2>3
<1> QED BY <1>1 DEF IntegerBox, Clipped

IsRanked(p) ==
    \E k \in 1..Len(ranked[ClassOf(p)]) : ranked[ClassOf(p)][k] = p

\* Of its own class, and each of them once.
RankedOnce(class) ==
    /\ \A k \in 1..Len(ranked[class]) :
          ranked[class][k] \in Predictions /\ ClassOf(ranked[class][k]) = class
    /\ \A i, k \in 1..Len(ranked[class]) : ranked[class][i] = ranked[class][k] => i = k

\* What evaluate_class_ap50 has ranked, and what its predictions took: labels like them,
\* each taken once, by predictions that took one each.
TakenInv ==
    /\ Labels \subseteq 1..MaxLabels /\ Predictions \subseteq Nat
    /\ \A p \in Predictions : ClassOf(p) \in Classes
    /\ \A t \in Labels : targets[t].class \in Classes /\ IntegerBox(targets[t].box)
    /\ \A p \in Predictions : IntegerBox(predictions[p].box)
    /\ \A m \in taken :
          /\ m[1] \in KeptLabels /\ m[2] \in Predictions /\ Alike(m[1], m[2])
          /\ IsRanked(m[2])
    /\ \A m, n \in taken : Share(m, n) => m = n
    /\ ranked \in [Classes -> Seq(Nat)]
    /\ \A class \in Classes : RankedOnce(class)

LEMMA BelowIsStrict ==
  ASSUME NEW f, NEW g, f[1] \in Int, f[2] \in Int, g[1] \in Int, g[2] \in Int,
         Below(f, g)
  PROVE  ~ Below(g, f)
<1> DEFINE left == f[1] * g[2]
           right == g[1] * f[2]
<1>1. left \in Int /\ right \in Int
  OBVIOUS
<1>2. Below(f, g) <=> left < right
  BY DEF Below
<1>3. Below(g, f) <=> right < left
  BY DEF Below
<1> HIDE DEF left, right
<1> QED BY <1>1, <1>2, <1>3

\* The first of the labels that overlap most is one label.
LEMMA BestIsOne ==
  ASSUME TakenInv, NEW p \in Predictions, NEW t \in Best(p), NEW u \in Best(p)
  PROVE  t = u
<1> SUFFICES ASSUME t # u PROVE FALSE
  OBVIOUS
<1>1. t \in Free(p) /\ u \in Free(p)
  BY DEF Best
<1>2. t \in Labels /\ u \in Labels
  BY <1>1 DEF Free, KeptLabels
<1>3. t \in Nat /\ u \in Nat
  <2>1. Labels \subseteq 1..MaxLabels
    BY DEF TakenInv
  <2>2. MaxLabels \in Nat
    BY BoxAssumption
  <2> QED BY <1>2, <2>1, <2>2
<1>4. /\ Overlap(t, p)[1] \in Int /\ Overlap(t, p)[2] \in Int
      /\ Overlap(u, p)[1] \in Int /\ Overlap(u, p)[2] \in Int
  BY <1>2, IouIsFraction DEF TakenInv, Overlap
<1>5. /\ Below(Overlap(t, p), Overlap(u, p)) => ~ Below(Overlap(u, p), Overlap(t, p))
      /\ Below(Overlap(u, p), Overlap(t, p)) => ~ Below(Overlap(t, p), Overlap(u, p))
  BY <1>4, BelowIsStrict
<1>6. \/ Below(Overlap(u, p), Overlap(t, p))
      \/ ~ Below(Overlap(t, p), Overlap(u, p)) /\ t < u
  BY <1>1 DEF Best
<1>7. \/ Below(Overlap(t, p), Overlap(u, p))
      \/ ~ Below(Overlap(u, p), Overlap(t, p)) /\ u < t
  BY <1>1 DEF Best
<1> QED BY <1>3, <1>5, <1>6, <1>7

LEMMA TakenInitInv == ScoreInit => TakenInv
<1> SUFFICES ASSUME ScoreInit PROVE TakenInv
  OBVIOUS
<1>1. PICK s \in Selected(Labelled, MaxLabels) : targets = [i \in DOMAIN s |-> Target(s[i])]
  BY DEF ScoreInit
<1>2. PICK k \in 0..MaxLabels : s \in [1..k -> Labelled]
  BY DEF Selected
<1>3. Labels \subseteq 1..MaxLabels
  BY <1>1, <1>2, BoxAssumption DEF Labels
<1>4. PICK l \in 0..MaxDetected : predictions \in [1..l -> Detected]
  BY DEF ScoreInit, Selected
<1>5. Predictions \subseteq Nat
  BY <1>4, BoxAssumption DEF Predictions
<1>6. ASSUME NEW t \in Labels
      PROVE  targets[t].class \in Classes /\ IntegerBox(targets[t].box)
  <2>1. targets[t] = Target(s[t]) /\ s[t] \in Labelled
    BY <1>1, <1>2 DEF Labels
  <2>2. IntegerBox(s[t].box)
    BY <2>1, BoxAssumption DEF IntegerBox
  <2>3. targets[t].box = Clipped(s[t].box) /\ targets[t].class = s[t].class
    BY <2>1 DEF Target
  <2> QED BY <2>1, <2>2, <2>3, ClippedIsInteger DEF Classes
<1>7. ASSUME NEW p \in Predictions PROVE IntegerBox(predictions[p].box)
  BY <1>4, BoxAssumption DEF Predictions, IntegerBox
<1>8. ASSUME NEW p \in Predictions PROVE ClassOf(p) \in Classes
  BY <1>4 DEF Predictions, ClassOf, Classes
<1>9. ranked = [class \in Classes |-> <<>>] /\ taken = {} /\ <<>> \in Seq(Nat) /\ Len(<<>>) = 0
  BY DEF ScoreInit
<1>10. ASSUME NEW class \in Classes PROVE RankedOnce(class)
  BY <1>9 DEF RankedOnce
<1> QED BY <1>3, <1>5, <1>6, <1>7, <1>8, <1>9, <1>10 DEF TakenInv

LEMMA RankInv ==
  ASSUME TakenInv, NEW p \in Predictions, Rank(p) PROVE TakenInv'
<1> DEFINE best == {u \in Best(p) : Overlaps(u, p)}
           new  == {<<t, p>> : t \in best}
<1> DEFINE own == ClassOf(p)
<1>1. /\ ranked' = [ranked EXCEPT ![own] = Append(@, p)] /\ taken' = taken \cup new
      /\ UNCHANGED <<targets, predictions>>
  BY DEF Rank
<1>2. /\ \A k \in 1..Len(ranked[own]) : ranked[own][k] # p
      /\ p \in Nat /\ own \in Classes /\ ranked \in [Classes -> Seq(Nat)]
  BY DEF Rank, Unranked, TakenInv
<1>3. /\ ranked' \in [Classes -> Seq(Nat)]
      /\ \A class \in Classes \ {own} : ranked'[class] = ranked[class]
      /\ ranked[own] \in Seq(Nat) /\ ranked'[own] = Append(ranked[own], p)
  BY <1>1, <1>2
<1> HIDE DEF own
<1>10. /\ Len(ranked[own]) \in Nat /\ Len(ranked'[own]) = Len(ranked[own]) + 1
       /\ ranked'[own][Len(ranked[own]) + 1] = p
       /\ \A k \in 1..Len(ranked[own]) : ranked'[own][k] = ranked[own][k]
  BY <1>2, <1>3
<1>11. ASSUME NEW q \in Predictions, IsRanked(q) \/ q = p PROVE IsRanked(q)'
  <2>1. \E k \in 1..Len(ranked'[ClassOf(q)]) : ranked'[ClassOf(q)][k] = q
    <3>1. ClassOf(q) \in Classes
      BY DEF TakenInv
    <3>2. CASE ClassOf(q) # own
      BY <1>3, <1>11, <3>1, <3>2 DEF IsRanked, own
    <3>3. CASE q = p
      BY <1>10, <3>3 DEF own
    <3>4. CASE ClassOf(q) = own /\ IsRanked(q)
      <4>1. PICK k \in 1..Len(ranked[own]) : ranked[own][k] = q
        BY <3>4 DEF IsRanked
      <4>2. k \in 1..Len(ranked'[own]) /\ ranked'[own][k] = q
        BY <1>10, <4>1
      <4> QED BY <3>4, <4>2
    <3> QED BY <1>11, <3>2, <3>3, <3>4
  <2>2. ClassOf(q)' = ClassOf(q)
    BY <1>1 DEF ClassOf
  <2> QED BY <2>1, <2>2 DEF IsRanked
<1>12. ASSUME NEW class \in Classes PROVE RankedOnce(class)'
  <2>1. RankedOnce(class) /\ RankedOnce(own)
    BY <1>2 DEF TakenInv
  <2>2. \A q : ClassOf(q)' = ClassOf(q)
    BY <1>1 DEF ClassOf
  <2>3. CASE class # own
    BY <1>1, <1>3, <2>1, <2>2, <2>3 DEF RankedOnce, Predictions
  <2>4. CASE class = own
    <3>1. ASSUME NEW k \in 1..Len(ranked'[own])
          PROVE  ranked'[own][k] \in Predictions /\ ClassOf(ranked'[own][k]) = own
      <4>1. k \in 1..Len(ranked[own]) \/ k = Len(ranked[own]) + 1
        BY <1>10
      <4> QED BY <1>10, <2>1, <4>1 DEF RankedOnce, own
    <3>2. ASSUME NEW i \in 1..Len(ranked'[own]), NEW k \in 1..Len(ranked'[own]),
                 ranked'[own][i] = ranked'[own][k]
          PROVE  i = k
      <4>1. /\ i \in 1..Len(ranked[own]) \/ i = Len(ranked[own]) + 1
            /\ k \in 1..Len(ranked[own]) \/ k = Len(ranked[own]) + 1
        BY <1>10
      <4> QED BY <1>2, <1>10, <2>1, <3>2, <4>1 DEF RankedOnce
    <3>3. Predictions' = Predictions
      BY <1>1 DEF Predictions
    <3> QED BY <2>2, <2>4, <3>1, <3>2, <3>3 DEF RankedOnce
  <2> QED BY <2>3, <2>4
<1>4. ASSUME NEW m \in new
      PROVE  /\ m[1] \in Best(p) /\ m[2] = p /\ m = <<m[1], p>>
             /\ m[1] \in KeptLabels /\ Alike(m[1], p)
             /\ \A n \in taken : n[1] # m[1]
  <2>1. PICK t \in Best(p) : m = <<t, p>>
    OBVIOUS
  <2>2. t \in KeptLabels /\ Alike(t, p) /\ \A n \in taken : n[1] # t
    BY DEF Best, Free
  <2> QED BY <2>1, <2>2
<1> HIDE DEF new
<1>5. ASSUME NEW m \in taken', NEW n \in taken', Share(m, n)
      PROVE  m = n
  <2>1. CASE m \in taken /\ n \in taken
    BY <1>5, <2>1 DEF TakenInv
  <2>2. CASE m \in new /\ n \in new
    <3>1. m[1] = n[1]
      BY <1>4, <2>2, BestIsOne
    <3> QED BY <1>4, <2>2, <3>1
  <2>3. ASSUME NEW a \in new, NEW b \in taken PROVE ~ Share(a, b) /\ ~ Share(b, a)
    <3>1. a[1] # b[1] /\ a[2] = p
      BY <1>4
    <3>2. b[2] # p
      <4>1. IsRanked(b[2])
        BY DEF TakenInv
      <4> QED BY <1>2, <4>1 DEF IsRanked, own
    <3> QED BY <3>1, <3>2 DEF Share
  <2> QED BY <1>1, <1>5, <2>1, <2>2, <2>3
<1>6. ASSUME NEW m \in taken'
      PROVE  /\ m[1] \in KeptLabels /\ m[2] \in Predictions /\ Alike(m[1], m[2])
             /\ IsRanked(m[2])'
  <2>1. CASE m \in taken
    BY <1>11, <2>1 DEF TakenInv
  <2>2. CASE m \in new
    BY <1>4, <1>11, <2>2
  <2> QED BY <1>1, <2>1, <2>2
<1>7. /\ KeptLabels' = KeptLabels /\ Predictions' = Predictions /\ Labels' = Labels
      /\ \A t, q : Alike(t, q)' <=> Alike(t, q)
      /\ \A q : ClassOf(q)' = ClassOf(q)
  BY <1>1 DEF KeptLabels, Labels, Predictions, Alike, SameClass, ClassOf
<1>8. /\ \A t \in Labels : targets'[t].class \in Classes /\ IntegerBox(targets'[t].box)
      /\ \A q \in Predictions : IntegerBox(predictions'[q].box)
  BY <1>1 DEF TakenInv
<1>9. Labels \subseteq 1..MaxLabels /\ Predictions \subseteq Nat
      /\ \A q \in Predictions : ClassOf(q) \in Classes
  BY DEF TakenInv
<1>13. \A m \in taken' :
          /\ m[1] \in KeptLabels' /\ m[2] \in Predictions' /\ Alike(m[1], m[2])'
          /\ IsRanked(m[2])'
  BY <1>6, <1>7
<1> QED BY <1>3, <1>5, <1>7, <1>8, <1>9, <1>12, <1>13 DEF TakenInv

\* evaluate_class_ap50 lets a label be taken once, and a prediction take one label.
THEOREM TakenInvariant == ScoreSpec => []TakenInv
<1>1. TakenInv /\ [ScoreNext]_scoreVars => TakenInv'
  <2> SUFFICES ASSUME TakenInv, [ScoreNext]_scoreVars PROVE TakenInv'
    OBVIOUS
  <2>1. ASSUME UNCHANGED <<targets, predictions, ranked, taken>> PROVE TakenInv'
    <3>1. Labels' = Labels /\ Predictions' = Predictions /\ KeptLabels' = KeptLabels
      BY <2>1 DEF Labels, Predictions, KeptLabels
    <3>2. \A t, p : Alike(t, p)' <=> Alike(t, p)
      BY <2>1 DEF Alike, SameClass
    <3>3. /\ \A p : ClassOf(p)' = ClassOf(p)
          /\ \A p : IsRanked(p)' <=> IsRanked(p)
      BY <2>1 DEF ClassOf, IsRanked
    <3>4. \A class : RankedOnce(class)' <=> RankedOnce(class)
      BY <2>1, <3>1 DEF RankedOnce, ClassOf
    <3> QED BY <2>1, <3>1, <3>2, <3>3, <3>4 DEF TakenInv
  <2>5. ASSUME NEW class \in Classes, Sum(class) PROVE TakenInv'
    BY <2>1, <2>5 DEF Sum
  <2>2. ASSUME NEW c \in remaining, Consider(c) PROVE TakenInv'
    BY <2>1, <2>2 DEF Consider
  <2>3. ASSUME NEW p \in Predictions, Rank(p) PROVE TakenInv'
    BY <2>3, RankInv
  <2>4. CASE UNCHANGED scoreVars
    BY <2>1, <2>4 DEF scoreVars
  <2> QED BY <2>2, <2>3, <2>4, <2>5 DEF ScoreNext
<1> QED BY <1>1, TakenInitInv, PTL DEF ScoreSpec

\* The labels of a class that were taken.
TakenOf(class) == {m \in taken : targets[m[1]].class = class}

\* No class has a recall above 1.
RecallIsBounded ==
    \A class \in {targets[t].class : t \in Labels} :
        Cardinality(TakenOf(class)) <= Cardinality(LabelsOf(class))

\* What the evaluation promises of its recall, for any boxes, classes and thresholds: a
\* class has at most as many hits as it has labels.
THEOREM RecallBounded == ScoreSpec => []RecallIsBounded
<1>1. TakenInv => RecallIsBounded
  <2> SUFFICES ASSUME TakenInv, NEW class
               PROVE  Cardinality(TakenOf(class)) <= Cardinality(LabelsOf(class))
    BY DEF RecallIsBounded
  <2>1. IsFiniteSet(LabelsOf(class))
    <3>1. IsFiniteSet(1..MaxLabels)
      BY FS_Interval, BoxAssumption
    <3>2. LabelsOf(class) \subseteq 1..MaxLabels
      BY DEF LabelsOf, KeptLabels, TakenInv
    <3> QED BY <3>1, <3>2, FS_Subset
  <2> DEFINE label == [m \in TakenOf(class) |-> m[1]]
  <2>2. label \in [TakenOf(class) -> LabelsOf(class)]
    BY DEF TakenOf, LabelsOf, TakenInv
  <2>3. \A m, n \in TakenOf(class) : label[m] = label[n] => m = n
    BY DEF TakenOf, TakenInv, Share
  <2> HIDE DEF label
  <2>4. label \in Injection(TakenOf(class), LabelsOf(class))
    BY <2>2, <2>3 DEF Injection, IsInjective
  <2> QED BY <2>1, <2>4, FS_Injection
<1> QED BY <1>1, TakenInvariant, PTL

\* How many of the first k predictions of a class are hits.
HitsOf(class, k) == Cardinality(Hits(class, k))

\* The greatest precision e of the predictions after the first rest is 1 if all up to one
\* of them are hits; their area a is the most there can be, 1 for each hit among them, if
\* there is none or all predictions up to the last hit are hits.
Fits(class, rest, last, e, a) ==
    /\ e <= Scale
    /\ e = Scale <=> \E i \in rest + 1..last : HitsOf(class, i) = i
    /\ a <= (HitsOf(class, last) - HitsOf(class, rest)) * Scale
    /\ a = (HitsOf(class, last) - HitsOf(class, rest)) * Scale <=>
          \/ HitsOf(class, last) = HitsOf(class, rest)
          \/ \E i \in rest + 1..last :
                HitsOf(class, i) = i /\ HitsOf(class, i) = HitsOf(class, last)

AreaFits(class, rest, last) == Fits(class, rest, last, highest[class], area[class])

\* What average_precision has summed of each class, which is nothing before the last
\* prediction is ranked.
AreaInv ==
    /\ {summed, highest, area} \subseteq [Classes -> Nat]
    /\ \A class \in Classes :
          /\ summed[class] <= Len(ranked[class])
          /\ summed[class] = 0 => highest[class] = 0 /\ area[class] = 0
          /\ ~ Evaluated => summed[class] = 0
          /\ AreaFits(class, Unsummed(class), Len(ranked[class]))

\* Of the first k predictions at most k are hits, and k only if each of them is one.
LEMMA HitsBounded ==
  ASSUME NEW class, NEW k \in Nat
  PROVE  /\ IsFiniteSet(Hits(class, k)) /\ HitsOf(class, k) \in Nat /\ HitsOf(class, k) <= k
         /\ HitsOf(class, k) = k <=> \A i \in 1..k : IsHit(ranked[class][i])
<1>1. IsFiniteSet(1..k) /\ Cardinality(1..k) = k
  BY FS_Interval
<1>2. Hits(class, k) \subseteq 1..k
  BY DEF Hits
<1>3. /\ IsFiniteSet(Hits(class, k)) /\ Cardinality(Hits(class, k)) <= k
      /\ Cardinality(Hits(class, k)) = k => Hits(class, k) = 1..k
  BY <1>1, <1>2, FS_Subset
<1>4. Cardinality(Hits(class, k)) \in Nat
  BY <1>3, FS_CardinalityType
<1>5. Hits(class, k) = 1..k <=> \A i \in 1..k : IsHit(ranked[class][i])
  BY DEF Hits
<1> QED BY <1>1, <1>3, <1>4, <1>5 DEF HitsOf

\* A prediction adds at most one hit.
LEMMA OneHitMore ==
  ASSUME NEW class, NEW k \in Nat \ {0}
  PROVE  HitsOf(class, k) =
             HitsOf(class, k - 1) + IF IsHit(ranked[class][k]) THEN 1 ELSE 0
<1>1. k - 1 \in Nat
  OBVIOUS
<1>2. IsFiniteSet(Hits(class, k - 1)) /\ Cardinality(Hits(class, k - 1)) \in Nat
  BY <1>1, HitsBounded DEF HitsOf
<1>3. k \notin Hits(class, k - 1)
  BY DEF Hits
<1>4. CASE IsHit(ranked[class][k])
  <2>1. Hits(class, k) = Hits(class, k - 1) \cup {k}
    BY <1>4 DEF Hits
  <2> QED BY <1>2, <1>3, <1>4, <2>1, FS_AddElement DEF HitsOf
<1>5. CASE ~ IsHit(ranked[class][k])
  <2>1. Hits(class, k) = Hits(class, k - 1)
    <3>1. ASSUME NEW i \in Hits(class, k) PROVE i \in Hits(class, k - 1)
      <4>1. i \in 1..k /\ IsHit(ranked[class][i])
        BY <3>1 DEF Hits
      <4>2. i # k
        BY <1>5, <4>1
      <4> QED BY <4>1, <4>2 DEF Hits
    <3>2. ASSUME NEW i \in Hits(class, k - 1) PROVE i \in Hits(class, k)
      BY <3>2 DEF Hits
    <3> QED BY <3>1, <3>2
  <2> QED BY <1>2, <1>5, <2>1 DEF HitsOf
<1> QED BY <1>4, <1>5

LEMMA HitsGrow ==
  ASSUME NEW class, NEW i \in Nat, NEW k \in Nat, i <= k
  PROVE  HitsOf(class, i) <= HitsOf(class, k)
<1>1. Hits(class, i) \subseteq Hits(class, k)
  BY DEF Hits
<1>2. IsFiniteSet(Hits(class, k))
  BY HitsBounded
<1> QED BY <1>1, <1>2, FS_Subset DEF HitsOf

\* Numbers.
LEMMA Quotient ==
  ASSUME NEW a \in Nat, NEW k \in Nat \ {0}
  PROVE  a \div k \in Nat /\ (a \div k) * k <= a /\ a < (a \div k) * k + k
OBVIOUS

LEMMA Cancelled ==
  ASSUME NEW a \in Nat, NEW b \in Nat, NEW c \in Nat \ {0}
  PROVE  a * c <= b * c <=> a <= b
OBVIOUS

\* A precision is at most 1, and 1 only of predictions that are all hits.
LEMMA PrecisionBounded ==
  ASSUME NEW class, NEW k \in Nat \ {0}
  PROVE  /\ Precision(class, k) \in Nat /\ Precision(class, k) <= Scale
         /\ Precision(class, k) = Scale <=> HitsOf(class, k) = k
<1> DEFINE h == HitsOf(class, k)
           q == (h * Scale) \div k
<1>1. Scale \in Nat \ {0}
  BY ScaleAssumption
<1>2. h \in Nat /\ h <= k
  BY HitsBounded
<1>3. Precision(class, k) = q
  BY DEF Precision, HitsOf
<1> HIDE DEF h
<1>4. h * Scale \in Nat
  BY <1>1, <1>2
<1>5. q \in Nat /\ q * k <= h * Scale /\ h * Scale < q * k + k
  BY <1>4, Quotient
<1> HIDE DEF q
<1>6. h * Scale <= k * Scale
  BY <1>1, <1>2, Cancelled
<1>7. q <= Scale
  <2>1. q * k <= Scale * k
    BY <1>1, <1>2, <1>4, <1>5, <1>6
  <2> QED BY <1>1, <1>5, <2>1, Cancelled
<1>8. ASSUME q = Scale PROVE h = k
  <2>1. k * Scale <= h * Scale
    BY <1>1, <1>2, <1>5, <1>8
  <2>2. k <= h
    BY <1>1, <1>2, <2>1, Cancelled
  <2> QED BY <1>2, <2>2
<1>9. ASSUME h = k PROVE q = Scale
  <2>1. Scale * k < (q + 1) * k
    BY <1>1, <1>2, <1>5, <1>9
  <2>2. ~ (q + 1 <= Scale)
    BY <1>1, <1>5, <2>1, Cancelled
  <2> QED BY <1>1, <1>5, <1>7, <2>2
<1> QED BY <1>3, <1>5, <1>7, <1>8, <1>9 DEF h

\* One more prediction is summed.
LEMMA SumFits ==
  ASSUME NEW class, NEW rest \in Nat \ {0}, NEW last \in Nat, rest <= last,
         NEW x \in Nat, NEW y \in Nat, Fits(class, rest, last, x, y)
  PROVE  LET e == Max({x, Precision(class, rest)}) IN
         /\ e \in Nat
         /\ Fits(class, rest - 1, last, e, y + IF IsHit(ranked[class][rest]) THEN e ELSE 0)
<1> DEFINE e == Max({x, Precision(class, rest)})
           a == y + IF IsHit(ranked[class][rest]) THEN e ELSE 0
<1> DEFINE h(k) == HitsOf(class, k)
           p == Precision(class, rest)
           full(m) == \E i \in m..last : h(i) = i
           earned(m) == h(last) = h(m - 1) \/ \E i \in m..last : h(i) = i /\ h(i) = h(last)
<1>1. /\ Scale \in Nat \ {0} /\ p \in Nat /\ p <= Scale
      /\ p = Scale <=> h(rest) = rest
  BY ScaleAssumption, PrecisionBounded
<1>2. \A k \in Nat : h(k) \in Nat /\ h(k) <= k
  BY HitsBounded
<1>3. \A i, k \in Nat : i <= k => h(i) <= h(k)
  BY HitsGrow
<1>4. h(rest) = h(rest - 1) + IF IsHit(ranked[class][rest]) THEN 1 ELSE 0
  BY OneHitMore
<1>5. /\ x <= Scale /\ (x = Scale <=> full(rest + 1))
      /\ y <= (h(last) - h(rest)) * Scale
      /\ y = (h(last) - h(rest)) * Scale <=> earned(rest + 1)
  BY DEF Fits
<1> HIDE DEF h
<1>6. e \in {x, p} /\ e >= x /\ e >= p
  <2>1. \E m \in {x, p} : \A n \in {x, p} : m >= n
    BY <1>1
  <2> QED BY <2>1 DEF Max
<1> HIDE DEF p, e, a
<1>7. full(rest) <=> full(rest + 1) \/ h(rest) = rest
  OBVIOUS
<1>8. e \in Nat /\ e <= Scale /\ (e = Scale <=> full(rest))
  BY <1>1, <1>5, <1>6, <1>7
<1>9. /\ h(last) \in Nat /\ h(rest) \in Nat /\ h(rest - 1) \in Nat
      /\ h(rest) <= h(last) /\ h(rest - 1) <= rest - 1
  BY <1>2, <1>3
<1>10. a <= (h(last) - h(rest - 1)) * Scale
       /\ (a = (h(last) - h(rest - 1)) * Scale <=> earned(rest))
  <2>1. CASE ~ IsHit(ranked[class][rest])
    <3>1. h(rest) = h(rest - 1) /\ a = y /\ h(rest) # rest
      BY <1>4, <1>9, <2>1 DEF a
    <3>2. earned(rest) <=> earned(rest + 1)
      <4>1. rest + 1 - 1 = rest
        OBVIOUS
      <4>2. \A i \in rest..last : h(i) = i => i \in rest + 1..last
        BY <3>1
      <4> QED BY <3>1, <4>1, <4>2
    <3> QED BY <1>5, <3>1, <3>2
  <2>2. CASE IsHit(ranked[class][rest])
    <3>1. h(rest) = h(rest - 1) + 1 /\ a = y + e
      BY <1>4, <2>2 DEF a
    <3> DEFINE d == h(last) - h(rest)
    <3>2. d \in Nat /\ h(last) - h(rest - 1) = d + 1
      BY <1>9, <3>1
    <3>3. (d + 1) * Scale = d * Scale + Scale /\ d * Scale \in Nat
      BY <1>1, <3>2
    <3>4. /\ a <= (d + 1) * Scale
          /\ a = (d + 1) * Scale <=> y = d * Scale /\ e = Scale
      BY <1>1, <1>5, <1>8, <3>1, <3>3
    <3>5. earned(rest) <=> earned(rest + 1) /\ full(rest)
      <4>1. h(last) # h(rest - 1)
        BY <1>9, <3>1
      <4>2. ASSUME earned(rest) PROVE earned(rest + 1) /\ full(rest)
        <5>1. PICK i \in rest..last : h(i) = i /\ h(i) = h(last)
          BY <4>1, <4>2
        <5>2. i = rest => h(last) = h(rest)
          BY <5>1
        <5>3. i # rest => i \in rest + 1..last
          OBVIOUS
        <5>4. rest + 1 - 1 = rest
          OBVIOUS
        <5> QED BY <5>1, <5>2, <5>3, <5>4
      <4>3. ASSUME earned(rest + 1), full(rest) PROVE earned(rest)
        <5>1. CASE \E i \in rest + 1..last : h(i) = i /\ h(i) = h(last)
          BY <5>1
        <5>2. CASE h(last) = h(rest)
          <6>1. PICK i \in rest..last : h(i) = i
            BY <4>3
          <6>2. h(rest) <= h(i) /\ h(i) <= h(last) /\ h(i) \in Nat
            BY <1>2, <1>3
          <6> QED BY <1>9, <5>2, <6>1, <6>2
        <5>3. rest + 1 - 1 = rest
          OBVIOUS
        <5> QED BY <4>3, <5>1, <5>2, <5>3
      <4> QED BY <4>2, <4>3
    <3> QED BY <1>5, <1>8, <3>2, <3>4, <3>5
  <2> QED BY <2>1, <2>2
<1>11. rest - 1 + 1 = rest
  OBVIOUS
<1> QED BY <1>8, <1>10, <1>11 DEF Fits, h, a, e

\* What is hit so far is as it was.
LEMMA SameHits ==
  ASSUME UNCHANGED <<ranked, taken>>
  PROVE  \A class, k : HitsOf(class, k)' = HitsOf(class, k)
<1>1. ASSUME NEW class, NEW k PROVE HitsOf(class, k)' = HitsOf(class, k)
  <2>1. Hits(class, k)' = Hits(class, k)
    BY DEF Hits, IsHit
  <2> QED BY <2>1 DEF HitsOf
<1> QED BY <1>1

\* Nothing is summed before all is ranked.
LEMMA FitsAtFirst ==
  ASSUME NEW class, NEW last \in Nat, highest[class] = 0, area[class] = 0
  PROVE  AreaFits(class, last, last)
<1>1. Scale \in Nat \ {0} /\ HitsOf(class, last) \in Nat
  BY ScaleAssumption, HitsBounded
<1>2. last + 1..last = {}
  OBVIOUS
<1>3. (HitsOf(class, last) - HitsOf(class, last)) * Scale = 0
  BY <1>1
<1> QED BY <1>1, <1>2, <1>3 DEF AreaFits, Fits

LEMMA SumInv ==
  ASSUME TakenInv, AreaInv, NEW class \in Classes, Sum(class)
  PROVE  AreaInv'
<1> DEFINE rest == Unsummed(class)
           last == Len(ranked[class])
           e == Max({highest[class], Precision(class, rest)})
           a == area[class] + IF IsHit(ranked[class][rest]) THEN e ELSE 0
<1>1. /\ Evaluated /\ rest > 0
      /\ highest' = [highest EXCEPT ![class] = e]
      /\ area' = IF IsHit(ranked[class][rest])
                 THEN [area EXCEPT ![class] = @ + highest'[class]] ELSE area
      /\ summed' = [summed EXCEPT ![class] = @ + 1]
      /\ UNCHANGED <<targets, predictions, remaining, matches, ranked, taken>>
  BY DEF Sum
<1>2. /\ summed \in [Classes -> Nat] /\ highest \in [Classes -> Nat]
      /\ area \in [Classes -> Nat] /\ ranked \in [Classes -> Seq(Nat)]
      /\ \A c \in Classes : summed[c] <= Len(ranked[c])
      /\ AreaFits(class, rest, last)
  BY DEF AreaInv, TakenInv
<1>3. last \in Nat /\ rest \in Nat \ {0} /\ rest <= last /\ summed[class] < last
      /\ rest = last - summed[class]
  <2>1. last \in Nat /\ summed[class] \in Nat
    BY <1>2
  <2> QED BY <1>1, <1>2, <2>1 DEF Unsummed
<1>4. Precision(class, rest) \in Nat
  BY <1>3, PrecisionBounded
<1> HIDE DEF rest, last
<1>5. e \in Nat
  <2>1. highest[class] \in Nat
    BY <1>2
  <2>2. \E x \in {highest[class], Precision(class, rest)} :
           \A y \in {highest[class], Precision(class, rest)} : x >= y
    BY <1>4, <2>1
  <2> QED BY <1>4, <2>1, <2>2 DEF Max
<1> HIDE DEF e
<1>6. /\ highest'[class] = e /\ highest' \in [Classes -> Nat]
      /\ \A c \in Classes \ {class} : highest'[c] = highest[c]
  BY <1>1, <1>2, <1>5
<1>7. a \in Nat
  BY <1>2, <1>5
<1>8. area'[class] = a /\ area' \in [Classes -> Nat]
      /\ \A c \in Classes \ {class} : area'[c] = area[c]
  BY <1>1, <1>2, <1>5, <1>6
<1>9. /\ summed' \in [Classes -> Nat] /\ summed'[class] = summed[class] + 1
      /\ \A c \in Classes \ {class} : summed'[c] = summed[c]
  BY <1>1, <1>2
<1>10. Evaluated'
  BY <1>1 DEF Evaluated, Analysed, Unranked, KeptPredictions, Predictions, ClassOf
<1>11. ASSUME NEW c \in Classes \ {class}
       PROVE  /\ summed'[c] <= Len(ranked'[c])
              /\ summed'[c] = 0 => highest'[c] = 0 /\ area'[c] = 0
              /\ AreaFits(c, Unsummed(c), Len(ranked[c]))'
  <2>1. /\ summed[c] <= Len(ranked[c]) /\ AreaFits(c, Unsummed(c), Len(ranked[c]))
        /\ summed[c] = 0 => highest[c] = 0 /\ area[c] = 0
    BY DEF AreaInv
  <2>2. Unsummed(c)' = Unsummed(c) /\ ranked' = ranked
    BY <1>1, <1>9 DEF Unsummed
  <2>3. AreaFits(c, Unsummed(c), Len(ranked[c]))'
    BY <1>1, <1>6, <1>8, <2>1, <2>2, SameHits DEF AreaFits, Fits
  <2> QED BY <1>1, <1>6, <1>8, <1>9, <2>1, <2>3
<1>12. AreaFits(class, Unsummed(class), Len(ranked[class]))'
  <2>1. Fits(class, rest - 1, last, e, a)
    <3>1. highest[class] \in Nat /\ area[class] \in Nat
      BY <1>2
    <3>2. Fits(class, rest, last, highest[class], area[class])
      BY <1>2 DEF AreaFits
    <3> QED BY <1>3, <3>1, <3>2, SumFits DEF e
  <2>2. Unsummed(class)' = rest - 1 /\ Len(ranked[class])' = last
    <3>1. Unsummed(class)' = Len(ranked'[class]) - summed'[class]
      BY DEF Unsummed
    <3>2. Len(ranked'[class]) = last
      BY <1>1 DEF last
    <3>3. summed[class] \in Nat
      BY <1>2
    <3> QED BY <1>3, <1>9, <3>1, <3>2, <3>3
  <2> HIDE DEF a
  <2> QED BY <1>1, <1>6, <1>8, <2>1, <2>2, SameHits DEF AreaFits, Fits
<1>13. summed'[class] <= Len(ranked'[class]) /\ summed'[class] # 0
  <2>1. summed[class] \in Nat /\ ranked'[class] = ranked[class]
    BY <1>1, <1>2
  <2> QED BY <1>3, <1>9, <2>1 DEF last
<1> QED BY <1>6, <1>8, <1>9, <1>10, <1>11, <1>12, <1>13 DEF AreaInv

\* A prediction is ranked before anything is summed.
LEMMA RankKeepsArea ==
  ASSUME AreaInv, TakenInv', NEW p \in Predictions, Rank(p)
  PROVE  AreaInv'
<1>1. UNCHANGED <<summed, highest, area>> /\ ~ Evaluated
  BY DEF Rank, apVars, Evaluated
<1>2. \A class \in Classes : summed[class] = 0 /\ highest[class] = 0 /\ area[class] = 0
  BY <1>1 DEF AreaInv
<1>3. ASSUME NEW class \in Classes
      PROVE  /\ Len(ranked'[class]) \in Nat
             /\ AreaFits(class, Unsummed(class), Len(ranked[class]))'
  <2>1. Len(ranked'[class]) \in Nat
    BY DEF TakenInv
  <2>2. Unsummed(class)' = Len(ranked'[class])
    BY <1>1, <1>2, <2>1 DEF Unsummed
  <2>3. Len(ranked[class])' \in Nat /\ highest[class]' = 0 /\ area[class]' = 0
    BY <1>1, <1>2, <2>1
  <2>4. HitsOf(class, Len(ranked[class]))' \in Nat
    <3>1. Hits(class, Len(ranked[class]))' \subseteq 1..Len(ranked'[class])
      BY DEF Hits
    <3>2. IsFiniteSet(1..Len(ranked'[class]))
      BY <2>1, FS_Interval
    <3>3. Cardinality(Hits(class, Len(ranked[class]))') \in Nat
      BY <3>1, <3>2, FS_Subset, FS_CardinalityType
    <3> QED BY <3>3 DEF HitsOf
  <2>5. AreaFits(class, Len(ranked[class]), Len(ranked[class]))'
    <3>1. Scale \in Nat \ {0}
      BY ScaleAssumption
    <3>2. (HitsOf(class, Len(ranked[class]))' - HitsOf(class, Len(ranked[class]))') * Scale = 0
      BY <2>4, <3>1
    <3>3. Len(ranked'[class]) + 1..Len(ranked'[class]) = {}
      BY <2>1
    <3> QED BY <2>3, <3>1, <3>2, <3>3 DEF AreaFits, Fits
  <2> QED BY <2>1, <2>2, <2>5
<1> QED BY <1>1, <1>2, <1>3 DEF AreaInv

LEMMA AreaStutters ==
  ASSUME AreaInv, UNCHANGED <<ranked, taken, summed, highest, area>>,
         Evaluated => Evaluated'
  PROVE  AreaInv'
<1>1. ASSUME NEW class \in Classes
      PROVE  AreaFits(class, Unsummed(class), Len(ranked[class]))'
  <2>1. AreaFits(class, Unsummed(class), Len(ranked[class]))
    BY DEF AreaInv
  <2>2. Unsummed(class)' = Unsummed(class)
    BY DEF Unsummed
  <2> QED BY <2>1, <2>2, SameHits DEF AreaFits, Fits
<1> QED BY <1>1 DEF AreaInv

\* The inductive invariant of the average precision.
THEOREM AreaInvariant == ScoreSpec => []AreaInv
<1>1. ScoreInit => AreaInv
  <2> SUFFICES ASSUME ScoreInit PROVE AreaInv
    OBVIOUS
  <2>1. /\ summed = [class \in Classes |-> 0] /\ highest = summed /\ area = summed
        /\ ranked = [class \in Classes |-> <<>>] /\ Len(<<>>) = 0
    BY DEF ScoreInit
  <2>2. ASSUME NEW class \in Classes
        PROVE  /\ summed[class] = 0 /\ highest[class] = 0 /\ area[class] = 0
               /\ Len(ranked[class]) = 0
    BY <2>1
  <2>3. ASSUME NEW class \in Classes
        PROVE  AreaFits(class, Unsummed(class), Len(ranked[class]))
    <3>1. Unsummed(class) = 0
      BY <2>2 DEF Unsummed
    <3> QED BY <2>2, <3>1, FitsAtFirst
  <2> QED BY <2>1, <2>2, <2>3 DEF AreaInv
<1>2. TakenInv /\ TakenInv' /\ AreaInv /\ [ScoreNext]_scoreVars => AreaInv'
  <2> SUFFICES ASSUME TakenInv, TakenInv', AreaInv, [ScoreNext]_scoreVars PROVE AreaInv'
    OBVIOUS
  <2>1. ASSUME NEW c \in remaining, Consider(c) PROVE AreaInv'
    <3>1. ~ Evaluated /\ UNCHANGED <<ranked, taken, summed, highest, area>>
      BY <2>1 DEF Consider, Evaluated, Analysed, apVars
    <3> QED BY <3>1, AreaStutters
  <2>2. ASSUME NEW p \in Predictions, Rank(p) PROVE AreaInv'
    BY <2>2, RankKeepsArea
  <2>3. ASSUME NEW class \in Classes, Sum(class) PROVE AreaInv'
    BY <2>3, SumInv
  <2>4. CASE UNCHANGED scoreVars
    <3>1. UNCHANGED <<ranked, taken, summed, highest, area>>
      BY <2>4 DEF scoreVars, apVars
    <3>2. Evaluated' <=> Evaluated
      BY <2>4 DEF scoreVars, Evaluated, Analysed, Unranked, KeptPredictions, Predictions,
                  ClassOf
    <3> QED BY <3>1, <3>2, AreaStutters
  <2> QED BY <2>1, <2>2, <2>3, <2>4 DEF ScoreNext
<1> QED BY <1>1, <1>2, TakenInvariant, PTL DEF ScoreSpec

\* The labels of a class are finitely many, and each hit of it takes one of its own: there
\* are no more hits than labels, and as many only if all labels are taken.
LEMMA HitsTakeLabels ==
  ASSUME TakenInv, NEW class \in Classes
  PROVE  /\ IsFiniteSet(LabelsOf(class))
         /\ HitsOf(class, Len(ranked[class])) <= Cardinality(LabelsOf(class))
         /\ HitsOf(class, Len(ranked[class])) = Cardinality(LabelsOf(class)) <=>
               \A t \in LabelsOf(class) : \E m \in taken : m[1] = t
<1> DEFINE last == Len(ranked[class])
           own == Hits(class, last)
           match(k) == CHOOSE m \in taken : m[2] = ranked[class][k]
           label == [k \in own |-> match(k)[1]]
<1>1. IsFiniteSet(LabelsOf(class))
  <2>1. IsFiniteSet(1..MaxLabels)
    BY FS_Interval, BoxAssumption
  <2>2. LabelsOf(class) \subseteq 1..MaxLabels
    BY DEF LabelsOf, KeptLabels, TakenInv
  <2> QED BY <2>1, <2>2, FS_Subset
<1>2. /\ \A k \in 1..last : ranked[class][k] \in Predictions /\ ClassOf(ranked[class][k]) = class
      /\ \A i, k \in 1..last : ranked[class][i] = ranked[class][k] => i = k
  BY DEF TakenInv, RankedOnce
<1>3. ASSUME NEW k \in own
      PROVE  /\ k \in 1..last /\ match(k) \in taken /\ match(k)[2] = ranked[class][k]
             /\ match(k)[1] \in LabelsOf(class)
  <2>1. k \in 1..last /\ \E m \in taken : m[2] = ranked[class][k]
    BY DEF Hits, IsHit
  <2>2. match(k) \in taken /\ match(k)[2] = ranked[class][k]
    BY <2>1
  <2> HIDE DEF match
  <2>3. match(k)[1] \in KeptLabels /\ Alike(match(k)[1], match(k)[2])
    BY <2>2 DEF TakenInv
  <2>4. targets[match(k)[1]].class = class
    BY <1>2, <2>1, <2>2, <2>3 DEF Alike, SameClass, ClassOf
  <2> QED BY <2>1, <2>2, <2>3, <2>4 DEF LabelsOf
<1>4. ASSUME NEW t \in LabelsOf(class), NEW m \in taken, m[1] = t
      PROVE  \E k \in own : match(k)[1] = t
  <2>1. Alike(m[1], m[2]) /\ IsRanked(m[2])
    BY DEF TakenInv
  <2>2. ClassOf(m[2]) = class
    BY <1>4, <2>1 DEF Alike, SameClass, ClassOf, LabelsOf
  <2>3. PICK k \in 1..last : ranked[class][k] = m[2]
    BY <2>1, <2>2 DEF IsRanked
  <2>4. k \in own
    BY <2>3 DEF Hits, IsHit
  <2>5. match(k) \in taken /\ match(k)[2] = m[2]
    BY <1>3, <2>3, <2>4
  <2> HIDE DEF match
  <2>6. match(k) = m
    BY <2>5 DEF TakenInv, Share
  <2> QED BY <1>4, <2>4, <2>6
<1> HIDE DEF match
<1>5. label \in [own -> LabelsOf(class)]
  BY <1>3
<1>6. ASSUME NEW i \in own, NEW k \in own, label[i] = label[k] PROVE i = k
  <2>1. match(i)[1] = match(k)[1]
    BY <1>6
  <2>2. match(i) = match(k)
    BY <1>3, <2>1 DEF TakenInv, Share
  <2>3. ranked[class][i] = ranked[class][k] /\ i \in 1..last /\ k \in 1..last
    <3>1. match(i)[2] = match(k)[2]
      BY <2>2
    <3> HIDE DEF own
    <3> QED BY <1>3, <3>1
  <2> HIDE DEF own
  <2> QED BY <1>2, <2>3
<1>7. \A t \in LabelsOf(class) :
         (\E k \in own : label[k] = t) <=> \E m \in taken : m[1] = t
  BY <1>3, <1>4
<1> HIDE DEF label
<1>8. label \in Injection(own, LabelsOf(class))
  BY <1>5, <1>6 DEF Injection, IsInjective
<1>9. /\ Cardinality(own) <= Cardinality(LabelsOf(class))
      /\ Cardinality(own) = Cardinality(LabelsOf(class)) <=>
            label \in Surjection(own, LabelsOf(class))
  BY <1>1, <1>8, FS_Injection
<1>10. label \in Surjection(own, LabelsOf(class)) <=>
          \A t \in LabelsOf(class) : \E k \in own : label[k] = t
  BY <1>5 DEF Surjection
<1> QED BY <1>1, <1>7, <1>9, <1>10 DEF HitsOf

\* What the evaluation promises of its score, for any boxes, confidences and thresholds:
\* it is at most 1, and 1 is earned by taking every label before anything that takes none.
THEOREM FullScoreEarned == ScoreSpec => []FullScoreIsEarned
<1>1. TakenInv /\ AreaInv => FullScoreIsEarned
  <2> SUFFICES ASSUME TakenInv, AreaInv, Scored, NEW t \in KeptLabels
               PROVE  LET class == targets[t].class
                          n == Cardinality(LabelsOf(class)) IN
                      /\ area[class] <= n * Scale
                      /\ area[class] = n * Scale <=>
                            /\ \A u \in LabelsOf(class) : \E m \in taken : m[1] = u
                            /\ \A k \in 1..n : IsHit(ranked[class][k])
    BY DEF FullScoreIsEarned
  <2> DEFINE class == targets[t].class
             n     == Cardinality(LabelsOf(class))
             last  == Len(ranked[class])
             h(k)  == HitsOf(class, k)
             all   == \A u \in LabelsOf(class) : \E m \in taken : m[1] = u
  <2>1. class \in Classes
    BY DEF TakenInv, KeptLabels
  <2>2. t \in LabelsOf(class)
    BY DEF LabelsOf
  <2> HIDE DEF class
  <2>3. last \in Nat
    BY <2>1 DEF TakenInv
  <2>4. Unsummed(class) = 0
    BY <2>1 DEF Scored
  <2>5. IsFiniteSet(LabelsOf(class)) /\ h(last) <= n /\ (h(last) = n <=> all)
    BY <2>1, HitsTakeLabels
  <2>6. n \in Nat \ {0}
    BY <2>2, <2>5, FS_CardinalityType, FS_EmptySet
  <2>7. \A k \in Nat : h(k) \in Nat /\ h(k) <= k
                       /\ (h(k) = k <=> \A i \in 1..k : IsHit(ranked[class][i]))
    BY HitsBounded
  <2>8. \A i, k \in Nat : i <= k => h(i) <= h(k)
    BY HitsGrow
  <2>9. /\ area[class] \in Nat /\ area[class] <= (h(last) - h(0)) * Scale
        /\ area[class] = (h(last) - h(0)) * Scale <=>
              h(last) = h(0) \/ \E i \in 1..last : h(i) = i /\ h(i) = h(last)
    <3>1. Fits(class, 0, last, highest[class], area[class])
      BY <2>1, <2>4 DEF AreaInv, AreaFits
    <3>2. 0 + 1 = 1
      OBVIOUS
    <3>3. area[class] \in Nat
      BY <2>1 DEF AreaInv
    <3> QED BY <3>1, <3>2, <3>3 DEF Fits
  <2> HIDE DEF n, last, h, all
  <2>10. /\ h(0) = 0 /\ h(last) \in Nat /\ h(last) - h(0) = h(last)
         /\ Scale \in Nat \ {0}
    BY <2>3, <2>7, ScaleAssumption
  <2>11. h(last) * Scale <= n * Scale /\ (h(last) * Scale = n * Scale <=> h(last) = n)
    <3>1. /\ h(last) * Scale <= n * Scale <=> h(last) <= n
          /\ n * Scale <= h(last) * Scale <=> n <= h(last)
      BY <2>6, <2>10, Cancelled
    <3>2. h(last) * Scale \in Nat /\ n * Scale \in Nat
      BY <2>6, <2>10
    <3> QED BY <2>5, <2>6, <2>10, <3>1, <3>2
  <2>12. /\ area[class] <= n * Scale
         /\ area[class] = n * Scale <=>
               h(last) = n /\ \E i \in 1..last : h(i) = i /\ h(i) = h(last)
    <3>1. h(last) * Scale \in Nat /\ n * Scale \in Nat
      BY <2>6, <2>10
    <3>2. /\ area[class] <= h(last) * Scale
          /\ area[class] = h(last) * Scale <=>
                h(last) = 0 \/ \E i \in 1..last : h(i) = i /\ h(i) = h(last)
      BY <2>9, <2>10
    <3>3. h(last) = n => h(last) # 0
      BY <2>6
    <3> HIDE DEF class
    <3> QED BY <2>9, <2>11, <3>1, <3>2, <3>3
  <2>13. (h(last) = n /\ \E i \in 1..last : h(i) = i /\ h(i) = h(last)) <=>
            h(last) = n /\ h(n) = n
    <3>1. ASSUME h(last) = n, h(n) = n PROVE n \in 1..last
      <4>1. h(last) <= last
        BY <2>3, <2>7
      <4> QED BY <2>3, <2>6, <3>1, <4>1
    <3> QED BY <3>1
  <2>14. h(n) = n <=> \A k \in 1..n : IsHit(ranked[class][k])
    BY <2>6, <2>7
  <2> QED BY <2>5, <2>12, <2>13, <2>14 DEF class, n, all
<1> QED BY <1>1, TakenInvariant, AreaInvariant, PTL

-----------------------------------------------------------------------------
(* ProvisionalJobs.                                                         *)

Points ==
    {"none", "pending", "started", "waiting", "slotted", "running", "ended", "over"}

LockPoints == {"waiting", "slotted", "running", "ended"}

SlotPoints == {"slotted", "running", "ended"}

\* How far the task has come tells the status of its job.
TaskFits(point, envelope) ==
    /\ point = "none" <=> envelope = Null
    /\ point \in {"pending", "started", "waiting", "slotted"} =>
          envelope.status = "queued"
    /\ point = "running" => envelope.status = "running"
    /\ point \in {"ended", "over"} => IsTerminal(envelope)

\* A decision that has passed the handler's checks is about a job that is over, and
\* stays so until the store records it.
DecidingFits ==
    deciding = Null \/ /\ deciding \in [job : Jobs, record : DecisionRecord]
                       /\ job[deciding.job] # Null /\ IsTerminal(job[deciding.job])

\* Locks and permits are held from the point where a task takes them to its end.
ProvInv ==
    /\ job \in [Jobs -> Envelope \cup {Null}]
    /\ bgTask \in [Jobs -> Points]
    /\ locked = {j \in Jobs : bgTask[j] \in LockPoints}
    /\ slots \in Nat
    /\ IsFiniteSet(Slotted)
    /\ Cardinality(Slotted) + slots = JobConcurrency
    /\ \A j \in Jobs : TaskFits(bgTask[j], job[j])
    /\ DecidingFits

\* A step of one job: its task moves on, with or without a lock and a permit.
LEMMA ProvStep ==
  ASSUME ProvInv, NEW j \in Jobs, NEW point \in Points, NEW envelope \in Envelope,
         MoveTo(j, point), job' = [job EXCEPT ![j] = envelope],
         TaskFits(point, envelope), deciding' \in {deciding, Null},
         job[j] # Null /\ IsTerminal(job[j]) => IsTerminal(envelope),
         locked' = IF point \in LockPoints THEN locked \cup {j} ELSE locked \ {j},
         \/ slots' = slots /\ (bgTask[j] \in SlotPoints <=> point \in SlotPoints)
         \/ /\ slots > 0 /\ slots' = slots - 1
            /\ bgTask[j] \notin SlotPoints /\ point \in SlotPoints
         \/ slots' = slots + 1 /\ bgTask[j] \in SlotPoints /\ point \notin SlotPoints
  PROVE  ProvInv'
<1>1. /\ bgTask' \in [Jobs -> Points]
      /\ bgTask'[j] = point
      /\ \A k \in Jobs \ {j} : bgTask'[k] = bgTask[k]
  BY DEF ProvInv, MoveTo
<1>2. /\ job' \in [Jobs -> Envelope \cup {Null}]
      /\ job'[j] = envelope
      /\ \A k \in Jobs \ {j} : job'[k] = job[k]
  BY DEF ProvInv
<1>3. locked' = {k \in Jobs : bgTask'[k] \in LockPoints}
  BY <1>1 DEF ProvInv
<1>4. \A k \in Jobs : TaskFits(bgTask'[k], job'[k])
  BY <1>1, <1>2 DEF ProvInv
<1>5. /\ Slotted = {k \in Jobs : bgTask[k] \in SlotPoints}
      /\ Slotted' = {k \in Jobs : bgTask'[k] \in SlotPoints}
  BY DEF Slotted, SlotPoints
<1>6. /\ slots \in Nat /\ JobConcurrency \in Nat /\ IsFiniteSet(Slotted)
      /\ Cardinality(Slotted) \in Nat /\ Cardinality(Slotted) + slots = JobConcurrency
  BY FS_CardinalityType, ProvisionalAssumption DEF ProvInv
<1>7. /\ slots' \in Nat /\ IsFiniteSet(Slotted')
      /\ Cardinality(Slotted') + slots' = JobConcurrency
  <2>1. CASE slots' = slots /\ (bgTask[j] \in SlotPoints <=> point \in SlotPoints)
    <3>1. Slotted' = Slotted
      BY <1>1, <1>5, <2>1
    <3> QED BY <1>6, <2>1, <3>1
  <2>2. CASE /\ slots > 0 /\ slots' = slots - 1
             /\ bgTask[j] \notin SlotPoints /\ point \in SlotPoints
    <3>1. Slotted' = Slotted \cup {j} /\ j \notin Slotted
      BY <1>1, <1>5, <2>2
    <3>2. IsFiniteSet(Slotted') /\ Cardinality(Slotted') = Cardinality(Slotted) + 1
      BY <1>6, <3>1, FS_AddElement
    <3> QED BY <1>6, <2>2, <3>2
  <2>3. CASE slots' = slots + 1 /\ bgTask[j] \in SlotPoints /\ point \notin SlotPoints
    <3>1. Slotted' = Slotted \ {j} /\ j \in Slotted
      BY <1>1, <1>5, <2>3
    <3>2. IsFiniteSet(Slotted') /\ Cardinality(Slotted') = Cardinality(Slotted) - 1
      BY <1>6, <3>1, FS_RemoveElement
    <3> QED BY <1>6, <2>3, <3>2
  <2> QED BY <2>1, <2>2, <2>3
<1>8. DecidingFits'
  <2>1. CASE deciding' = Null
    BY <2>1 DEF DecidingFits
  <2>2. CASE deciding' # Null
    <3>1. /\ deciding' = deciding /\ deciding \in [job : Jobs, record : DecisionRecord]
          /\ job[deciding.job] # Null /\ IsTerminal(job[deciding.job])
      BY <2>2 DEF ProvInv, DecidingFits
    <3>2. job'[deciding.job] # Null /\ IsTerminal(job'[deciding.job])
      BY <1>2, <3>1, NullAssumption
    <3> QED BY <3>1, <3>2 DEF DecidingFits
  <2> QED BY <2>1, <2>2
<1> QED BY <1>1, <1>2, <1>3, <1>4, <1>7, <1>8 DEF ProvInv

\* The envelope of a job whose task is under way, and the step that leaves it alone.
LEMMA TaskHasJob ==
  ASSUME ProvInv, NEW j \in Jobs, bgTask[j] # "none"
  PROVE  job[j] \in Envelope /\ job = [job EXCEPT ![j] = job[j]]
BY DEF ProvInv, TaskFits

LEMMA ProvCreateInv ==
  ASSUME ProvInv, NEW j \in Jobs, ProvCreate(j) PROVE ProvInv'
<1>1. job[j] = Null /\ bgTask[j] = "none"
  BY DEF ProvCreate, Create, Exists, ProvInv, TaskFits
<1>2. NewEnvelope \in Envelope
  BY DEF NewEnvelope, Envelope, JobStatus
<1>3. TaskFits("pending", NewEnvelope)
  BY <1>2, NullAssumption DEF TaskFits, NewEnvelope
<1>4. j \notin locked
  BY <1>1 DEF ProvInv, LockPoints
<1>5. /\ MoveTo(j, "pending") /\ job' = [job EXCEPT ![j] = NewEnvelope]
      /\ locked' = locked \ {j} /\ slots' = slots /\ deciding' = deciding
  BY <1>4 DEF ProvCreate, Create
<1> QED BY <1>1, <1>2, <1>3, <1>5, ProvStep DEF Points, LockPoints, SlotPoints

LEMMA TakeThreadInv ==
  ASSUME ProvInv, NEW j \in Jobs, TakeThread(j) PROVE ProvInv'
<1>1. /\ bgTask[j] = "pending" /\ MoveTo(j, "started")
      /\ job' = job /\ locked' = locked /\ slots' = slots /\ deciding' = deciding
  BY DEF TakeThread, vars
<1>2. job[j] \in Envelope /\ job = [job EXCEPT ![j] = job[j]]
  BY <1>1, TaskHasJob
<1>3. TaskFits("started", job[j]) /\ j \notin locked
  BY <1>1, <1>2 DEF ProvInv, TaskFits, LockPoints
<1> QED BY <1>1, <1>2, <1>3, ProvStep DEF Points, LockPoints, SlotPoints

LEMMA AcquireExecutionInv ==
  ASSUME ProvInv, NEW j \in Jobs, AcquireExecution(j) PROVE ProvInv'
<1>1. bgTask[j] = "started" /\ job' = job /\ slots' = slots /\ deciding' = deciding
  BY DEF AcquireExecution, vars
<1>2. job[j] \in Envelope /\ job = [job EXCEPT ![j] = job[j]]
  BY <1>1, TaskHasJob
<1>3. job[j].status = "queued" /\ j \notin locked
  BY <1>1 DEF ProvInv, TaskFits, LockPoints
<1>4. MoveTo(j, "waiting") /\ locked' = locked \cup {j}
  BY <1>3 DEF AcquireExecution, IsTerminal, Terminal
<1>5. TaskFits("waiting", job[j])
  BY <1>2, <1>3, NullAssumption DEF TaskFits
<1> QED BY <1>1, <1>2, <1>4, <1>5, ProvStep DEF Points, LockPoints, SlotPoints

LEMMA AcquireSlotInv ==
  ASSUME ProvInv, NEW j \in Jobs, AcquireSlot(j) PROVE ProvInv'
<1>1. /\ bgTask[j] = "waiting" /\ MoveTo(j, "slotted")
      /\ job' = job /\ locked' = locked /\ slots > 0 /\ slots' = slots - 1
      /\ deciding' = deciding
  BY DEF AcquireSlot, vars
<1>2. job[j] \in Envelope /\ job = [job EXCEPT ![j] = job[j]]
  BY <1>1, TaskHasJob
<1>3. TaskFits("slotted", job[j]) /\ locked = locked \cup {j}
  BY <1>1, <1>2 DEF ProvInv, TaskFits, LockPoints
<1> QED BY <1>1, <1>2, <1>3, ProvStep DEF Points, LockPoints, SlotPoints

LEMMA StartRunInv ==
  ASSUME ProvInv, NEW j \in Jobs, StartRun(j) PROVE ProvInv'
<1> DEFINE envelope == [job[j] EXCEPT !.status = "running"]
<1>1. /\ bgTask[j] = "slotted" /\ MoveTo(j, "running")
      /\ job' = [job EXCEPT ![j] = envelope] /\ locked' = locked /\ slots' = slots
      /\ deciding' = deciding
  BY DEF StartRun, UpdateStatus, Commit
<1>2. job[j] \in Envelope
  BY <1>1, TaskHasJob
<1>3. envelope \in Envelope /\ envelope.status = "running"
  BY <1>2 DEF Envelope, JobStatus
<1>4. TaskFits("running", envelope)
  BY <1>3, NullAssumption DEF TaskFits
<1>5. locked = locked \cup {j}
  BY <1>1 DEF ProvInv, LockPoints
<1>6. ~ IsTerminal(job[j])
  BY <1>1 DEF ProvInv, TaskFits, IsTerminal, Terminal
<1> QED BY <1>1, <1>3, <1>4, <1>5, <1>6, ProvStep DEF Points, LockPoints, SlotPoints

LEMMA EndRunInv ==
  ASSUME ProvInv, NEW j \in Jobs, EndRun(j) PROVE ProvInv'
<1>1. /\ bgTask[j] = "running" /\ MoveTo(j, "ended")
      /\ locked' = locked /\ slots' = slots /\ deciding' = deciding
  BY DEF EndRun
<1>2. job[j] \in Envelope /\ locked = locked \cup {j}
  BY <1>1, TaskHasJob DEF ProvInv, LockPoints
<1>3. PICK envelope \in Envelope :
         IsTerminal(envelope) /\ job' = [job EXCEPT ![j] = envelope]
  <2>1. CASE \E r \in ResultStatus : SetResult(j, r)
    <3>1. PICK r \in ResultStatus : SetResult(j, r)
      BY <2>1
    <3>2. [job[j] EXCEPT !.status = r, !.result = r] \in Envelope
      BY <1>2 DEF Envelope, ResultStatus, JobStatus
    <3>3. IsTerminal([job[j] EXCEPT !.status = r, !.result = r])
      BY <1>2 DEF Envelope, ResultStatus, IsTerminal
    <3> QED BY <3>1, <3>2, <3>3 DEF SetResult, Commit
  <2>2. CASE \E s \in {"expired", "failed"} : UpdateStatus(j, s)
    <3>1. PICK s \in {"expired", "failed"} : UpdateStatus(j, s)
      BY <2>2
    <3>2. /\ [job[j] EXCEPT !.status = s] \in Envelope
          /\ IsTerminal([job[j] EXCEPT !.status = s])
      BY <1>2 DEF Envelope, JobStatus, Terminal, IsTerminal
    <3> QED BY <3>1, <3>2 DEF UpdateStatus, Commit
  <2> QED BY <2>1, <2>2 DEF EndRun
<1>4. TaskFits("ended", envelope)
  BY <1>3, NullAssumption DEF TaskFits
<1> QED BY <1>1, <1>2, <1>3, <1>4, ProvStep DEF Points, LockPoints, SlotPoints

LEMMA GiveBackInv ==
  ASSUME ProvInv, NEW j \in Jobs, GiveBack(j) PROVE ProvInv'
<1>1. /\ bgTask[j] = "ended" /\ MoveTo(j, "over") /\ job' = job
      /\ locked' = locked \ {j} /\ slots' = slots + 1 /\ deciding' = deciding
  BY DEF GiveBack, vars
<1>2. job[j] \in Envelope /\ job = [job EXCEPT ![j] = job[j]]
  BY <1>1, TaskHasJob
<1>3. TaskFits("over", job[j])
  BY <1>1, <1>2 DEF ProvInv, TaskFits
<1> QED BY <1>1, <1>2, <1>3, ProvStep DEF Points, LockPoints, SlotPoints

\* The handler's checks leave the job alone.
LEMMA AskDecisionInv ==
  ASSUME ProvInv, NEW j \in Jobs, NEW d \in DecisionRecord, AskDecision(j, d)
  PROVE  ProvInv'
<1>1. /\ job[j] # Null /\ IsTerminal(job[j]) /\ deciding' = [job |-> j, record |-> d]
      /\ job' = job /\ bgTask' = bgTask /\ locked' = locked /\ slots' = slots
  BY DEF AskDecision, Exists, vars
<1>2. DecidingFits'
  BY <1>1 DEF DecidingFits
<1>3. Slotted' = Slotted
  BY <1>1 DEF Slotted
<1> QED BY <1>1, <1>2, <1>3 DEF ProvInv

\* What is recorded is about a job that is over.
LEMMA ProvDecideInv == ASSUME ProvInv, ProvDecide PROVE ProvInv'
<1> DEFINE j == deciding.job
           envelope == [job[j] EXCEPT !.decision = deciding.record]
<1>1. /\ deciding # Null /\ job' = [job EXCEPT ![j] = envelope] /\ deciding' = Null
      /\ bgTask' = bgTask /\ locked' = locked /\ slots' = slots
  BY DEF ProvDecide, Commit
<1>2. j \in Jobs /\ deciding.record \in DecisionRecord /\ job[j] # Null
  BY <1>1 DEF ProvInv, DecidingFits
<1>3. job[j] \in Envelope /\ bgTask[j] # "none"
  BY <1>2 DEF ProvInv, TaskFits
<1>4. envelope \in Envelope /\ envelope.status = job[j].status
  BY <1>2, <1>3 DEF Envelope
<1>5. TaskFits(bgTask[j], envelope)
  BY <1>2, <1>3, <1>4, NullAssumption DEF ProvInv, TaskFits, IsTerminal
<1>6. MoveTo(j, bgTask[j]) /\ bgTask[j] \in Points
  BY <1>1, <1>2 DEF MoveTo, ProvInv
<1>7. locked' = IF bgTask[j] \in LockPoints THEN locked \cup {j} ELSE locked \ {j}
  BY <1>1, <1>2 DEF ProvInv
<1>8. IsTerminal(job[j]) => IsTerminal(envelope)
  BY <1>4 DEF IsTerminal
<1> HIDE DEF j, envelope
<1> QED BY <1>1, <1>2, <1>4, <1>5, <1>6, <1>7, <1>8, ProvStep

\* The inductive invariant of the provisional composition.
THEOREM ProvInvariant == ProvSpec => []ProvInv
<1>1. ProvInit => ProvInv
  <2> SUFFICES ASSUME ProvInit PROVE ProvInv
    OBVIOUS
  <2>1. Slotted = {} /\ locked = {j \in Jobs : bgTask[j] \in LockPoints}
    BY DEF ProvInit, Slotted, LockPoints
  <2>2. IsFiniteSet(Slotted) /\ Cardinality(Slotted) = 0
    BY <2>1, FS_EmptySet
  <2>3. slots \in Nat /\ Cardinality(Slotted) + slots = JobConcurrency
    BY <2>2, ProvisionalAssumption DEF ProvInit
  <2>4. \A j \in Jobs : bgTask[j] = "none" /\ job[j] = Null
    BY DEF ProvInit, Init
  <2>5. /\ job \in [Jobs -> Envelope \cup {Null}] /\ bgTask \in [Jobs -> Points]
        /\ DecidingFits
    BY DEF ProvInit, Init, Points, DecidingFits
  <2> QED BY <2>1, <2>2, <2>3, <2>4, <2>5 DEF ProvInv, TaskFits
<1>2. ProvInv /\ [ProvNext]_<<vars, provVars>> => ProvInv'
  <2> SUFFICES ASSUME ProvInv, [ProvNext]_<<vars, provVars>> PROVE ProvInv'
    OBVIOUS
  <2>1. CASE UNCHANGED <<vars, provVars>>
    BY <2>1 DEF vars, provVars, ProvInv, Slotted, DecidingFits
  <2> QED
    BY <2>1, ProvCreateInv, TakeThreadInv, AcquireExecutionInv, AcquireSlotInv,
       StartRunInv, EndRunInv, GiveBackInv, AskDecisionInv, ProvDecideInv
    DEF ProvNext, TaskStep
<1> QED BY <1>1, <1>2, PTL DEF ProvSpec

\* However many jobs, threads and permits there are, the store ignores no call of a
\* task, a task is over only after its job, and no permit of job_slots is lost.
THEOREM TasksAreHeard == ProvSpec => []NothingIgnored
<1>1. ProvInv => NothingIgnored
  BY DEF ProvInv, TaskFits, NothingIgnored, Exists
<1> QED BY <1>1, ProvInvariant, PTL

\* Every step of the provisional composition is a step of the job store's contract,
\* amends the decision about a finished job, or leaves jobs and logs alone: no job is
\* taken back between the handler's check and its call of the store.
THEOREM ProvisionalStoreAmends == ProvSpec => AmendableContract
<1>1. ProvInit => Init
  BY DEF ProvInit
<1>2. ProvInv /\ [ProvNext]_<<vars, provVars>> => [Next \/ \E j \in Jobs : Amend(j)]_vars
  <2> SUFFICES ASSUME ProvInv, [ProvNext]_<<vars, provVars>>
               PROVE  [Next \/ \E j \in Jobs : Amend(j)]_vars
    OBVIOUS
  <2>1. CASE UNCHANGED <<vars, provVars>>
    BY <2>1
  <2>2. ASSUME NEW j \in Jobs,
               \/ ProvCreate(j) \/ TaskStep(j)
               \/ \E d \in DecisionRecord : AskDecision(j, d)
        PROVE  [Next \/ \E k \in Jobs : Amend(k)]_vars
    <3>1. CASE ProvCreate(j)
      BY <3>1 DEF ProvCreate, Next
    <3>2. CASE TakeThread(j) \/ AcquireExecution(j) \/ AcquireSlot(j) \/ GiveBack(j)
      BY <3>2 DEF TakeThread, AcquireExecution, AcquireSlot, GiveBack
    <3>3. CASE StartRun(j)
      BY <3>3 DEF StartRun, Next, SettableStatus
    <3>4. CASE EndRun(j)
      BY <3>4 DEF EndRun, Next, SettableStatus
    <3>5. CASE \E d \in DecisionRecord : AskDecision(j, d)
      BY <3>5 DEF AskDecision
    <3> QED BY <2>2, <3>1, <3>2, <3>3, <3>4, <3>5 DEF TaskStep
  <2>3. CASE ProvDecide
    <3>1. /\ deciding.job \in Jobs /\ deciding.record \in DecisionRecord
          /\ Exists(deciding.job) /\ IsTerminal(job[deciding.job])
      BY <2>3 DEF ProvDecide, ProvInv, DecidingFits, Exists
    <3>2. Amend(deciding.job)
      BY <2>3, <3>1 DEF ProvDecide, Amend
    <3> QED BY <3>1, <3>2
  <2> QED BY <2>1, <2>2, <2>3 DEF ProvNext
<1> QED BY <1>1, <1>2, ProvInvariant, PTL DEF ProvSpec, AmendableContract

-----------------------------------------------------------------------------
(* VisionData.                                                              *)

\* A place is told by the name it was first written under: Val is never linked or
\* copied under another name, nor anything else under that name.
PlacesSound ==
    /\ DOMAIN files = AllDirs
    /\ \A d \in AllDirs : \A n \in DOMAIN files[d] :
          /\ files[d][n].image \in DOMAIN images
          /\ files[d][n].label \in DOMAIN labels
          /\ files[d][n].image[2] = Val <=> n = Val
          /\ files[d][n].label[2] = Val <=> n = Val

\* These places, and no other, hold the held-out image.
ContentsSound ==
    /\ \A f \in DOMAIN images : f[2] = Val <=> images[f] = HeldOut
    /\ \A f \in DOMAIN labels : f[2] = Val => labels[f] = HeldOut

\* The records of a dataset: each of a pair, Val in no train split, and its hash there.
RecordsSound(records, pairs) ==
    /\ \A r \in records :
          /\ r = Record(r.name, r.split, r.sha256, r.source)
          /\ r.name \in DOMAIN pairs
          /\ r.split = "train" => r.name # Val
    /\ records # {} => \E r \in records : r.name = Val /\ r.sha256 = HeldOut

VisionInv ==
    /\ PlacesSound
    /\ ContentsSound
    /\ DOMAIN manifest = AllDirs
    /\ \A d \in AllDirs : RecordsSound(manifest[d], files[d])

\* A derivation with sound inputs: what it links or copies as Val is the base's Val,
\* and what it makes is neither Val nor made from the held-out image.
Given(base, from, new) ==
    /\ \A n \in DOMAIN from :
          from[n] \in DOMAIN files[base] /\ (from[n] = Val <=> n = Val)
    /\ \A n \in DOMAIN new : n # Val /\ new[n].image # HeldOut

LEMMA OverFacts ==
  ASSUME NEW f, NEW g
  PROVE  /\ DOMAIN Over(f, g) = DOMAIN f \cup DOMAIN g
         /\ \A x \in DOMAIN f : Over(f, g)[x] = f[x]
         /\ \A x \in DOMAIN g \ DOMAIN f : Over(f, g)[x] = g[x]
BY DEF Over

\* Where the pairs of a derived directory are.
LEMMA PairsFacts ==
  ASSUME NEW base, NEW out, NEW from, NEW new, NEW linked \in BOOLEAN,
         NEW n \in DOMAIN PairsOf(base, out, from, new, linked)
  PROVE  LET pair == PairsOf(base, out, from, new, linked)[n] IN
         \/ n \in DOMAIN files[out] /\ pair = files[out][n]
         \/ /\ n \in DOMAIN from \ DOMAIN files[out] /\ linked
            /\ pair = files[base][from[n]]
         \/ /\ n \in DOMAIN from \ DOMAIN files[out] /\ ~ linked
            /\ pair = Paired(Place(n), Place(n))
         \/ /\ n \in DOMAIN new \ (DOMAIN from \cup DOMAIN files[out])
            /\ pair = Paired(Place(n), Place(n))
BY DEF PairsOf

\* The names of places, before anything is known of contents.
LEMMA PairsNamed ==
  ASSUME VisionInv, NEW base \in AllDirs, NEW out \in AllDirs, NEW from, NEW new,
         NEW linked \in BOOLEAN, Given(base, from, new),
         NEW n \in DOMAIN PairsOf(base, out, from, new, linked)
  PROVE  LET pair == PairsOf(base, out, from, new, linked)[n] IN
         /\ pair.image[2] = Val <=> n = Val
         /\ pair.label[2] = Val <=> n = Val
<1> DEFINE pair == PairsOf(base, out, from, new, linked)[n]
<1>1. CASE n \in DOMAIN files[out] /\ pair = files[out][n]
  BY <1>1 DEF VisionInv, PlacesSound
<1>2. CASE /\ n \in DOMAIN from \ DOMAIN files[out] /\ linked
           /\ pair = files[base][from[n]]
  <2>1. from[n] \in DOMAIN files[base] /\ (from[n] = Val <=> n = Val)
    BY <1>2 DEF Given
  <2>2. /\ files[base][from[n]].image[2] = Val <=> from[n] = Val
        /\ files[base][from[n]].label[2] = Val <=> from[n] = Val
    BY <2>1 DEF VisionInv, PlacesSound
  <2> QED BY <1>2, <2>1, <2>2
<1>3. CASE pair = Paired(Place(n), Place(n))
  <2>1. pair.image = Place(n) /\ pair.label = Place(n) /\ Place(n)[2] = n
    BY <1>3 DEF Paired, Place
  <2> QED BY <2>1
<1> QED BY <1>1, <1>2, <1>3, PairsFacts

\* What is written in the image files of names.
LEMMA WrittenImages ==
  ASSUME NEW pairs, NEW names, NEW new
  PROVE  DOMAIN Written(pairs, names, new, "image") = {pairs[n].image : n \in names}
BY DEF Written

LEMMA WrittenImage ==
  ASSUME NEW pairs, NEW names, NEW new, NEW f \in DOMAIN Written(pairs, names, new, "image")
  PROVE  \E n \in names : /\ f = pairs[n].image
                         /\ Written(pairs, names, new, "image")[f] = new[n].image
<1>1. \E n \in names : pairs[n].image = f
  BY DEF Written
<1> DEFINE name == CHOOSE n \in names : pairs[n].image = f
<1>2. name \in names /\ f = pairs[name].image
  BY <1>1
<1>3. Written(pairs, names, new, "image")[f] = new[name].image
  BY DEF Written
<1> HIDE DEF name
<1> QED BY <1>2, <1>3

\* The same of the label files.
LEMMA WrittenLabels ==
  ASSUME NEW pairs, NEW names, NEW new
  PROVE  DOMAIN Written(pairs, names, new, "label") = {pairs[n].label : n \in names}
BY DEF Written

LEMMA WrittenLabel ==
  ASSUME NEW pairs, NEW names, NEW new, NEW f \in DOMAIN Written(pairs, names, new, "label")
  PROVE  \E n \in names : /\ f = pairs[n].label
                         /\ Written(pairs, names, new, "label")[f] = new[n].label
<1>1. \E n \in names : pairs[n].label = f
  BY DEF Written
<1> DEFINE name == CHOOSE n \in names : pairs[n].label = f
<1>2. name \in names /\ f = pairs[name].label
  BY <1>1
<1>3. Written(pairs, names, new, "label")[f] = new[name].label
  BY DEF Written
<1> HIDE DEF name
<1> QED BY <1>2, <1>3

\* What the copies of a derivation hold.
LEMMA CopiesFacts ==
  ASSUME NEW base, NEW out, NEW from, NEW field, NEW contents, NEW linked \in BOOLEAN
  PROVE  LET copies == CopiesOf(base, out, from, field, contents, linked) IN
         /\ \A f \in DOMAIN copies :
               \E n \in DOMAIN from \ DOMAIN files[out] :
                  /\ ~ linked /\ f = Place(n)
                  /\ copies[f] = contents[files[base][from[n]][field]]
         /\ ~ linked =>
               \A n \in DOMAIN from \ DOMAIN files[out] : Place(n) \in DOMAIN copies
<1>1. \A n : Place(n)[2] = n
  BY DEF Place
<1> QED BY <1>1 DEF CopiesOf

LEMMA DeriveSound ==
  ASSUME VisionInv, NEW base \in AllDirs, NEW out \in AllDirs, NEW from, NEW new,
         NEW saved \in BOOLEAN, Given(base, from, new),
         Derive(base, out, from, new, saved)
  PROVE  /\ PlacesSound' /\ ContentsSound'
         /\ \A d \in AllDirs \ {out} : files'[d] = files[d]
         /\ DOMAIN files'[out] = DOMAIN files[out] \cup DOMAIN from \cup DOMAIN new
<1>1. PICK linked \in BOOLEAN :
        LET pairs == PairsOf(base, out, from, new, linked)
            fresh == IF saved THEN DOMAIN new
                     ELSE DOMAIN new \ (DOMAIN files[out] \cup DOMAIN from)
        IN  /\ files' = [files EXCEPT ![out] = pairs]
            /\ images' = Over(Written(pairs, fresh, new, "image"),
                              Over(CopiesOf(base, out, from, "image", images, linked), images))
            /\ labels' = Over(Written(pairs, DOMAIN new, new, "label"),
                              Over(CopiesOf(base, out, from, "label", labels, linked), labels))
  BY DEF Derive
<1> DEFINE pairs == PairsOf(base, out, from, new, linked)
           fresh == IF saved THEN DOMAIN new
                    ELSE DOMAIN new \ (DOMAIN files[out] \cup DOMAIN from)
           madeImages == Written(pairs, fresh, new, "image")
           madeLabels == Written(pairs, DOMAIN new, new, "label")
           copiedImages == CopiesOf(base, out, from, "image", images, linked)
           copiedLabels == CopiesOf(base, out, from, "label", labels, linked)
<1>2. /\ files' = [files EXCEPT ![out] = pairs]
      /\ images' = Over(madeImages, Over(copiedImages, images))
      /\ labels' = Over(madeLabels, Over(copiedLabels, labels))
  BY <1>1
<1>3. /\ DOMAIN files' = AllDirs /\ files'[out] = pairs
      /\ \A d \in AllDirs \ {out} : files'[d] = files[d]
  BY <1>2 DEF VisionInv, PlacesSound
<1>4. DOMAIN pairs = DOMAIN files[out] \cup DOMAIN from \cup DOMAIN new
  BY DEF PairsOf
<1>5. \A n \in DOMAIN pairs :
         /\ pairs[n].image[2] = Val <=> n = Val
         /\ pairs[n].label[2] = Val <=> n = Val
  BY PairsNamed
<1>6. /\ \A f \in DOMAIN madeImages : f[2] # Val /\ madeImages[f] # HeldOut
      /\ \A f \in DOMAIN madeLabels : f[2] # Val
  <2>1. fresh \subseteq DOMAIN new
    OBVIOUS
  <2>2. /\ \A f \in DOMAIN madeImages :
              \E n \in fresh : f = pairs[n].image /\ madeImages[f] = new[n].image
        /\ \A f \in DOMAIN madeLabels : \E n \in DOMAIN new : f = pairs[n].label
    <3> HIDE DEF pairs, fresh
    <3>1. ASSUME NEW f \in DOMAIN madeImages
          PROVE  \E n \in fresh : f = pairs[n].image /\ madeImages[f] = new[n].image
      BY WrittenImage
    <3>2. ASSUME NEW f \in DOMAIN madeLabels
          PROVE  \E n \in DOMAIN new : f = pairs[n].label
      BY WrittenLabel
    <3> QED BY <3>1, <3>2
  <2> HIDE DEF pairs, fresh, madeImages, madeLabels
  <2> QED BY <1>4, <1>5, <2>1, <2>2 DEF Given
<1>7. /\ \A f \in DOMAIN copiedImages : f[2] = Val <=> copiedImages[f] = HeldOut
      /\ \A f \in DOMAIN copiedLabels : f[2] = Val => copiedLabels[f] = HeldOut
  <2>1. /\ \A f \in DOMAIN copiedImages :
              \E n \in DOMAIN from :
                  f = Place(n) /\ copiedImages[f] = images[files[base][from[n]].image]
        /\ \A f \in DOMAIN copiedLabels :
              \E n \in DOMAIN from :
                  f = Place(n) /\ copiedLabels[f] = labels[files[base][from[n]].label]
    BY CopiesFacts
  <2>2. \A n : Place(n)[2] = n
    BY DEF Place
  <2>3. ASSUME NEW n \in DOMAIN from
        PROVE  /\ n = Val <=> images[files[base][from[n]].image] = HeldOut
               /\ n = Val => labels[files[base][from[n]].label] = HeldOut
    BY DEF VisionInv, PlacesSound, ContentsSound, Given
  <2> HIDE DEF copiedImages, copiedLabels
  <2> QED BY <2>1, <2>2, <2>3
<1>8. ContentsSound'
  <2> HIDE DEF madeImages, madeLabels, copiedImages, copiedLabels
  <2>1. \A f \in DOMAIN images' :
           \/ f \in DOMAIN madeImages /\ images'[f] = madeImages[f]
           \/ f \in DOMAIN copiedImages /\ images'[f] = copiedImages[f]
           \/ f \in DOMAIN images /\ images'[f] = images[f]
    BY <1>2 DEF Over
  <2>2. \A f \in DOMAIN labels' :
           \/ f \in DOMAIN madeLabels
           \/ f \in DOMAIN copiedLabels /\ labels'[f] = copiedLabels[f]
           \/ f \in DOMAIN labels /\ labels'[f] = labels[f]
    BY <1>2 DEF Over
  <2> QED BY <1>6, <1>7, <2>1, <2>2 DEF VisionInv, ContentsSound
<1>9. /\ DOMAIN images' = DOMAIN madeImages \cup DOMAIN copiedImages \cup DOMAIN images
      /\ DOMAIN labels' = DOMAIN madeLabels \cup DOMAIN copiedLabels \cup DOMAIN labels
  <2> HIDE DEF madeImages, madeLabels, copiedImages, copiedLabels
  <2>1. DOMAIN images' = DOMAIN madeImages \cup DOMAIN Over(copiedImages, images)
    BY <1>2, OverFacts
  <2>2. DOMAIN labels' = DOMAIN madeLabels \cup DOMAIN Over(copiedLabels, labels)
    BY <1>2, OverFacts
  <2>3. /\ DOMAIN Over(copiedImages, images) = DOMAIN copiedImages \cup DOMAIN images
        /\ DOMAIN Over(copiedLabels, labels) = DOMAIN copiedLabels \cup DOMAIN labels
    BY OverFacts
  <2> QED BY <2>1, <2>2, <2>3
<1>10. ASSUME NEW n \in DOMAIN pairs
       PROVE  pairs[n].image \in DOMAIN images' /\ pairs[n].label \in DOMAIN labels'
  <2>1. CASE n \in DOMAIN files[out] /\ pairs[n] = files[out][n]
    <3> HIDE DEF pairs, madeImages, madeLabels, copiedImages, copiedLabels
    <3> QED BY <1>9, <2>1 DEF VisionInv, PlacesSound
  <2>2. CASE n \in DOMAIN from /\ pairs[n] = files[base][from[n]]
    <3> HIDE DEF pairs, madeImages, madeLabels, copiedImages, copiedLabels
    <3> QED BY <1>9, <2>2 DEF VisionInv, PlacesSound, Given
  <2>3. CASE /\ n \in DOMAIN from \ DOMAIN files[out] /\ ~ linked
             /\ pairs[n] = Paired(Place(n), Place(n))
    <3>1. Place(n) \in DOMAIN copiedImages /\ Place(n) \in DOMAIN copiedLabels
      BY <2>3, CopiesFacts
    <3>2. pairs[n].image = Place(n) /\ pairs[n].label = Place(n)
      BY <2>3 DEF Paired
    <3> QED BY <1>9, <3>1, <3>2
  <2>4. CASE n \in DOMAIN new \ (DOMAIN from \cup DOMAIN files[out])
    <3>1. n \in fresh
      BY <2>4
    <3>2. /\ DOMAIN madeImages = {pairs[k].image : k \in fresh}
          /\ DOMAIN madeLabels = {pairs[k].label : k \in DOMAIN new}
      <4> HIDE DEF pairs, fresh
      <4>1. DOMAIN madeImages = {pairs[k].image : k \in fresh}
        BY WrittenImages
      <4>2. DOMAIN madeLabels = {pairs[k].label : k \in DOMAIN new}
        BY WrittenLabels
      <4> QED BY <4>1, <4>2
    <3> HIDE DEF pairs, fresh, madeImages, madeLabels, copiedImages, copiedLabels
    <3> QED BY <1>9, <2>4, <3>1, <3>2
  <2> QED BY <2>1, <2>2, <2>3, <2>4, PairsFacts
<1>11. PlacesSound'
  <2> HIDE DEF pairs, madeImages, madeLabels, copiedImages, copiedLabels
  <2>1. ASSUME NEW d \in AllDirs, NEW n \in DOMAIN files'[d]
        PROVE  /\ files'[d][n].image \in DOMAIN images'
               /\ files'[d][n].label \in DOMAIN labels'
               /\ files'[d][n].image[2] = Val <=> n = Val
               /\ files'[d][n].label[2] = Val <=> n = Val
    <3>1. CASE d = out
      BY <1>3, <1>5, <1>10, <2>1, <3>1
    <3>2. CASE d # out
      BY <1>3, <1>9, <2>1, <3>2 DEF VisionInv, PlacesSound
    <3> QED BY <3>1, <3>2
  <2> QED BY <1>3, <2>1 DEF PlacesSound
<1> QED BY <1>3, <1>4, <1>8, <1>11

\* The manifest follows: a dataset whose records are sound for its new pairs.
LEMMA WriteManifestInv ==
  ASSUME VisionInv, NEW out \in AllDirs, NEW records,
         PlacesSound', ContentsSound',
         \A d \in AllDirs \ {out} : files'[d] = files[d],
         DOMAIN files[out] \subseteq DOMAIN files'[out],
         RecordsSound(records, files'[out]),
         WriteManifest(out, records)
  PROVE  VisionInv'
<1>1. /\ DOMAIN manifest' = AllDirs
      /\ \A d \in AllDirs \ {out} : manifest'[d] = manifest[d]
      /\ manifest'[out] \in {manifest[out], records}
  BY DEF WriteManifest, VisionInv
<1>2. ASSUME NEW d \in AllDirs PROVE RecordsSound(manifest'[d], files'[d])
  <2>1. CASE d # out
    BY <1>1, <2>1 DEF VisionInv
  <2>2. CASE d = out /\ manifest'[out] = records
    BY <2>2
  <2>3. CASE d = out /\ manifest'[out] = manifest[out]
    BY <2>3 DEF VisionInv, RecordsSound
  <2> QED BY <1>1, <2>1, <2>2, <2>3
<1> QED BY <1>1, <1>2 DEF VisionInv

LEMMA RecordFacts ==
  ASSUME NEW n, NEW split, NEW image, NEW source
  PROVE  LET r == Record(n, split, image, source) IN
         /\ r.name = n /\ r.split = split /\ r.sha256 = image /\ r.source = source
         /\ r = Record(r.name, r.split, r.sha256, r.source)
BY DEF Record

\* The base of a derivation has Val among its names and its images.
LEMMA BaseFacts ==
  ASSUME VisionInv, NEW base, NEW out, base \in AllDirs, out \in Dirs,
         Derivation(base, out)
  PROVE  /\ out \in AllDirs /\ HeldOut \in SeenHashes(base)
         /\ Given(base, Same(base), <<>>)
         /\ DOMAIN Same(base) = Names(base)
<1>1. out \in AllDirs
  BY DEF AllDirs
<1>2. HeldOut \in SeenHashes(base)
  BY DEF Derivation, VisionInv, RecordsSound, SeenHashes
<1>3. DOMAIN Same(base) = Names(base) /\ \A n \in Names(base) : Same(base)[n] = n
  BY DEF Same
<1>4. Names(base) \subseteq DOMAIN files[base]
  BY DEF Names, VisionInv, RecordsSound
<1>5. DOMAIN <<>> = {}
  OBVIOUS
<1> QED BY <1>1, <1>2, <1>3, <1>4, <1>5 DEF Given

\* copy_base_dataset with new pairs of train.
LEMMA AugmentInv ==
  ASSUME VisionInv, NEW base \in AllDirs, NEW out \in Dirs, NEW new,
         NEW saved \in BOOLEAN, Derivation(base, out), Augment(base, out, new, saved),
         \A n \in DOMAIN new : n # Val /\ new[n].image # HeldOut
  PROVE  VisionInv'
<1> DEFINE made == {Record(n, "train", HashIn(out, n), new[n].image) : n \in DOMAIN new}
<1>1. /\ out \in AllDirs /\ DOMAIN Same(base) = Names(base)
      /\ Given(base, Same(base), new)
  BY BaseFacts DEF Given
<1>2. /\ Derive(base, out, Same(base), new, saved)
      /\ WriteManifest(out, manifest[base] \cup made)
  BY DEF Augment
<1>3. /\ PlacesSound' /\ ContentsSound'
      /\ \A d \in AllDirs \ {out} : files'[d] = files[d]
      /\ DOMAIN files'[out] = DOMAIN files[out] \cup Names(base) \cup DOMAIN new
  BY <1>1, <1>2, DeriveSound
<1>4. ASSUME NEW r \in manifest[base] \cup made
      PROVE  /\ r = Record(r.name, r.split, r.sha256, r.source)
             /\ r.name \in DOMAIN files'[out]
             /\ r.split = "train" => r.name # Val
  <2>1. CASE r \in manifest[base]
    BY <1>3, <2>1 DEF VisionInv, RecordsSound, Names
  <2>2. CASE r \in made
    <3>1. PICK n \in DOMAIN new : r = Record(n, "train", HashIn(out, n), new[n].image)
      BY <2>2
    <3>2. r.name = n /\ r = Record(r.name, r.split, r.sha256, r.source)
      BY <3>1, RecordFacts
    <3> QED BY <1>3, <3>2
  <2> QED BY <2>1, <2>2
<1>5. \E r \in manifest[base] \cup made : r.name = Val /\ r.sha256 = HeldOut
  BY DEF Derivation, VisionInv, RecordsSound
<1>6. RecordsSound(manifest[base] \cup made, files'[out])
  <2> HIDE DEF made
  <2> QED BY <1>4, <1>5 DEF RecordsSound
<1> HIDE DEF made
<1> QED BY <1>1, <1>2, <1>3, <1>6, WriteManifestInv

\* At first, the root alone has files and records.
LEMMA VisionInitInv ==
  ASSUME VisionInit
  PROVE  VisionInv
<1> USE DEF VisionInit
<1>1. Train # Val /\ Root \in AllDirs
  BY DEF Train, Val, AllDirs
<1>2. DOMAIN <<>> = {}
  OBVIOUS
<1>3. /\ DOMAIN images = {<<0, n>> : n \in {Train, Val}}
      /\ \A n \in {Train, Val} :
            images[<<0, n>>] = IF n = Val THEN HeldOut ELSE BaseImage
      /\ labels = images
  OBVIOUS
<1>4. ContentsSound
  <2>1. \A f \in DOMAIN images : \E n \in {Train, Val} : f = <<0, n>> /\ f[2] = n
    OBVIOUS
  <2> HIDE DEF VisionInit
  <2> QED BY <1>1, <1>3, <2>1, VisionAssumption DEF ContentsSound
<1>5. /\ DOMAIN files = AllDirs /\ DOMAIN files[Root] = {Train, Val}
      /\ \A n \in {Train, Val} :
            files[Root][n].image = <<0, n>> /\ files[Root][n].label = <<0, n>>
      /\ \A d \in AllDirs \ {Root} : DOMAIN files[d] = {}
  BY <1>1, <1>2
<1>6. PlacesSound
  <2>1. ASSUME NEW d \in AllDirs, NEW n \in DOMAIN files[d]
        PROVE  /\ n \in {Train, Val}
               /\ files[d][n].image = <<0, n>> /\ files[d][n].label = <<0, n>>
    BY <1>5
  <2>2. \A n : <<0, n>>[2] = n
    OBVIOUS
  <2> HIDE DEF VisionInit
  <2> QED BY <1>3, <1>5, <2>1, <2>2 DEF PlacesSound
<1>7. DOMAIN manifest = AllDirs /\ manifest[Root] = RootRecords
      /\ \A d \in AllDirs \ {Root} : manifest[d] = {}
  BY <1>1
<1>8. RecordsSound(RootRecords, files[Root])
  <2>1. \A r \in RootRecords :
           /\ r = Record(r.name, r.split, r.sha256, r.source)
           /\ r.name \in {Train, Val} /\ (r.split = "train" => r.name # Val)
    BY <1>1, RecordFacts DEF RootRecords
  <2>2. Record(Val, "val", HeldOut, HeldOut) \in RootRecords
    BY DEF RootRecords
  <2> QED BY <1>5, <2>1, <2>2, RecordFacts DEF RecordsSound
<1>9. \A d \in AllDirs : RecordsSound(manifest[d], files[d])
  BY <1>7, <1>8 DEF RecordsSound
<1> QED BY <1>4, <1>6, <1>7, <1>9 DEF VisionInv

\* Files of a kind other than val, of images that were not seen, are not held out.
LEMMA NumberedByRowFacts ==
  ASSUME NEW kind, kind # "val", NEW rows, NEW seen, HeldOut \in seen
  PROVE  \A n \in DOMAIN NumberedByRow(kind, rows, seen) :
            n # Val /\ NumberedByRow(kind, rows, seen)[n].image # HeldOut
<1>1. ASSUME NEW n \in DOMAIN NumberedByRow(kind, rows, seen)
      PROVE  n # Val /\ NumberedByRow(kind, rows, seen)[n].image # HeldOut
  <2>1. PICK i \in DOMAIN rows : n = <<kind, i>> /\ rows[i] \notin seen
    BY DEF NumberedByRow
  <2>2. NumberedByRow(kind, rows, seen)[n] = Paired(rows[i], rows[i])
    BY <2>1 DEF NumberedByRow
  <2> QED BY <2>1, <2>2 DEF Val, Paired
<1> QED BY <1>1

\* The same where those that were seen are not numbered.
LEMMA NumberedByKeptFacts ==
  ASSUME NEW kind, kind # "val", NEW source, NEW seen, HeldOut \in seen
  PROVE  \A n \in DOMAIN NumberedByKept(kind, source, seen) :
            n # Val /\ NumberedByKept(kind, source, seen)[n].image # HeldOut
<1> DEFINE kept == {i \in DOMAIN source : source[i] \notin seen}
           rank(i) == Cardinality({k \in kept : k <= i})
           first(n) == CHOOSE i \in kept : n = <<kind, rank(i)>>
           new == NumberedByKept(kind, source, seen)
<1>1. new = [n \in {<<kind, rank(i)>> : i \in kept} |->
               Paired(source[first(n)], source[first(n)])]
  BY DEF NumberedByKept
<1> HIDE DEF rank, new
<1>2. ASSUME NEW n \in DOMAIN new
      PROVE  n # Val /\ new[n].image # HeldOut
  <2>1. n \in {<<kind, rank(i)>> : i \in kept}
        /\ new[n] = Paired(source[first(n)], source[first(n)])
    BY <1>1, <1>2
  <2>2. \E i \in kept : n = <<kind, rank(i)>>
    BY <2>1
  <2>3. first(n) \in kept
    BY <2>2
  <2>4. n # Val
    BY <2>2 DEF Val
  <2> HIDE DEF first
  <2>5. new[n].image = source[first(n)]
    BY <2>1 DEF Paired
  <2> QED BY <2>3, <2>4, <2>5
<1> QED BY <1>2 DEF new

\* A record of train tells a pair of its dataset, which is not held out.
LEMMA TrainFacts ==
  ASSUME VisionInv, NEW base \in AllDirs, NEW record \in TrainRecords(base)
  PROVE  /\ record \in manifest[base] /\ record.split = "train"
         /\ record.name \in DOMAIN files[base] /\ record.name # Val
         /\ images[files[base][record.name].image] # HeldOut
<1>1. record \in manifest[base] /\ record.split = "train"
  BY DEF TrainRecords
<1>2. record.name \in DOMAIN files[base] /\ record.name # Val
  BY <1>1 DEF VisionInv, RecordsSound
<1>3. images[files[base][record.name].image] # HeldOut
  BY <1>2 DEF VisionInv, PlacesSound, ContentsSound
<1> QED BY <1>1, <1>2, <1>3

LEMMA AddReviewedInv ==
  ASSUME VisionInv, NEW base \in AllDirs, NEW out \in Dirs, NEW kind, kind # "val",
         AddReviewed(kind, base, out)
  PROVE  VisionInv'
<1> DEFINE rows == SelectSeq(queue, LAMBDA row : row.status = "accepted")
           shown == [i \in DOMAIN rows |-> rows[i].image]
           new == NumberedByRow(kind, shown, SeenHashes(base))
<1>1. Derivation(base, out) /\ Augment(base, out, new, FALSE)
  BY DEF AddReviewed
<1>2. HeldOut \in SeenHashes(base)
  BY <1>1, BaseFacts
<1> HIDE DEF shown
<1>3. \A n \in DOMAIN new : n # Val /\ new[n].image # HeldOut
  BY <1>2, NumberedByRowFacts
<1> HIDE DEF new
<1> QED BY <1>1, <1>3, AugmentInv

LEMMA AddSourceInv ==
  ASSUME VisionInv, NEW base \in AllDirs, NEW out \in Dirs, NEW source,
         NEW kind, kind # "val", AddSource(kind, base, out, source)
  PROVE  VisionInv'
<1> DEFINE new == NumberedByKept(kind, source, SeenHashes(base))
<1>1. Derivation(base, out) /\ Augment(base, out, new, FALSE)
  BY DEF AddSource
<1>2. HeldOut \in SeenHashes(base)
  BY <1>1, BaseFacts
<1>3. \A n \in DOMAIN new : n # Val /\ new[n].image # HeldOut
  BY <1>2, NumberedByKeptFacts
<1> HIDE DEF new
<1> QED BY <1>1, <1>3, AugmentInv

LEMMA AugmentWithCropInv ==
  ASSUME VisionInv, NEW base \in AllDirs, NEW out \in Dirs,
         NEW record \in TrainRecords(base), AugmentWithCrop(base, out, record)
  PROVE  VisionInv'
<1> DEFINE crop == Paired(images[files[base][record.name].image],
                          labels[files[base][record.name].label])
           new == [n \in {<<"object_crop", 1>>} |-> crop]
<1>1. Derivation(base, out) /\ Augment(base, out, new, TRUE)
  BY DEF AugmentWithCrop
<1>2. crop.image # HeldOut
  BY TrainFacts DEF Paired
<1> HIDE DEF crop
<1>3. \A n \in DOMAIN new : n # Val /\ new[n].image # HeldOut
  BY <1>2 DEF Val
<1> HIDE DEF new
<1> QED BY <1>1, <1>3, AugmentInv

LEMMA ReplayInv ==
  ASSUME VisionInv, NEW base \in AllDirs, NEW out \in Dirs, NEW kind, kind # "val",
         NEW record \in TrainRecords(base), Replay(kind, base, out, record)
  PROVE  VisionInv'
<1> DEFINE copy == <<kind, 1>>
           once == [n \in {copy} |-> record.name]
           from == Over(once, Same(base))
           again == [record EXCEPT !.name = copy]
           rehashed(r) == [r EXCEPT !.sha256 = HashIn(out, r.name)]
           records == {rehashed(r) : r \in manifest[base] \cup {again}}
<1>1. /\ Derivation(base, out)
      /\ Derive(base, out, from, <<>>, FALSE)
      /\ WriteManifest(out, records)
  BY DEF Replay
<1>2. copy # Val
  BY DEF Val
<1>3. /\ out \in AllDirs
      /\ DOMAIN Same(base) = Names(base) /\ \A n \in Names(base) : Same(base)[n] = n
      /\ Names(base) \subseteq DOMAIN files[base]
  BY <1>1, BaseFacts DEF Same, Names, VisionInv, RecordsSound
<1>4. /\ record \in manifest[base] /\ record.split = "train"
      /\ record.name \in DOMAIN files[base] /\ record.name # Val
  BY TrainFacts
<1>5. DOMAIN <<>> = {}
  OBVIOUS
<1>6. DOMAIN once = {copy} /\ once[copy] = record.name
  OBVIOUS
<1> HIDE DEF copy, once
<1>7. /\ DOMAIN from = {copy} \cup Names(base)
      /\ \A n \in DOMAIN from : \/ n = copy /\ from[n] = record.name
                                \/ n \in Names(base) /\ from[n] = n
  BY <1>3, <1>6 DEF Over
<1> HIDE DEF from
<1>8. Given(base, from, <<>>)
  BY <1>2, <1>3, <1>4, <1>5, <1>7 DEF Given
<1>9. /\ PlacesSound' /\ ContentsSound'
      /\ \A d \in AllDirs \ {out} : files'[d] = files[d]
      /\ DOMAIN files'[out] = DOMAIN files[out] \cup {copy} \cup Names(base)
  <2> DEFINE nothing == <<>>
             saved == FALSE
  <2>1. /\ saved \in BOOLEAN /\ Given(base, from, nothing)
        /\ Derive(base, out, from, nothing, saved)
    BY <1>1, <1>8
  <2>2. DOMAIN nothing = {}
    BY <1>5
  <2> HIDE DEF again, rehashed, records, nothing, saved
  <2>3. /\ PlacesSound' /\ ContentsSound'
        /\ \A d \in AllDirs \ {out} : files'[d] = files[d]
        /\ DOMAIN files'[out] = DOMAIN files[out] \cup DOMAIN from \cup DOMAIN nothing
    BY <1>3, <2>1, DeriveSound
  <2> QED BY <1>7, <2>2, <2>3
<1>10. ASSUME NEW r \in manifest[base] \cup {again}
       PROVE  /\ r = Record(r.name, r.split, r.sha256, r.source)
              /\ r.name \in DOMAIN files'[out]
              /\ r.split = "train" => r.name # Val
  <2>1. CASE r \in manifest[base]
    BY <1>9, <2>1 DEF VisionInv, RecordsSound, Names
  <2>2. CASE r = again
    <3>1. record = Record(record.name, record.split, record.sha256, record.source)
      BY <1>4 DEF VisionInv, RecordsSound
    <3>2. again = Record(copy, record.split, record.sha256, record.source)
      BY <3>1 DEF Record
    <3> HIDE DEF again
    <3> QED BY <1>2, <1>9, <2>2, <3>2, RecordFacts
  <2> QED BY <2>1, <2>2
<1>11. ASSUME NEW r \in manifest[base] \cup {again}
       PROVE  rehashed(r) = Record(r.name, r.split, HashIn(out, r.name), r.source)
  <2> HIDE DEF again
  <2> QED BY <1>10, <1>11 DEF Record
<1>12. \A r \in records :
          /\ r = Record(r.name, r.split, r.sha256, r.source)
          /\ r.name \in DOMAIN files'[out]
          /\ r.split = "train" => r.name # Val
  <2> HIDE DEF rehashed, again
  <2> QED BY <1>10, <1>11, RecordFacts
<1>13. \E r \in records : r.name = Val /\ r.sha256 = HeldOut
  <2>1. PICK r \in manifest[base] : r.name = Val
    BY <1>1 DEF Derivation, VisionInv, RecordsSound
  <2>2. Val \in DOMAIN files'[out]
    BY <1>9, <2>1 DEF Names
  <2>3. HashIn(out, Val) = HeldOut
    BY <1>3, <1>9, <2>2 DEF HashIn, PlacesSound, ContentsSound
  <2>4. rehashed(r) \in records
    OBVIOUS
  <2> HIDE DEF records, rehashed
  <2> QED BY <1>11, <2>1, <2>3, <2>4, RecordFacts
<1>14. RecordsSound(records, files'[out])
  <2> HIDE DEF records
  <2> QED BY <1>12, <1>13 DEF RecordsSound
<1> HIDE DEF records
<1> QED BY <1>1, <1>3, <1>9, <1>14, WriteManifestInv

\* What a directory that is removed links is kept where another links it.
LEMMA CleanupInv ==
  ASSUME VisionInv, NEW d \in Dirs, Cleanup(d)
  PROVE  VisionInv'
<1> DEFINE linked(field) ==
             UNION {{files[e][n][field] : n \in DOMAIN files[e]} : e \in AllDirs \ {d}}
           linkedImages == linked("image")
           linkedLabels == linked("label")
<1>1. /\ files' = [files EXCEPT ![d] = <<>>]
      /\ manifest' = [manifest EXCEPT ![d] = {}]
      /\ images' = Restrict(images, linkedImages)
      /\ labels' = Restrict(labels, linkedLabels)
  BY DEF Cleanup
<1>2. d \in AllDirs /\ DOMAIN <<>> = {}
  BY DEF AllDirs
<1>3. /\ linkedImages \subseteq DOMAIN images /\ linkedLabels \subseteq DOMAIN labels
      /\ \A e \in AllDirs \ {d} : \A n \in DOMAIN files[e] :
            files[e][n].image \in linkedImages /\ files[e][n].label \in linkedLabels
  BY DEF VisionInv, PlacesSound
<1> HIDE DEF linkedImages, linkedLabels
<1>4. /\ DOMAIN images' = linkedImages /\ DOMAIN labels' = linkedLabels
      /\ \A f \in linkedImages : images'[f] = images[f]
      /\ \A f \in linkedLabels : labels'[f] = labels[f]
  BY <1>1 DEF Restrict
<1>5. /\ DOMAIN files' = AllDirs /\ DOMAIN manifest' = AllDirs
      /\ \A e \in AllDirs \ {d} : files'[e] = files[e] /\ manifest'[e] = manifest[e]
      /\ DOMAIN files'[d] = {} /\ manifest'[d] = {}
  BY <1>1, <1>2 DEF VisionInv, PlacesSound
<1>6. ContentsSound'
  BY <1>3, <1>4 DEF VisionInv, ContentsSound
<1>7. PlacesSound'
  BY <1>3, <1>4, <1>5 DEF VisionInv, PlacesSound
<1>8. \A e \in AllDirs : RecordsSound(manifest'[e], files'[e])
  BY <1>5 DEF VisionInv, RecordsSound
<1> QED BY <1>5, <1>6, <1>7, <1>8 DEF VisionInv

\* The datasets as they are while nothing is derived or removed.
LEMMA ReviewInv ==
  ASSUME VisionInv, UNCHANGED datasetVars
  PROVE  VisionInv'
BY DEF datasetVars, VisionInv, PlacesSound, ContentsSound

\* The scripts that derive datasets keep the places of the held-out images apart, in
\* whatever order they run, on whatever directories, and wherever they die.
THEOREM VisionInvariant == VisionSpec => []VisionInv
<1>1. VisionInit => VisionInv
  BY VisionInitInv
<1>2. VisionInv /\ [VisionNext]_visionVars => VisionInv'
  <2> SUFFICES ASSUME VisionInv, [VisionNext]_visionVars PROVE VisionInv'
    OBVIOUS
  <2>1. ASSUME NEW selection \in Selections, BuildPack(selection) PROVE VisionInv'
    BY <2>1, ReviewInv DEF BuildPack
  <2>2. CASE ReviewBatch
    BY <2>2, ReviewInv DEF ReviewBatch
  <2>3. CASE ApplyBatch
    BY <2>3, ReviewInv DEF ApplyBatch, SetStatus
  <2>4. CASE MarkAllAccepted
    BY <2>4, ReviewInv DEF MarkAllAccepted, SetStatus
  <2>5. ASSUME NEW d \in Dirs, Cleanup(d) PROVE VisionInv'
    BY <2>5, CleanupInv
  <2>6. ASSUME NEW base \in AllDirs, NEW out \in Dirs,
               \/ AugmentWithReviewPack(base, out) \/ FinalizeCandidates(base, out)
               \/ \E source \in Selections :
                     \/ AugmentWithYoloSource(base, out, source)
                     \/ AugmentWithMotorcycle(base, out, source)
               \/ \E record \in TrainRecords(base) :
                     \/ AugmentWithCrop(base, out, record)
                     \/ Rebalance(base, out, record) \/ ReplayErrors(base, out, record)
        PROVE  VisionInv'
    <3>1. CASE AugmentWithReviewPack(base, out)
      BY <3>1, AddReviewedInv DEF AugmentWithReviewPack
    <3>2. CASE FinalizeCandidates(base, out)
      BY <3>2, AddReviewedInv DEF FinalizeCandidates
    <3>3. ASSUME NEW source, AugmentWithYoloSource(base, out, source) PROVE VisionInv'
      BY <3>3, AddSourceInv DEF AugmentWithYoloSource
    <3>4. ASSUME NEW source, AugmentWithMotorcycle(base, out, source) PROVE VisionInv'
      BY <3>4, AddSourceInv DEF AugmentWithMotorcycle
    <3>5. ASSUME NEW record \in TrainRecords(base), AugmentWithCrop(base, out, record)
          PROVE  VisionInv'
      BY <3>5, AugmentWithCropInv
    <3>6. ASSUME NEW record \in TrainRecords(base), Rebalance(base, out, record)
          PROVE  VisionInv'
      BY <3>6, ReplayInv DEF Rebalance
    <3>7. ASSUME NEW record \in TrainRecords(base), ReplayErrors(base, out, record)
          PROVE  VisionInv'
      BY <3>7, ReplayInv DEF ReplayErrors
    <3> QED BY <2>6, <3>1, <3>2, <3>3, <3>4, <3>5, <3>6, <3>7
  <2>7. CASE UNCHANGED visionVars
    BY <2>7, ReviewInv DEF visionVars
  <2> QED BY <2>1, <2>2, <2>3, <2>4, <2>5, <2>6, <2>7 DEF VisionNext
<1> QED BY <1>1, <1>2, PTL DEF VisionSpec

\* What the scripts that derive datasets promise for every number of derivations: the
\* held-out images stay in every dataset, image and label, and no record of train is
\* one of them, whatever images the packs and the sources hold.
THEOREM HeldOutStays == VisionSpec => []HeldOutStaysHeldOut
<1>1. VisionInv => HeldOutStaysHeldOut
  <2> SUFFICES ASSUME VisionInv, NEW d \in AllDirs, manifest[d] # {}
               PROVE  /\ Val \in Names(d)
                      /\ images[files[d][Val].image] = HeldOut
                      /\ labels[files[d][Val].label] = HeldOut
                      /\ \A r \in manifest[d] :
                            r.split = "train" => images[files[d][r.name].image] # HeldOut
    BY DEF HeldOutStaysHeldOut
  <2>1. Val \in Names(d) /\ Val \in DOMAIN files[d]
    BY DEF VisionInv, RecordsSound, Names
  <2>2. /\ images[files[d][Val].image] = HeldOut
        /\ labels[files[d][Val].label] = HeldOut
    BY <2>1 DEF VisionInv, PlacesSound, ContentsSound
  <2>3. ASSUME NEW r \in manifest[d], r.split = "train"
        PROVE  images[files[d][r.name].image] # HeldOut
    BY <2>3, TrainFacts DEF TrainRecords
  <2> QED BY <2>1, <2>2, <2>3
<1> QED BY <1>1, VisionInvariant, PTL

=============================================================================
