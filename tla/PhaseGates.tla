------------------------------ MODULE PhaseGates ------------------------------
(***************************************************************************)
(* The scripts that make the artifacts of the models and pass them from    *)
(* gate to gate: the mock observations of phase 1 and their gate, the      *)
(* forecaster trained on them and its evidence, the SUMO scenarios and the *)
(* surrogate of phase 2, and the reports that let phase 4 start.           *)
(*                                                                         *)
(* A script is run by hand; one script runs at a time.  It may die at any  *)
(* point; the actions name the points at which that leaves something new.  *)
(* A dataset of phase 1 is told by its number of time steps (--days), what *)
(* is made from it by the same number; 0 stands for nothing.               *)
(***************************************************************************)
EXTENDS Integers, FiniteSets

CONSTANTS
    Lengths,        \* numbers of steps the generator may be asked for
    HistorySteps,   \* data_contract.history_steps
    ForecastSteps   \* data_contract.forecast_steps

ASSUME GateAssumption ==
    /\ Lengths \subseteq Nat \ {0}
    /\ {HistorySteps, ForecastSteps} \subseteq Nat \ {0}

VARIABLES
    dataset,    \* phase1_mock/
    forecaster, \* gcn_lstm_*/: checkpoint and training report
    evidence,   \* evidence_manifest.json beside them
    readiness,  \* phase2_readiness_report.json
    sumo,       \* phase2_sumo/
    surrogate,  \* phase2_surrogate/v*/
    reports,    \* gate reports of P2, P3 and the phase-4 start
    passed      \* history: the data that passed a validation

gateVars == <<dataset, forecaster, evidence, readiness, sumo, surrogate,
              reports, passed>>

NoSplits == [train |-> {}, val |-> {}, test |-> {}]

\* manifest is "none" in a directory whose generation was cut short.
NoDataset    == [data |-> 0, manifest |-> "none", splits |-> NoSplits,
                 report |-> FALSE, baseline |-> FALSE]
NoForecaster == [data |-> 0, reported |-> TRUE]
NoEvidence   == [model |-> 0, dataset |-> 0]
NoReadiness  == [dataset |-> 0, model |-> 0, kpi |-> FALSE]
NoScenarios  == [data |-> 0, manifest |-> "none", report |-> FALSE]
NoSurrogate  == [data |-> 0, reported |-> TRUE, benchmark |-> "none"]
NoReports    == [p2 |-> NoReadiness, p2surrogate |-> 0, p3 |-> FALSE, phase4 |-> "none"]

GateInit ==
    /\ dataset = NoDataset /\ forecaster = NoForecaster /\ evidence = NoEvidence
    /\ readiness = NoReadiness /\ sumo = NoScenarios /\ surrogate = NoSurrogate
    /\ reports = NoReports /\ passed = {}

-----------------------------------------------------------------------------
\* Phase 1.

\* build_tensor_windows: a window is named by its first step.
Windows(steps) == 0 .. steps - HistorySteps - ForecastSteps
StepsOf(start) == start .. start + HistorySteps + ForecastSteps - 1

TrainCutoff(steps)      == (steps * 70) \div 100
ValidationCutoff(steps) == (steps * 85) \div 100

\* Defect: the windows are split by their first step only.
SplitsByStart(steps) ==
    [train |-> {w \in Windows(steps) : w < TrainCutoff(steps)},
     val   |-> {w \in Windows(steps) : w \in TrainCutoff(steps) .. ValidationCutoff(steps) - 1},
     test  |-> {w \in Windows(steps) : w >= ValidationCutoff(steps)}]

\* chronological_split_indices.
Splits(steps) ==
    LET end(w) == w + HistorySteps + ForecastSteps
    IN  [train |-> {w \in Windows(steps) : end(w) <= TrainCutoff(steps)},
         val   |-> {w \in Windows(steps) : w >= TrainCutoff(steps)
                                             /\ end(w) <= ValidationCutoff(steps)},
         test  |-> {w \in Windows(steps) : w >= ValidationCutoff(steps)}]

\* Defect: the files are written over those of the old directory.
RegeneratedInPlace(steps) ==
    /\ dataset.data = 0 \/ dataset.manifest # "none"
    /\ dataset' \in {[dataset EXCEPT !.data = steps, !.splits = Splits(steps)],
                     [NoDataset EXCEPT !.data = steps, !.splits = Splits(steps),
                                       !.manifest = "candidate"]}

\* prepare_output with --replace removes a directory that has a manifest and
\* refuses one that has none; the manifest is written last.
Regenerated(steps) ==
    /\ dataset.data = 0 \/ dataset.manifest # "none"
    /\ dataset' \in {[NoDataset EXCEPT !.data = steps, !.splits = Splits(steps),
                                       !.manifest = manifest] :
                        manifest \in {"none", "candidate"}}

GenerateDataset(steps) ==
    /\ Windows(steps) # {}
    /\ Regenerated(steps)
    /\ UNCHANGED <<forecaster, evidence, readiness, sumo, surrogate, reports, passed>>

\* The operator removes a directory the script refuses to replace.
RemoveUnfinished ==
    /\ \/ /\ dataset.data # 0 /\ dataset.manifest = "none"
          /\ dataset' = NoDataset /\ UNCHANGED <<forecaster, sumo, surrogate>>
       \/ /\ ~ forecaster.reported
          /\ forecaster' = NoForecaster /\ UNCHANGED <<dataset, sumo, surrogate>>
       \/ /\ sumo.data # 0 /\ sumo.manifest = "none"
          /\ sumo' = NoScenarios /\ UNCHANGED <<dataset, forecaster, surrogate>>
       \/ /\ ~ surrogate.reported
          /\ surrogate' = NoSurrogate /\ UNCHANGED <<dataset, forecaster, sumo>>
    /\ UNCHANGED <<evidence, readiness, reports, passed>>

\* validate_phase1_gate: no split is empty, and they are in order.
DatasetValid ==
    /\ dataset.manifest # "none"
    /\ \A s \in {"train", "val", "test"} : dataset.splits[s] # {}

\* --finalize writes the report and then the manifest.
FinalizeP1 ==
    /\ DatasetValid
    /\ \/ dataset' = [dataset EXCEPT !.report = TRUE, !.manifest = "pass"]
       \/ dataset' = [dataset EXCEPT !.report = TRUE]
    /\ passed' = passed \cup {<<"dataset", dataset.data>>}
    /\ UNCHANGED <<forecaster, evidence, readiness, sumo, surrogate, reports>>

\* evaluate_phase2_baseline.
EvaluateBaselines ==
    /\ dataset.manifest = "pass"
    /\ dataset' = [dataset EXCEPT !.baseline = TRUE]
    /\ UNCHANGED <<forecaster, evidence, readiness, sumo, surrogate, reports, passed>>

-----------------------------------------------------------------------------
\* The forecaster.

\* train_gcn_lstm_smoke trains first and replaces the directory after, with the
\* evidence in it; the report, which marks the directory, is written last.
TrainForecaster ==
    /\ dataset.manifest = "pass"
    /\ forecaster.reported
    /\ forecaster' \in {[data |-> dataset.data, reported |-> r] : r \in BOOLEAN}
    /\ evidence' = NoEvidence
    /\ UNCHANGED <<dataset, readiness, sumo, surrogate, reports, passed>>

\* bind_training_run: the manifest's dataset_id, which is the same for every
\* dataset, is compared; hashes are recorded, and verified at once.
BindEvidence ==
    /\ forecaster.data # 0 /\ forecaster.reported
    /\ dataset.manifest = "pass"
    /\ evidence' = [model |-> forecaster.data, dataset |-> dataset.data]
    /\ UNCHANGED <<dataset, forecaster, readiness, sumo, surrogate, reports, passed>>

\* validate_phase2_start evaluates the checkpoint on the dataset as it is now.
ReportReadiness ==
    /\ dataset.manifest = "pass" /\ dataset.baseline
    /\ forecaster.data # 0 /\ forecaster.reported
    /\ readiness' \in {[dataset |-> dataset.data, model |-> forecaster.data, kpi |-> k] :
                          k \in BOOLEAN}
    /\ UNCHANGED <<dataset, forecaster, evidence, sumo, surrogate, reports, passed>>

-----------------------------------------------------------------------------
\* The scenarios and the surrogate.

\* The scenarios and, unless the script dies, their manifest.
ScenariosOf(data) ==
    {[NoScenarios EXCEPT !.data = data, !.manifest = manifest] :
        manifest \in {"none", "written"}}

\* generate_sumo_scenarios scales its volumes to the observations of phase 1, whose
\* manifest it does not read.
GenerateScenarios ==
    /\ dataset.data # 0
    /\ sumo.data = 0 \/ sumo.manifest # "none"
    /\ sumo' \in ScenariosOf(dataset.data)
    /\ UNCHANGED <<dataset, forecaster, evidence, readiness, surrogate, reports, passed>>

\* validate_sumo_scenarios: V/C must agree with the capacities of phase 1, which are
\* those of the network, the same for every length.
ValidateScenarios ==
    /\ sumo.manifest # "none" /\ dataset.data # 0
    /\ \/ sumo' = [sumo EXCEPT !.report = TRUE, !.manifest = "validated"]
       \/ sumo' = [sumo EXCEPT !.report = TRUE]
    /\ passed' = passed \cup {<<"scenarios", sumo.data>>}
    /\ UNCHANGED <<dataset, forecaster, evidence, readiness, surrogate, reports>>

\* resplit_sumo_scenarios assigns the splits the generator assigned, and takes
\* the validation out of the manifest; the report stays.
Resplit ==
    /\ sumo.manifest # "none"
    /\ sumo' = [sumo EXCEPT !.manifest = "written"]
    /\ UNCHANGED <<dataset, forecaster, evidence, readiness, surrogate, reports, passed>>

\* The ensemble trained on data, its report, and its benchmark, which is written
\* last: measured on the machine at hand, or not there.
EnsemblesOf(data) ==
    {[data |-> data, reported |-> TRUE, benchmark |-> b] :
        b \in {"none", "standard", "other", "slow"}}

\* train_surrogate_ensemble removes the old directory before it looks at the
\* validation: a refusal, or a death, leaves a directory without a report.
TrainSurrogate ==
    /\ surrogate.reported
    /\ surrogate' \in
          {[data |-> 0, reported |-> FALSE, benchmark |-> "none"]} \cup
          (IF sumo.manifest = "validated" THEN EnsemblesOf(sumo.data) ELSE {})
    /\ UNCHANGED <<dataset, forecaster, evidence, readiness, sumo, reports, passed>>

\* generate_simulated_surrogate_benchmark over the measured report.
SimulateBenchmark ==
    /\ surrogate.data # 0
    /\ surrogate' = [surrogate EXCEPT !.benchmark = "simulated"]
    /\ UNCHANGED <<dataset, forecaster, evidence, readiness, sumo, reports, passed>>

-----------------------------------------------------------------------------
\* The gates.

\* What validate_provisional_phase2_gate finds no error in.
P2Earned ==
    /\ readiness.kpi /\ sumo.report
    /\ surrogate.data # 0 /\ surrogate.benchmark = "standard"

\* A failed run leaves the earlier report.  With --demo-only another file is
\* written, which no script reads.
PassGateP2 ==
    /\ P2Earned
    /\ reports' = [reports EXCEPT !.p2 = readiness, !.p2surrogate = surrogate.data]
    /\ UNCHANGED <<dataset, forecaster, evidence, readiness, sumo, surrogate, passed>>

\* gate_p3_validator, on whatever corpus it finds.
EvaluateGateP3 ==
    /\ reports' \in {[reports EXCEPT !.p3 = p] : p \in BOOLEAN}
    /\ UNCHANGED <<dataset, forecaster, evidence, readiness, sumo, surrogate, passed>>

\* validate_phase4_start reads the three reports.
StartPhase4 ==
    /\ dataset.report /\ reports.p2.kpi
    /\ reports' = [reports EXCEPT !.phase4 = IF reports.p3 THEN "ready" ELSE "blocked"]
    /\ UNCHANGED <<dataset, forecaster, evidence, readiness, sumo, surrogate, passed>>

GateNext ==
    \/ \E steps \in Lengths : GenerateDataset(steps)
    \/ RemoveUnfinished \/ FinalizeP1 \/ EvaluateBaselines
    \/ TrainForecaster \/ BindEvidence \/ ReportReadiness
    \/ GenerateScenarios \/ ValidateScenarios \/ Resplit \/ TrainSurrogate
    \/ SimulateBenchmark \/ PassGateP2 \/ EvaluateGateP3 \/ StartPhase4

GateSpec == GateInit /\ [][GateNext]_gateVars

-----------------------------------------------------------------------------
\* Nothing is trained on data that did not pass its validation, whatever died
\* before, and phase 4 starts only after such a forecaster met its KPI on such a
\* dataset and such a surrogate was trained.
GatesWereEarned ==
    LET valid(kind, data) == data = 0 \/ <<kind, data>> \in passed
    IN  /\ valid("dataset", forecaster.data) /\ valid("scenarios", surrogate.data)
        /\ \A r \in {evidence, readiness, reports.p2} :
              valid("dataset", r.dataset) /\ valid("dataset", r.model)
        /\ valid("scenarios", reports.p2surrogate)
        /\ reports.phase4 = "ready" => reports.p2.model # 0 /\ reports.p2surrogate # 0

\* No step of the observations is in windows of two splits, and the scaler, fit
\* on the steps before the first cutoff, has seen none of validation or test.
SplitsDoNotLeak ==
    LET steps(split) == UNION {StepsOf(w) : w \in dataset.splits[split]}
    IN  /\ \A s, t \in {"train", "val", "test"} : s # t => steps(s) \cap steps(t) = {}
        /\ \A step \in steps("val") \cup steps("test") : step >= TrainCutoff(dataset.data)
        /\ \A step \in steps("train") : step < TrainCutoff(dataset.data)

=============================================================================
