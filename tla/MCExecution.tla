----------------------------- MODULE MCExecution -----------------------------
(***************************************************************************)
(* The execution of jobs, and the tools that run on one machine, side by   *)
(* side: they share nothing, so a behaviour is of one of them, and the     *)
(* others keep their initial state.  The execution: one job, two workers,  *)
(* one API.  The detector's release: three trainings.  The Linear board:   *)
(* two items that name each other, one of them with a label.  Hermes: two  *)
(* tickets, and packets for src/a.py, src/b.py or src/?.py.                *)
(* The detector's scores: two images of 6 x 6 pixels, two classes, boxes   *)
(* that overlap by nothing, a third, a half (the threshold) or wholly; one *)
(* label reaches over the edge of its image, one label and one prediction  *)
(* are too small for the evaluation.                                       *)
(***************************************************************************)
EXTENDS MCJobExecution, MCHermesRuns, DetectorRelease, DetectionScores, LinearBoard

CONSTANTS s1, s2, l1

Naming == s1 :> {s2} @@ s2 :> {s1}
Labelling == s1 :> {l1} @@ s2 :> {}
Staging == [s \in Seeds |-> "Backlog"]

Box(a, b, c, d) == [x1 |-> a, y1 |-> b, x2 |-> c, y2 |-> d]

Label(i, c, b) == [image |-> i, class |-> c, box |-> b]

Detection(i, c, b, s) == [image |-> i, class |-> c, box |-> b, confidence |-> s]

Whole == Box(0, 0, 4, 2)
Half  == Box(0, 0, 2, 2)
Right == Box(2, 0, 6, 2)
Small == Box(0, 0, 1, 1)
Over  == Box(4, 0, 8, 2)

SomeLabels ==
    {Label(1, 1, Whole), Label(1, 1, Half), Label(1, 2, Right), Label(1, 1, Over),
     Label(2, 1, Whole), Label(1, 1, Small)}

SomeDetections ==
    {Detection(1, 1, Whole, 2), Detection(1, 1, Half, 1), Detection(1, 2, Whole, 1),
     Detection(1, 1, Right, 2), Detection(2, 1, Half, 2), Detection(2, 1, Right, 1),
     Detection(1, 1, Small, 2)}

AtHalf == <<1, 2>>

CONSTANT Parts     \* the parts that a run looks at

VARIABLE part

toolVars == <<releaseVars, scoreVars, linearVars, hermesVars>>

PartsInit ==
    /\ ExecInit /\ ReleaseInit /\ ScoreInit /\ LinearInit /\ HermesInit
    /\ part \in Parts
    /\ part # "scores" => targets = <<>> /\ predictions = <<>>

PartsNext ==
    /\ \/ /\ part = "jobs" /\ ExecNext
          /\ UNCHANGED toolVars
       \/ /\ part = "detector" /\ ReleaseNext
          /\ UNCHANGED <<allVars, scoreVars, linearVars, hermesVars>>
       \/ /\ part = "scores" /\ ScoreNext
          /\ UNCHANGED <<allVars, releaseVars, linearVars, hermesVars>>
       \/ /\ part = "board" /\ LinearNext
          /\ UNCHANGED <<allVars, releaseVars, scoreVars, hermesVars>>
       \/ /\ part = "hermes" /\ HermesNext
          /\ UNCHANGED <<allVars, releaseVars, scoreVars, linearVars>>
    /\ UNCHANGED part

PartsSpec == PartsInit /\ [][PartsNext]_<<part, allVars, toolVars>>

\* For a run that looks at the jobs alone.
FairJobsSpec == PartsSpec /\ ExecFairness

PartsSymmetry == Symmetry \cup Permutations(Tickets)

=============================================================================
