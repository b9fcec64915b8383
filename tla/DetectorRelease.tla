---------------------------- MODULE DetectorRelease ----------------------------
(***************************************************************************)
(* From a training run of the vehicle detector to the detector the camera  *)
(* pipeline loads: train_vision_model, promote_vision_model, and the loader *)
(* of the official artifact.  Every script may die between two writes; a   *)
(* run that was cut short may be resumed in its directory.  Weights are    *)
(* told by a number, 0 for none; a hash stands for what was hashed.        *)
(***************************************************************************)
EXTENDS Naturals, Sequences

CONSTANT MaxTrainings    \* bound: weights that are ever written

ASSUME MaxTrainingsAssumption == MaxTrainings \in Nat

VARIABLES
    run,       \* the run directory: best.pt and stwi_model_artifact.json
    official,  \* the official directory: weights and model_artifact.json
    measured,  \* measured[w]: what w achieved, and the data it was trained on
    released   \* history: weights whose promotion passed its checks

releaseVars == <<run, official, measured, released>>

NoArtifact == [weights |-> 0, map50 |-> "none", privacy |-> "none", status |-> "none"]

Reviewed == "visual_spot_reviewed_agent"

ReleaseInit ==
    /\ run = [weights |-> 0, artifact |-> NoArtifact]
    /\ official = [weights |-> 0, artifact |-> NoArtifact]
    /\ measured = <<>>
    /\ released = {}

\* A training writes weights, in a new run directory or, resumed, in the old one,
\* and then its artifact with their hash.  mAP50 meets the MVP gate ("high") or a
\* threshold the operator has lowered ("middle"), or is not a number.
TrainDetector(map50, privacy, resumed, finished) ==
    /\ Len(measured) < MaxTrainings
    /\ resumed => run.weights # 0
    /\ measured' = Append(measured, [map50 |-> map50, privacy |-> privacy])
    /\ LET w   == Len(measured')
           old == IF resumed THEN run.artifact ELSE NoArtifact
       IN  run' = [weights |-> w,
                   artifact |-> IF finished
                                THEN [weights |-> w, map50 |-> map50, privacy |-> privacy,
                                      status |-> "candidate"]
                                ELSE old]
    /\ UNCHANGED <<official, released>>

\* validate_artifact_for_promotion; map50 < min_map50 is false of a NaN.
Promotable(artifact, weights, lowered) ==
    /\ artifact.privacy = Reviewed
    /\ weights # 0 /\ artifact.weights = weights
    /\ artifact.map50 \in {"high", "nan"} \cup (IF lowered THEN {"middle"} ELSE {})

\* promote_artifact copies the weights over those of the last promotion, whose
\* file has the same name, and then writes the manifest.
Promote(lowered, finished) ==
    /\ Promotable(run.artifact, run.weights, lowered)
    /\ official' = [weights  |-> run.weights,
                    artifact |-> IF finished
                                 THEN [run.artifact EXCEPT !.weights = run.weights,
                                                           !.status = "official_mvp_primary"]
                                 ELSE official.artifact]
    /\ released' = IF finished THEN released \cup {run.weights} ELSE released
    /\ UNCHANGED <<run, measured>>

\* Defect: the loader does not compute the hash of the weights.
LoadableUnhashed(dir) ==
    /\ dir.artifact.privacy = Reviewed
    /\ dir.artifact.status = "official_mvp_primary"
    /\ dir.artifact.map50 \in {"high", "nan"}
    /\ dir.weights # 0

\* LocalVisionModelArtifact.validate_for_mvp, with the gate of the MVP.
Loadable(dir) ==
    /\ dir.artifact.privacy = Reviewed
    /\ dir.artifact.status = "official_mvp_primary"
    /\ dir.artifact.map50 \in {"high", "nan"}
    /\ dir.weights # 0 /\ dir.artifact.weights = dir.weights

ReleaseNext ==
    \/ \E map50 \in {"high", "middle", "low", "nan"}, privacy \in {Reviewed, "needs_review"},
          resumed, finished \in BOOLEAN : TrainDetector(map50, privacy, resumed, finished)
    \/ \E lowered, finished \in BOOLEAN : Promote(lowered, finished)

ReleaseSpec == ReleaseInit /\ [][ReleaseNext]_releaseVars

-----------------------------------------------------------------------------
\* The camera pipeline runs a detector only if exactly its weights passed a
\* promotion, it was trained on reviewed data, and its mAP50 is not a number below
\* the gate, whatever died and whichever threshold the operator chose.  That it has
\* an mAP50 at all is not promised: see LoadedMeetsGate.
LoadedWasReleased ==
    Loadable(official) =>
        /\ official.weights \in released
        /\ measured[official.weights].privacy = Reviewed
        /\ measured[official.weights].map50 \notin {"middle", "low"}

\* The gate of the model registry, mAP50 >= 0.85, for what is loaded.
LoadedMeetsGate == Loadable(official) => measured[official.weights].map50 = "high"

=============================================================================
