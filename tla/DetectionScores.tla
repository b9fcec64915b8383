---------------------------- MODULE DetectionScores ----------------------------
(***************************************************************************)
(* How the scripts compare the labels of a dataset with the predictions of *)
(* a detector, each in a way of its own.  A review pack asks of a label,   *)
(* or of a prediction, whether any box of its class on the other side      *)
(* overlaps it enough.  The error analysis pairs labels and predictions    *)
(* one to one, the best overlap first, whatever their classes.  The        *)
(* evaluation within a region goes through the predictions of a class, the *)
(* most confident first, and lets each take the free label it overlaps     *)
(* best.                                                                   *)
(*                                                                         *)
(* Lengths are pixels, a fraction is a pair of numerator and denominator.  *)
(* The scripts are run with the same threshold and confidence, and without *)
(* class aliases; they share nothing else, so one runs after the other.    *)
(***************************************************************************)
EXTENDS Integers, Sequences, FiniteSetsExt

CONSTANTS
    Labelled,    \* labels a dataset may have: image, class, and box as in the file
    Detected,    \* what the model may predict: image, class, box and confidence
    Side,        \* width and height of an image
    Threshold,   \* --iou-threshold
    MinArea,     \* --min-box-area
    Scale,       \* a precision is a whole number of 1/Scale
    MaxLabels,   \* bound: labels of a dataset
    MaxDetected  \* bound: predictions

ASSUME ThresholdAssumption == Threshold \in (Nat \ {0}) \X (Nat \ {0})

ASSUME BoxAssumption ==
    /\ {MaxLabels, MaxDetected} \subseteq Nat /\ Side \in Int
    /\ \A d \in Labelled \cup Detected :
          {d.box.x1, d.box.y1, d.box.x2, d.box.y2} \subseteq Int

ASSUME ScaleAssumption ==
    /\ Scale \in Nat \ {0}
    /\ \A k \in 1..MaxDetected : Scale % k = 0

VARIABLES
    targets,      \* the labels, in the order of the images
    predictions,  \* the predictions, likewise
    remaining,    \* candidates greedy_match has yet to consider
    matches,      \* its matches
    ranked,       \* of each class, the predictions evaluate_class_ap50 has
                  \* considered, in its order
    taken,        \* the labels they took: pairs of label and prediction
    summed,       \* of each class, how many average_precision has summed
    highest,      \* the greatest precision among these
    area          \* the sum

apVars    == <<summed, highest, area>>
scoreVars == <<targets, predictions, remaining, matches, ranked, taken, apVars>>

-----------------------------------------------------------------------------
\* Boxes.

Area(b) == Max({0, b.x2 - b.x1}) * Max({0, b.y2 - b.y1})

\* yolo_xywh_to_xyxy: a label may reach over the edge of its image.
Clipped(b) == [x1 |-> Max({0, b.x1}), y1 |-> Max({0, b.y1}),
               x2 |-> Min({Side, b.x2}), y2 |-> Min({Side, b.y2})]

\* box_iou.
Iou(a, b) ==
    LET common == Area([x1 |-> Max({a.x1, b.x1}), y1 |-> Max({a.y1, b.y1}),
                        x2 |-> Min({a.x2, b.x2}), y2 |-> Min({a.y2, b.y2})])
        union  == Area(a) + Area(b) - common
    IN  IF union <= 0 THEN <<0, 1>> ELSE <<common, union>>

Below(f, g) == f[1] * g[2] < g[1] * f[2]

\* load_label_boxes: the area is that of the label, not of the clipped box.
Target(l) == [image |-> l.image, class |-> l.class,
              box |-> Clipped(l.box), area |-> Area(l.box)]

\* iter_source_images: the images come in one order, each with a label file.
ByImage(s) == \A i, k \in DOMAIN s : i < k => s[i].image <= s[k].image

Selected(items, n) == {s \in UNION {[1..k -> items] : k \in 0..n} : ByImage(s)}

Labels      == DOMAIN targets
Predictions == DOMAIN predictions

Overlap(t, p) == Iou(targets[t].box, predictions[p].box)

Overlaps(t, p) ==
    /\ targets[t].image = predictions[p].image
    /\ ~ Below(Overlap(t, p), Threshold)

SameClass(t, p) == targets[t].class = predictions[p].class

-----------------------------------------------------------------------------
\* build_vision_error_review_pack.

\* The labels and predictions of a class are compared within an image.
Alike(t, p) == targets[t].image = predictions[p].image /\ SameClass(t, p)

\* unmatched_boxes: a pack of false negatives.
Missed(t) == \A p \in Predictions : Alike(t, p) => Below(Overlap(t, p), Threshold)

\* unmatched_predictions: a pack of false positives.
Unfounded(p) == \A t \in Labels : Alike(t, p) => Below(Overlap(t, p), Threshold)

-----------------------------------------------------------------------------
\* analyze_vision_validation_errors.

Candidates == {c \in Labels \X Predictions : Overlaps(c[1], c[2])}

\* Tuples of overlap and indices, sorted in reverse.
After(c, d) == c[1] > d[1] \/ (c[1] = d[1] /\ c[2] > d[2])

Before(c, d) ==
    LET one == Overlap(c[1], c[2])
        two == Overlap(d[1], d[2])
    IN  ~ Below(one, two) /\ (Below(two, one) \/ After(c, d))

Image(c) == targets[c[1]].image

Share(c, d) == c[1] = d[1] \/ c[2] = d[2]

\* One turn of greedy_match for the image the analysis has come to.
Consider(c) ==
    /\ c \in remaining
    /\ \A d \in remaining \ {c} :
          IF Image(c) = Image(d) THEN Before(c, d) ELSE Image(c) < Image(d)
    /\ remaining' = remaining \ {c}
    /\ matches' = IF \E m \in matches : Share(m, c) THEN matches ELSE matches \cup {c}
    /\ UNCHANGED <<targets, predictions, ranked, taken, apVars>>

Analysed == remaining = {}

\* analyze_image: a match of two classes is an error of both.
Recalled(t) == \E p \in Predictions : <<t, p>> \in matches /\ SameClass(t, p)
Correct(p)  == \E t \in Labels : <<t, p>> \in matches /\ SameClass(t, p)

-----------------------------------------------------------------------------
\* evaluate_vision_roi_ap.

\* filter_targets and filter_predictions.
KeptLabels      == {t \in Labels : targets[t].area >= MinArea}
KeptPredictions == {p \in Predictions : Area(predictions[p].box) >= MinArea}

\* The classes one after another, and a stable sort by confidence.
Ahead(p, q) ==
    LET one == predictions[p]
        two == predictions[q]
    IN  \/ one.class < two.class
        \/ one.class = two.class /\ one.confidence > two.confidence
        \/ one.class = two.class /\ one.confidence = two.confidence /\ p < q

Classes == {d.class : d \in Labelled \cup Detected}

ClassOf(p) == predictions[p].class

Unranked ==
    {p \in KeptPredictions : \A k \in 1..Len(ranked[ClassOf(p)]) : ranked[ClassOf(p)][k] # p}

\* Defect: a label may be taken by several predictions.
OfImage(p) ==
    {t \in KeptLabels : Alike(t, p)}

\* The labels a prediction may take.
Free(p) ==
    {t \in KeptLabels : Alike(t, p) /\ \A m \in taken : m[1] # t}

\* The first of the free labels with the greatest overlap.
Best(p) ==
    {t \in Free(p) : \A u \in Free(p) : u # t =>
        \/ Below(Overlap(u, p), Overlap(t, p))
        \/ ~ Below(Overlap(t, p), Overlap(u, p)) /\ t < u}

\* One turn of the loop of evaluate_class_ap50.
Rank(p) ==
    /\ Analysed
    /\ p \in Unranked /\ \A q \in Unranked \ {p} : Ahead(p, q)
    /\ ranked' = [ranked EXCEPT ![ClassOf(p)] = Append(@, p)]
    /\ taken' = taken \cup {<<t, p>> : t \in {u \in Best(p) : Overlaps(u, p)}}
    /\ UNCHANGED <<targets, predictions, remaining, matches, apVars>>

Evaluated == Analysed /\ Unranked = {}

IsHit(p) == \E m \in taken : m[2] = p

Hits(class, k) == {i \in 1..k : IsHit(ranked[class][i])}

\* Precision after k predictions, times Scale.
Precision(class, k) == (Cardinality(Hits(class, k)) * Scale) \div k

\* How many predictions of a class are to be summed.
Unsummed(class) == Len(ranked[class]) - summed[class]

\* average_precision, from the last prediction to the first: the greatest precision
\* from there on counts where the recall grows, which is by one label at each hit. The
\* area is that of the code times Scale and the number of labels.
Sum(class) ==
    /\ Evaluated
    /\ Unsummed(class) > 0 /\ \A c \in Classes : c < class => Unsummed(c) = 0
    /\ highest' = [highest EXCEPT
                      ![class] = Max({@, Precision(class, Unsummed(class))})]
    /\ area' = IF IsHit(ranked[class][Unsummed(class)])
               THEN [area EXCEPT ![class] = @ + highest'[class]]
               ELSE area
    /\ summed' = [summed EXCEPT ![class] = @ + 1]
    /\ UNCHANGED <<targets, predictions, remaining, matches, ranked, taken>>

Scored == Evaluated /\ \A class \in Classes : Unsummed(class) = 0

LabelsOf(class) == {t \in KeptLabels : targets[t].class = class}

-----------------------------------------------------------------------------
ScoreInit ==
    /\ targets \in {[i \in DOMAIN s |-> Target(s[i])] : s \in Selected(Labelled, MaxLabels)}
    /\ predictions \in Selected(Detected, MaxDetected)
    /\ remaining = Candidates /\ matches = {}
    /\ ranked = [class \in Classes |-> <<>>] /\ taken = {}
    /\ summed = [class \in Classes |-> 0]
    /\ highest = summed /\ area = summed

ScoreNext ==
    \/ \E c \in remaining : Consider(c)
    \/ \E p \in Predictions : Rank(p)
    \/ \E class \in Classes : Sum(class)

ScoreSpec == ScoreInit /\ [][ScoreNext]_scoreVars

-----------------------------------------------------------------------------
\* The label and the prediction of a match are used up, and overlap no less than these.
UsedBetter(t, p) ==
    \E m \in matches : Share(m, <<t, p>>) /\ ~ Below(Overlap(m[1], m[2]), Overlap(t, p))

\* The review packs and the analysis agree on the errors: a label or a prediction that
\* nothing of its class covers counts as one in the analysis too, and of one that is
\* covered and counts all the same the analysis can say why: the box that covers it, or
\* it itself, went into a match that overlaps no less.
ErrorsAreExplained ==
    Analysed =>
        /\ \A t \in Labels :
              /\ Missed(t) => ~ Recalled(t)
              /\ ~ Missed(t) /\ ~ Recalled(t) =>
                    \E p \in Predictions : Alike(t, p) /\ Overlaps(t, p) /\ UsedBetter(t, p)
        /\ \A p \in Predictions :
              /\ Unfounded(p) => ~ Correct(p)
              /\ ~ Unfounded(p) /\ ~ Correct(p) =>
                    \E t \in Labels : Alike(t, p) /\ Overlaps(t, p) /\ UsedBetter(t, p)

\* AP50 is at most 1, and 1 only for a class whose labels were all taken, before any
\* prediction of it that took none: low confidence alone buys no score.
FullScoreIsEarned ==
    Scored =>
        \A class \in {targets[t].class : t \in KeptLabels} :
            LET full == Cardinality(LabelsOf(class)) * Scale IN
            /\ area[class] <= full
            /\ area[class] = full <=>
                  /\ \A t \in LabelsOf(class) : \E m \in taken : m[1] = t
                  /\ \A k \in 1..Cardinality(LabelsOf(class)) :
                        IsHit(ranked[class][k])

=============================================================================
