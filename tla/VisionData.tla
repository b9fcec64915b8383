------------------------------ MODULE VisionData ------------------------------
(***************************************************************************)
(* The scripts that derive training datasets for the vehicle detector: the *)
(* review of a pack of images, and the augmentation of a dataset with the  *)
(* accepted rows of a pack, with label fixes, with other sources, with     *)
(* copies of its own records, or with crops from their images.             *)
(*                                                                         *)
(* A derived dataset holds its base's files under their names, as hard     *)
(* links where the file system has them, and new files named by a kind and *)
(* an index.  The output directory is not emptied: a file that exists is   *)
(* kept by link_or_copy, a label or a crop is written anew, in place, and  *)
(* the manifest is written last.  A label is told by the image it was made *)
(* for, and a crop by the image it was cut from.                           *)
(***************************************************************************)
EXTENDS Naturals, FiniteSets, SequencesExt

CONSTANTS
    Dirs,        \* directories of derived datasets
    Root,        \* the vehicle dataset they all come from
    BaseImage, HeldOut,  \* its images: one of train, one of val
    Pool,        \* images of packs and sources, which may be the root's too
    MaxPacks,    \* bound: review packs that are built
    MaxBuilds    \* bound: derivations

\* Splits share no image.
ASSUME VisionAssumption == BaseImage # HeldOut

VARIABLES
    queue,     \* review_queue.csv of a review pack, or of label-fix candidates
    batch,     \* batch[i]: the reviewer's decision about row i, in review_batch.csv
    files,     \* files[d]: the pairs in directory d, by name
    images,    \* the contents of image files, by when and as what they were written
    labels,    \* the contents of label files, likewise
    manifest,  \* manifest[d]: the records of d, {} before the manifest is there
    packs, builds   \* counters of the bounds

reviewVars  == <<queue, batch, packs>>
datasetVars == <<files, images, labels, manifest, builds>>
visionVars  == <<reviewVars, datasetVars>>

AllDirs == Dirs \cup {Root}
Train == <<"train", 1>>
Val   == <<"val", 1>>

\* The sequences of different images a pack or a source may consist of.
Selections == {s \in SeqOf(Pool, 2) : s # <<>> /\ IsInjective(s)}

\* A record tells its files by name, and where it says they come from.
Record(name, split, image, source) ==
    [name |-> name, split |-> split, sha256 |-> image, source |-> source]

RootRecords == {Record(Train, "train", BaseImage, BaseImage),
                Record(Val, "val", HeldOut, HeldOut)}

VisionInit ==
    /\ queue = <<>> /\ batch = <<>> /\ packs = 0 /\ builds = 0
    /\ files = [d \in AllDirs |->
                  IF d = Root
                  THEN [n \in {Train, Val} |-> [image |-> <<0, n>>, label |-> <<0, n>>]]
                  ELSE <<>>]
    /\ images = [f \in {<<0, n>> : n \in {Train, Val}} |->
                   IF f[2] = Val THEN HeldOut ELSE BaseImage]
    /\ labels = images
    /\ manifest = [d \in AllDirs |-> IF d = Root THEN RootRecords ELSE {}]

-----------------------------------------------------------------------------
\* The review.  No derivation follows the last one of the bound, so neither does a
\* review.
DerivationFollows == builds < MaxBuilds

\* build_error_review_pack and build_label_fix_candidates remove what the output
\* directory held; every row is pending.
BuildPack(selection) ==
    /\ packs < MaxPacks /\ DerivationFollows
    /\ packs' = packs + 1
    /\ queue' = [i \in DOMAIN selection |-> [image |-> selection[i], status |-> "pending"]]
    /\ UNCHANGED <<batch, datasetVars>>

\* select_rows.
OpenRows == {i \in DOMAIN queue : queue[i].status \in {"pending", "needs_fix"}}

\* prepare_review_batch removes the old batch, applied or not, and takes rows that
\* are not decided; the reviewer then decides some of them.
ReviewBatch ==
    /\ DerivationFollows
    /\ \E open \in SUBSET OpenRows :
          /\ open # {}
          /\ batch' \in [open -> {"accepted", "needs_fix"}]
    /\ UNCHANGED <<queue, packs, datasetVars>>

SetStatus(decided) ==
    /\ DerivationFollows
    /\ queue' = [i \in DOMAIN queue |->
                   IF i \in DOMAIN decided
                   THEN [queue[i] EXCEPT !.status = decided[i]] ELSE queue[i]]
    /\ UNCHANGED <<batch, packs, datasetVars>>

\* apply_review_batch finds the rows by their index in the queue as it is now.
ApplyBatch ==
    /\ DOMAIN batch # {} /\ DOMAIN batch \subseteq DOMAIN queue
    /\ SetStatus(batch)

\* --mark-all-accepted of finalize_vision_label_fix_candidates.
MarkAllAccepted ==
    /\ queue # <<>>
    /\ SetStatus([i \in DOMAIN queue |-> "accepted"])

-----------------------------------------------------------------------------
\* The derivations.

Names(d) == {r.name : r \in manifest[d]}

\* Defect: nothing is compared with the images of the base.
NothingSeen(base) == {}

\* seen_hashes of copy_base_dataset.
SeenHashes(base) == {r.sha256 : r \in manifest[base]}

Paired(image, label) == [image |-> image, label |-> label]

\* The new files of a derivation: a function from names to what they are made of.
\* Rows of a review are numbered with the rows that are skipped.
NumberedByRow(kind, rows, seen) ==
    [n \in {<<kind, i>> : i \in {k \in DOMAIN rows : rows[k] \notin seen}} |->
        Paired(rows[n[2]], rows[n[2]])]

\* Images of a source are numbered without those that are skipped.
NumberedByKept(kind, source, seen) ==
    LET kept    == {i \in DOMAIN source : source[i] \notin seen}
        rank(i) == Cardinality({k \in kept : k <= i})
        image(n) == source[CHOOSE i \in kept : n = <<kind, rank(i)>>]
    IN  [n \in {<<kind, rank(i)>> : i \in kept} |-> Paired(image(n), image(n))]

\* f, and g where f has nothing.
Over(f, g) ==
    [x \in DOMAIN f \cup DOMAIN g |-> IF x \in DOMAIN f THEN f[x] ELSE g[x]]

\* Where this derivation writes the file of name n.
Place(n) == <<builds + 1, n>>

\* The pairs of out after link_or_copy of base's files from[n] to n, unless n is
\* there, and the pairs of new.
PairsOf(base, out, from, new, linked) ==
    [n \in DOMAIN files[out] \cup DOMAIN from \cup DOMAIN new |->
        IF n \in DOMAIN files[out] THEN files[out][n]
        ELSE IF n \in DOMAIN from /\ linked THEN files[base][from[n]]
        ELSE Paired(Place(n), Place(n))]

\* What the files of out that are copies hold, if contents is what all files hold.
CopiesOf(base, out, from, field, contents, linked) ==
    [f \in {Place(n) : n \in IF linked THEN {} ELSE DOMAIN from \ DOMAIN files[out]} |->
        contents[files[base][from[f[2]]][field]]]

\* What is written in the files of names.
Written(pairs, names, new, field) ==
    [f \in {pairs[n][field] : n \in names} |->
        new[CHOOSE n \in names : pairs[n][field] = f][field]]

Same(base) == [n \in Names(base) |-> n]

\* The files that a derivation writes.  Crops are saved over an image that is there,
\* others are not.
Derive(base, out, from, new, saved) ==
    \E linked \in BOOLEAN :
        LET pairs == PairsOf(base, out, from, new, linked)
            fresh == IF saved THEN DOMAIN new
                     ELSE DOMAIN new \ (DOMAIN files[out] \cup DOMAIN from)
        IN  /\ files' = [files EXCEPT ![out] = pairs]
            /\ images' = Over(Written(pairs, fresh, new, "image"),
                              Over(CopiesOf(base, out, from, "image", images, linked), images))
            /\ labels' = Over(Written(pairs, DOMAIN new, new, "label"),
                              Over(CopiesOf(base, out, from, "label", labels, linked), labels))

\* The manifest is written after the files, unless the script dies before.
WriteManifest(out, records) ==
    \/ manifest' = [manifest EXCEPT ![out] = records]
    \/ UNCHANGED manifest

\* sha256_file of an image in out as it is now.
HashIn(out, name) == images'[files'[out][name].image]

\* copy_base_dataset, and the new pairs, all of them of train.
Augment(base, out, new, saved) ==
    /\ Derive(base, out, Same(base), new, saved)
    /\ WriteManifest(out, manifest[base] \cup
          {Record(n, "train", HashIn(out, n), new[n].image) : n \in DOMAIN new})

Derivation(base, out) ==
    /\ DerivationFollows
    /\ builds' = builds + 1
    /\ manifest[base] # {} /\ base # out /\ out # Root
    /\ UNCHANGED reviewVars

\* The accepted rows of the queue, under names of a kind.
AddReviewed(kind, base, out) ==
    LET rows == SelectSeq(queue, LAMBDA row : row.status = "accepted")
    IN  /\ rows # <<>>
        /\ Derivation(base, out)
        /\ Augment(base, out,
                   NumberedByRow(kind, [i \in DOMAIN rows |-> rows[i].image],
                                 SeenHashes(base)), FALSE)

AugmentWithReviewPack(base, out) == AddReviewed("review_src", base, out)

FinalizeCandidates(base, out) == AddReviewed("label_fix_candidate", base, out)

\* The images of a source, whose labels are remapped or predicted.
AddSource(kind, base, out, source) ==
    /\ Derivation(base, out)
    /\ Augment(base, out, NumberedByKept(kind, source, SeenHashes(base)), FALSE)

AugmentWithYoloSource(base, out, source) == AddSource("vehicle_src", base, out, source)

AugmentWithMotorcycle(base, out, source) == AddSource("moto_ann", base, out, source)

\* augment_with_object_crops: a box of a train record.
AugmentWithCrop(base, out, record) ==
    /\ Derivation(base, out)
    /\ Augment(base, out,
               [n \in {<<"object_crop", 1>>} |->
                  Paired(images[files[base][record.name].image],
                         labels[files[base][record.name].label])], TRUE)

\* A train record once more, under a name of a kind.  All hashes are those of the
\* copies.
Replay(kind, base, out, record) ==
    /\ Derivation(base, out)
    /\ Derive(base, out, Over([n \in {<<kind, 1>>} |-> record.name], Same(base)),
              <<>>, FALSE)
    /\ WriteManifest(out,
          {[r EXCEPT !.sha256 = HashIn(out, r.name)] :
             r \in manifest[base] \cup {[record EXCEPT !.name = <<kind, 1>>]}})

\* rebalance_dataset: a record with a box of the class that is boosted.
Rebalance(base, out, record) == Replay("rebalance", base, out, record)

\* rebalance_from_errors: a record the detector's errors were found on.
ReplayErrors(base, out, record) == Replay("hardcase", base, out, record)

\* What a script may copy: the held-out splits stay as they are.
TrainRecords(base) == {r \in manifest[base] : r.split = "train"}

-----------------------------------------------------------------------------
\* cleanup_targets deletes a directory, or moves it away; KEEP_PATHS names the
\* root.  A file with a link in another directory stays.
Cleanup(d) ==
    /\ files[d] # <<>>
    /\ files' = [files EXCEPT ![d] = <<>>]
    /\ manifest' = [manifest EXCEPT ![d] = {}]
    /\ LET linked(field) ==
               UNION {{files[e][n][field] : n \in DOMAIN files[e]} : e \in AllDirs \ {d}}
       IN  /\ images' = Restrict(images, linked("image"))
           /\ labels' = Restrict(labels, linked("label"))
    /\ UNCHANGED <<reviewVars, builds>>

VisionNext ==
    \/ \E selection \in Selections : BuildPack(selection)
    \/ ReviewBatch \/ ApplyBatch \/ MarkAllAccepted
    \/ \E d \in Dirs : Cleanup(d)
    \/ \E base \in AllDirs, out \in Dirs :
          \/ AugmentWithReviewPack(base, out) \/ FinalizeCandidates(base, out)
          \/ \E source \in Selections :
                \/ AugmentWithYoloSource(base, out, source)
                \/ AugmentWithMotorcycle(base, out, source)
          \/ \E record \in TrainRecords(base) :
                \/ AugmentWithCrop(base, out, record)
                \/ Rebalance(base, out, record) \/ ReplayErrors(base, out, record)

VisionSpec == VisionInit /\ [][VisionNext]_visionVars

-----------------------------------------------------------------------------
\* The held-out images stay what they were, image and label, in every dataset
\* that is derived, and none of them is trained on.
HeldOutStaysHeldOut ==
    \A d \in AllDirs : manifest[d] # {} =>
        /\ Val \in Names(d)
        /\ images[files[d][Val].image] = HeldOut /\ labels[files[d][Val].label] = HeldOut
        /\ \A r \in manifest[d] :
              r.split = "train" => images[files[d][r.name].image] # HeldOut

\* A record has an image and a label of its own: those it says it was made from.
RecordsHaveOwnFiles ==
    \A d \in AllDirs : \A r \in manifest[d] :
        /\ images[files[d][r.name].image] = r.source
        /\ labels[files[d][r.name].label] = r.source

=============================================================================
