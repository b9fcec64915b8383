----------------------------- MODULE HermesRuns -----------------------------
(***************************************************************************)
(* Runs of the external executor Hermes on the packets of tickets: the     *)
(* batch dispatcher, which runs up to two bridges at a time; the bridge,   *)
(* which compares what the executor changed in the ticket's workspace with *)
(* the files its packet allows; and the cleanup of old workspaces.  The    *)
(* workspaces of tickets are separate.  A file is as git status names it:  *)
(* the executor neither commits nor renames, as its prompt asks.           *)
(*                                                                         *)
(* A packet allows patterns.  The dispatcher takes all but * and ? in them *)
(* for letters of a path, the bridge matches files with fnmatch, for which *)
(* [ab] is a class.                                                        *)
(***************************************************************************)
EXTENDS Naturals, FiniteSets

CONSTANTS
    Tickets,
    Files,
    Patterns,     \* what a line under Allowed Files may say
    Matched,      \* Matched[p]: the files that fnmatchcase finds p to match
    Wild,         \* patterns with * or ?
    Bracketed,    \* patterns with [...]
    Related,      \* pairs of patterns that are, letter for letter, one path, or of which
                  \* one is the path of a directory above the other
    Packets,      \* sets of patterns that a packet may allow
    MaxPackets    \* bound: packets that are written

\* A pattern without *, ? and [...] matches at most the file whose path it is.
ASSUME PatternAssumption ==
    /\ Matched \in [Patterns -> SUBSET Files]
    /\ Packets \subseteq (SUBSET Patterns) \ {{}}
    /\ \A p, q \in Patterns \ (Wild \cup Bracketed) :
          Matched[p] \cap Matched[q] # {} => <<p, q>> \in Related

VARIABLES
    packet,      \* packet[t]: the patterns that the packet of t allows, {} if it is not valid
    changed,     \* changed[t]: what git status names in t's workspace
    there,       \* tickets whose workspace exists
    checked,     \* checked[t]: the packet with which t is in the last batch, {} if it is not
    bridge,      \* bridge[t]: the bridge of t, "none" when its result is not for review
    candidates,  \* workspaces a cleanup has found old and clean
    packets      \* counter of the bound

hermesVars == <<packet, changed, there, checked, bridge, candidates, packets>>

MaxConcurrentWorkers == 2

NoRun == [state |-> "none", allowed |-> {}, clean |-> TRUE, files |-> {}]

HermesInit ==
    /\ packet = [t \in Tickets |-> {}]
    /\ changed = [t \in Tickets |-> {}]
    /\ there = Tickets
    /\ checked = [t \in Tickets |-> {}]
    /\ bridge = [t \in Tickets |-> NoRun]
    /\ candidates = {} /\ packets = 0

Active(t) == bridge[t].state \in {"queued", "running"}

LastBatch == {t \in Tickets : checked[t] # {}}

\* The coordinator writes a packet, in which validate_packet finds no error, at any
\* time: a bridge that is queued will read the new one.
WritePacket(t) ==
    /\ packets < MaxPackets
    /\ packets' = packets + 1
    /\ \E allowed \in Packets : packet' = [packet EXCEPT ![t] = allowed]
    /\ UNCHANGED <<changed, there, checked, bridge, candidates>>

-----------------------------------------------------------------------------
\* hermes_batch_dispatch.

\* Defect: two jobs may allow the same file.
NoOverlap(p, q) == FALSE

\* scopes_overlap, on paths with / for \ and none at the end.
ScopesOverlap(p, q) ==
    \/ (p \cup q) \cap Wild # {}
    \/ \E left \in p, right \in q : <<left, right>> \in Related

\* main with --execute, one batch at a time: nothing runs unless every job is valid
\* and no two overlap.  Of validate_job that which may change: the packet, and a
\* workspace that is there and clean.  The jobs have the label and the approval that
\* are asked for; with one worker, where two are allowed, they only wait for each
\* other.
ExecuteBatch(jobs) ==
    /\ jobs # {} /\ \A t \in jobs \cup LastBatch : ~Active(t)
    /\ \A t \in jobs : packet[t] # {} /\ t \in there /\ changed[t] = {}
    /\ \A t, u \in jobs : t # u => ~ScopesOverlap(packet[t], packet[u])
    /\ checked' = [t \in Tickets |-> IF t \in jobs THEN packet[t] ELSE {}]
    /\ bridge' = [t \in Tickets |-> IF t \in jobs THEN [NoRun EXCEPT !.state = "queued"]
                                 ELSE bridge[t]]
    /\ UNCHANGED <<packet, changed, there, candidates, packets>>

-----------------------------------------------------------------------------
\* hermes_runner_bridge.

\* The files for which path_is_allowed.
FilesOf(allowed) == UNION {Matched[p] : p \in allowed}

OutOfScope(t, allowed) == changed[t] \ FilesOf(allowed)

\* The checks of main before it runs the executor.
Ready(t, resumeDirty) ==
    /\ t \in there /\ packet[t] # {}
    /\ OutOfScope(t, packet[t]) = {}
    /\ changed[t] # {} => resumeDirty

\* main up to run_command; it reads the packet again.  It is refused, or ends as
\* "prepared" without a runner.
StartBridge(t, resumeDirty, runnerFound) ==
    bridge' = [bridge EXCEPT ![t] =
              IF Ready(t, resumeDirty) /\ runnerFound
              THEN [state |-> "running", allowed |-> packet[t],
                    clean |-> changed[t] = {}, files |-> {}]
              ELSE NoRun]

\* run_job on a thread of the pool.
StartJob(t, runnerFound) ==
    /\ bridge[t].state = "queued"
    /\ Cardinality({u \in LastBatch : bridge[u].state = "running"}) < MaxConcurrentWorkers
    /\ StartBridge(t, FALSE, runnerFound)
    /\ UNCHANGED <<packet, changed, there, checked, candidates, packets>>

\* The coordinator runs the bridge itself, for a rework too; the ticket is then no
\* longer one of the batch.
RunBridge(t, resumeDirty, runnerFound) ==
    /\ ~Active(t)
    /\ StartBridge(t, resumeDirty, runnerFound)
    /\ checked' = [checked EXCEPT ![t] = {}]
    /\ UNCHANGED <<packet, changed, there, candidates, packets>>

\* The executor, or a person at work in a workspace nobody runs in, changes a file or
\* takes the change back.
Change(t) ==
    /\ t \in there
    /\ \E f \in Files :
          changed' = [changed EXCEPT ![t] = IF f \in @ THEN @ \ {f} ELSE @ \cup {f}]
    /\ UNCHANGED <<packet, there, checked, bridge, candidates, packets>>

\* state "human_review"; it is "runner_failed", "scope_violation" or
\* "invalid_report" otherwise.
ForReview(exitCode, outside, complete) == exitCode = 0 /\ outside = {} /\ complete

\* main after run_command; git status raises in a workspace that is gone.
FinishBridge(t, exitCode, complete) ==
    /\ bridge[t].state = "running"
    /\ bridge' = [bridge EXCEPT ![t] =
                 IF t \in there
                    /\ ForReview(exitCode, OutOfScope(t, bridge[t].allowed), complete)
                 THEN [@ EXCEPT !.state = "human_review", !.files = changed[t]]
                 ELSE NoRun]
    /\ UNCHANGED <<packet, changed, there, checked, candidates, packets>>

-----------------------------------------------------------------------------
\* symphony_workspace_cleanup.

\* collect_workspaces, when the workspaces in old are not protected and have not
\* been modified for long.
InspectWorkspaces(old) ==
    /\ candidates = {}
    /\ candidates' = {t \in old \cap there : changed[t] = {}}
    /\ candidates' # {}
    /\ UNCHANGED <<packet, changed, there, checked, bridge, packets>>

\* delete_candidates: one of them after another, as it was inspected.
DeleteWorkspace(t) ==
    /\ t \in candidates
    /\ candidates' = candidates \ {t}
    /\ there' = there \ {t}
    /\ changed' = [changed EXCEPT ![t] = {}]
    /\ UNCHANGED <<packet, checked, bridge, packets>>

HermesNext ==
    \/ \E jobs \in SUBSET Tickets : ExecuteBatch(jobs)
    \/ \E old \in SUBSET Tickets : InspectWorkspaces(old)
    \/ \E t \in Tickets :
          \/ WritePacket(t) \/ Change(t) \/ DeleteWorkspace(t)
          \/ \E runnerFound \in BOOLEAN :
                \/ StartJob(t, runnerFound)
                \/ \E resumeDirty \in BOOLEAN : RunBridge(t, resumeDirty, runnerFound)
          \/ \E exitCode \in 0 .. 1, complete \in BOOLEAN : FinishBridge(t, exitCode, complete)

HermesSpec == HermesInit /\ [][HermesNext]_hermesVars

-----------------------------------------------------------------------------
Presented == {t \in Tickets : bridge[t].state = "human_review"}

\* What bridges present for review is within the packets they read, whoever works in
\* the workspaces or cleans them up.  Those of one batch started on clean workspaces
\* and present different files, if they read the packets the batch had checked and
\* these name no class.
ReviewedWorkIsDisjoint ==
    /\ \A t \in Presented : bridge[t].files \subseteq FilesOf(bridge[t].allowed)
    /\ \A t \in Presented \cap LastBatch : bridge[t].clean
    /\ \A t, u \in Presented \cap LastBatch :
          /\ t # u /\ \A v \in {t, u} : bridge[v].allowed = checked[v]
          /\ (checked[t] \cup checked[u]) \cap Bracketed = {}
          => bridge[t].files \cap bridge[u].files = {}

\* The same of every batch: work goes on in parallel only where file scopes do not
\* overlap, as the operating model asks.
BatchPresentsDisjointFiles ==
    \A t, u \in Presented \cap LastBatch : t # u => bridge[t].files \cap bridge[u].files = {}

=============================================================================
