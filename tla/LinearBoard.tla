----------------------------- MODULE LinearBoard -----------------------------
(***************************************************************************)
(* dispatch_linear_issues.py and linear_issue_admin.py at a Linear project *)
(* people work on too.  The dispatch looks for each of its items before it *)
(* creates an issue for it, and may be run again, whole or in part, after  *)
(* it ended or died; a request that dies with it was executed or was not.  *)
(* An item is told by its seed, and its title by the seed it belongs to.   *)
(***************************************************************************)
EXTENDS Naturals, FiniteSets, SequencesExt

CONSTANTS
    Seeds,        \* the items of ISSUES
    Mentions,     \* Mentions[s]: other seeds that the description of s names
    ItemLabels,   \* ItemLabels[s]: the labels of item s
    States,       \* the states of the team
    ItemState,    \* ItemState[s]: the state of item s
    Page,         \* the most issues a search returns: first: 10
    Edited,       \* a title that a person has given an issue
    MaxCreates    \* bound: requests that create an issue

\* Every seed is named by fewer issues of the dispatch than a search returns.
ASSUME PageAssumption ==
    /\ IsFiniteSet(Seeds) /\ Page \in Nat
    /\ \A s \in Seeds : Cardinality({t \in Seeds : s \in Mentions[t]}) < Page

VARIABLES
    issues,     \* the issues of the project, in the order they were made
    teamLabels, \* the labels of the team
    dispatch,   \* the run of the dispatch
    admin,      \* an administration that has read its issue
    creates     \* counter of the bound

linearVars == <<issues, teamLabels, dispatch, admin, creates>>

NoDispatch == [at |-> "none", left |-> <<>>]
NoAdmin == [issue |-> 0]

LinearInit ==
    /\ issues = <<>> /\ teamLabels = {}
    /\ dispatch = NoDispatch /\ admin = NoAdmin /\ creates = 0

MovesTo(point) == dispatch' = [dispatch EXCEPT !.at = point]

\* The next item, or the end of the script.
NextItem ==
    dispatch' = IF Len(dispatch.left) = 1 THEN NoDispatch
                ELSE [dispatch EXCEPT !.at = "search", !.left = Tail(@)]

\* A script that dies, at a request that fails or is not answered.
DispatchDies == dispatch' = NoDispatch

-----------------------------------------------------------------------------
\* The dispatch.

\* main up to its loop.  SEED_FILTER leaves any items; their order is that of
\* ISSUES, which no property is about.  A dry run changes nothing.
StartDispatch ==
    /\ dispatch.at = "none"
    /\ \E chosen \in (SUBSET Seeds) \ {{}} :
          dispatch' = [at |-> "search", left |-> SetToSeq(chosen)]
    /\ UNCHANGED <<issues, teamLabels, admin, creates>>

\* The issues a search may return: all that match, or as many as fit on a page.
Found(matching) ==
    {page \in SUBSET matching :
        Cardinality(page) = IF Cardinality(matching) > Page THEN Page
                            ELSE Cardinality(matching)}

\* The issues whose title or description contains the seed.
Containing(s) ==
    {i \in DOMAIN issues : issues[i].seed = s \/ s \in Mentions[issues[i].seed]}

\* Defect: the seed's own line is not looked for.
TitledOnly(i, s) == issues[i].title = s

\* The comparison of issue_exists: the title, or the line "Seed: ...", which
\* nobody edits.
IsFor(i, s) == issues[i].title = s \/ issues[i].seed = s

\* issue_exists, its first query.
SearchSeed ==
    /\ dispatch.at = "search"
    /\ LET s == Head(dispatch.left) IN
          \/ \E page \in Found(Containing(s)) :
                IF \E i \in page : IsFor(i, s) THEN NextItem ELSE MovesTo("title")
          \/ DispatchDies
    /\ UNCHANGED <<issues, teamLabels, admin, creates>>

\* issue_exists, its second query: any issue with the title of the item.
SearchTitle ==
    /\ dispatch.at = "title"
    /\ \/ IF \E i \in DOMAIN issues : issues[i].title = Head(dispatch.left)
          THEN NextItem ELSE MovesTo("label")
       \/ DispatchDies
    /\ UNCHANGED <<issues, teamLabels, admin, creates>>

\* ensure_label; only this script makes labels, so that what find_project has read
\* is what the team has.
EnsureLabel ==
    /\ dispatch.at = "label"
    /\ \E l \in ItemLabels[Head(dispatch.left)] \ teamLabels :
          \/ /\ teamLabels' = teamLabels \cup {l}
             /\ UNCHANGED dispatch \/ DispatchDies
          \/ DispatchDies /\ UNCHANGED teamLabels
    /\ UNCHANGED <<issues, admin, creates>>

NewIssue(s) == [seed |-> s, title |-> s, state |-> ItemState[s], labels |-> ItemLabels[s]]

\* issueCreate, with the labels of the item.
CreateIssue ==
    /\ dispatch.at = "label"
    /\ LET s == Head(dispatch.left) IN
          /\ ItemLabels[s] \subseteq teamLabels
          /\ \/ /\ creates < MaxCreates
                /\ creates' = creates + 1
                /\ issues' = Append(issues, NewIssue(s))
                /\ NextItem \/ DispatchDies
             \/ DispatchDies /\ UNCHANGED <<issues, creates>>
    /\ UNCHANGED <<teamLabels, admin>>

-----------------------------------------------------------------------------
\* People and the administration script.

EditTitle(i) ==
    /\ issues[i].title # Edited
    /\ issues' = [issues EXCEPT ![i].title = Edited]
    /\ UNCHANGED <<teamLabels, dispatch, admin, creates>>

\* get_issue of set_state or set_labels.  The script ends when the issue has the
\* state or labels already, and when the team does not have them.
AdminRead(i, field, value) ==
    /\ admin = NoAdmin
    /\ issues[i][field] # value
    /\ field = "labels" => value \subseteq teamLabels
    /\ admin' = [issue |-> i, field |-> field, value |-> value]
    /\ UNCHANGED <<issues, teamLabels, dispatch, creates>>

\* issueUpdate, which may fail; the labels are replaced as a whole.
AdminWrite ==
    /\ admin # NoAdmin
    /\ \/ issues' = [issues EXCEPT ![admin.issue][admin.field] = admin.value]
       \/ UNCHANGED issues
    /\ admin' = NoAdmin
    /\ UNCHANGED <<teamLabels, dispatch, creates>>

LinearNext ==
    \/ StartDispatch \/ SearchSeed \/ SearchTitle \/ EnsureLabel \/ CreateIssue
    \/ AdminWrite
    \/ \E i \in DOMAIN issues :
          \/ EditTitle(i)
          \/ \E state \in States : AdminRead(i, "state", state)
          \/ \E some \in SUBSET teamLabels : AdminRead(i, "labels", some)

LinearSpec == LinearInit /\ [][LinearNext]_linearVars

-----------------------------------------------------------------------------
\* However often the dispatch is cut short and run again, whoever renames issues
\* meanwhile: an item has one issue.
OneIssuePerSeed ==
    \A i, j \in DOMAIN issues : issues[i].seed = issues[j].seed => i = j

=============================================================================
