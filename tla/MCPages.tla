------------------------------- MODULE MCPages -------------------------------
(***************************************************************************)
(* Three users of the job store's contract, side by side; a behaviour is of *)
(* one of them, and the others keep their initial state.  The event stream: *)
(* one job watched by one page while connections break.  The operator's     *)
(* page: one or two submissions, with a colleague who may decide too.  The  *)
(* in-memory store of the provisional composition: two jobs, one slot.      *)
(***************************************************************************)
EXTENDS EventStream, Dashboard, ProvisionalJobs

CONSTANT TheJob    \* the job of the event stream

VARIABLE part

pagesVars == <<part, vars, streamVars, dashVars, provVars>>

PagesInit ==
    /\ StreamInit /\ DashInit /\ ProvInit
    /\ part \in {"stream", "page", "memory"}

DecisionsOf(operators) ==
    \A j \in Jobs : job'[j] # Null /\ job'[j].decision # Null
                        => job'[j].decision.operator \in operators

PagesNext ==
    /\ \/ /\ part = "stream" /\ UNCHANGED <<dashVars, provVars>>
          /\ StreamNext /\ DecisionsOf({Me})
          /\ \A j \in Jobs \ {TheJob} : job'[j] = Null
       \/ /\ part = "page" /\ UNCHANGED <<streamVars, provVars>>
          /\ DashNext
       \/ /\ part = "memory" /\ UNCHANGED <<streamVars, dashVars>>
          /\ ProvNext /\ DecisionsOf({Me})
    /\ UNCHANGED part

\* The fairness of a part asks nothing of the others, where none of its actions is ever
\* enabled, but for the progress of jobs, which every part has in its own way.
PagesSpec ==
    /\ PagesInit /\ [][PagesNext]_pagesVars
    /\ StreamFairness /\ ProvFairness /\ PageFairness
    /\ \A j \in Jobs : WF_allVars(part = "page" /\ Progress(j))

=============================================================================
