-------------------------- MODULE MCWorkflowBounded --------------------------
(***************************************************************************)
(* WorkflowLifecycle with a bounded number of user requests and no         *)
(* shutdown, so that several jobs or several workflows fit into one run;   *)
(* and a history variable that remembers whether the pause in force was    *)
(* asked for.                                                              *)
(***************************************************************************)
EXTENDS WorkflowLifecycle

CONSTANT MaxRequests        \* bound: user requests in one behaviour

VARIABLES requests,         \* user requests made so far
          userPaused        \* history: a user paused, nobody resumed since

boundedVars == <<vars, requests, userPaused>>

BoundedInit == Init /\ requests = 0 /\ userPaused = FALSE

RememberPause ==
  userPaused' = /\ globalPaused'
                /\ userPaused \/ \E w \in Workflows : PauseExecution(w)

JobsOrRoutes ==
  \E w \in Workflows : RouteStep(w) \/ \E s \in Slots : JobStep(w, s)

BoundedNext ==
  \/ JobsOrRoutes /\ RememberPause /\ UNCHANGED requests
  \/ /\ requests < MaxRequests
     /\ \E w \in Workflows : UserRequest(w)
     /\ requests' = requests + 1
     /\ RememberPause

BoundedSpec == BoundedInit /\ [][BoundedNext]_boundedVars

BoundedFairSpec == BoundedSpec /\ Fairness

-----------------------------------------------------------------------------
(* Everything is paused only when a user asked for it: the one message that*)
(* goes with a global pause says so (routes/workflows.py:841).             *)
PauseIsUsers ==
  globalPaused => userPaused \/ \E w \in Workflows : route[w] = "deleteClear"
=============================================================================
