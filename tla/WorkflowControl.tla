--------------------------- MODULE WorkflowControl ---------------------------
(***************************************************************************)
(* The in-memory pause / resume / cancel flags of                          *)
(* packages/workflow_control.py.  Every operation takes the module's       *)
(* threading lock, so each of them is one step.  `_paused` is a dictionary *)
(* whose missing entries read as False: the set of workflows mapped to     *)
(* True stands for it.  `_pause_announced` only suppresses repeated log    *)
(* lines and is left out.                                                  *)
(***************************************************************************)
CONSTANT Workflows          \* identifiers of recruiting workflows

VARIABLES globalPaused,     \* _global_paused
          paused,           \* workflows w with _paused[w] = True
          cancelled         \* _cancelled

controlVars == <<globalPaused, paused, cancelled>>

ControlTypeOK ==
  /\ globalPaused \in BOOLEAN
  /\ paused \subseteq Workflows
  /\ cancelled \subseteq Workflows

ControlInit ==
  /\ globalPaused = FALSE
  /\ paused = {}
  /\ cancelled = {}

IsPaused(w) == globalPaused \/ w \in paused

IsCancelled(w) == w \in cancelled

PauseGlobal(w) ==
  /\ globalPaused' = TRUE
  /\ paused' = paused \union {w}
  /\ UNCHANGED cancelled

(* Mutant of ResumeGlobal: the entries of _paused are left as they are.    *)
ResumeGlobalKeepsFlags ==
  /\ globalPaused' = FALSE
  /\ UNCHANGED <<paused, cancelled>>

ResumeGlobal ==
  /\ globalPaused' = FALSE
  /\ paused' = {}
  /\ UNCHANGED cancelled

ResumeWorkflow(w) ==
  /\ paused' = paused \ {w}
  /\ UNCHANGED <<globalPaused, cancelled>>

RequestCancel(w) ==
  /\ cancelled' = cancelled \union {w}
  /\ paused' = paused \union {w}
  /\ globalPaused' = TRUE

(* What request_cancel(w) followed by resume_global() in one uninterrupted *)
(* stretch of code leaves behind: the flag of w, and nobody paused.        *)
RequestCancelAndResume(w) ==
  /\ cancelled' = cancelled \union {w}
  /\ paused' = {}
  /\ globalPaused' = FALSE

ClearControl(w) ==
  /\ paused' = paused \ {w}
  /\ cancelled' = cancelled \ {w}
  /\ UNCHANGED globalPaused

(* A process restart loses every flag.                                     *)
ForgetControl ==
  /\ globalPaused' = FALSE
  /\ paused' = {}
  /\ cancelled' = {}
=============================================================================
