-------------------------- MODULE WorkflowLifecycle --------------------------
(***************************************************************************)
(* The life of a recruiting workflow: its database row, the background     *)
(* jobs that move it (apps/api/job_runner.py and the IM autopilot of       *)
(* services/agent_service/im_autopilot.py), the HTTP routes with which a   *)
(* user starts, pauses, resumes, cancels, deletes and re-screens it        *)
(* (apps/api/routes/workflows.py, followup.py), and the shutdown and       *)
(* restart of the process.                                                 *)
(*                                                                         *)
(* All of it runs on one asyncio loop, so a step below is what one task    *)
(* does between two awaits that matter.  The commit that ends a status     *)
(* write and the synchronous code after it are one step; the pc names the  *)
(* await a job is suspended in.                                            *)
(***************************************************************************)
EXTENDS WorkflowControl, Naturals

CONSTANTS Slots,       \* how many jobs of one workflow may exist together
          MaxRounds,   \* units of work one job does before it is finished
          Faults       \* which of {"profile", "db"} may go wrong

ASSUME MaxRoundsAssumption == MaxRounds \in Nat \ {0}
ASSUME FaultsAssumption == Faults \subseteq {"profile", "db"}

VARIABLES status,      \* workflow row: its status, "NEW" before it exists
          job,         \* job[w][s]: the background task in slot s of w
          imStop,      \* workflows whose IM stop event is set
          monitoring,  \* _monitor_running
          route,       \* route[w]: the HTTP call on w that is mid-way
          up           \* FALSE from the shutdown of the API to its restart

imVars  == <<imStop, monitoring>>
vars == <<controlVars, status, job, imVars, route, up>>

-----------------------------------------------------------------------------
(* Rows                                                                    *)

FetchScreenStatuses == {"CREATED", "FETCHING", "FETCH_COMPLETED", "SCREENING"}

RunnableStatuses ==
  {"FETCHING", "SCREENING", "FETCH_COMPLETED", "SCREENING_COMPLETED",
   "CONVERSATIONS_STARTED", "PARTIAL_FAILED"}

ScreenableStatuses == {"FETCH_COMPLETED", "SCREENING_COMPLETED", "PARTIAL_FAILED"}

ImReadyStatuses == RunnableStatuses

StoppedStatuses == {"COMPLETED", "FAILED", "PARTIAL_FAILED"}

Statuses == FetchScreenStatuses \union RunnableStatuses \union
              {"NEW", "FAILED", "DELETED"}

Exists(w) == status[w] \notin {"NEW", "DELETED"}

(* Mutant of UpdateStatus: an upsert, which writes a row that is gone.     *)
UpdateStatusUpsert(w, st) ==
  status' = [status EXCEPT ![w] = st]

(* update_status(w, st): an UPDATE ... WHERE id = w, which touches nothing *)
(* when the row is gone.                                                   *)
UpdateStatus(w, st) ==
  status' = [status EXCEPT ![w] = IF Exists(w) THEN st ELSE @]

-----------------------------------------------------------------------------
(* Jobs                                                                    *)

(* Awaits in which a job has a status write under way, and what it writes. *)
StatusWrite ==
  [mark         |-> "FETCHING",
   saveSome     |-> "FETCH_COMPLETED",
   saveNone     |-> "PARTIAL_FAILED",
   scrMark      |-> "SCREENING",
   scrSave      |-> "SCREENING_COMPLETED",
   cancelled    |-> "PARTIAL_FAILED",
   failed       |-> "FAILED",
   shutdown     |-> "PARTIAL_FAILED",
   scrCancelled |-> "PARTIAL_FAILED",
   scrFailed    |-> "FAILED",
   cyMark       |-> "CONVERSATIONS_STARTED"]

WritePcs == DOMAIN StatusWrite

HandlerPcs == {"cancelled", "failed", "shutdown"}         \* of run_fetch_job
ScreenTryPcs == {"scrGate", "scrWork", "scrSave", "scrCancelled", "scrFailed"}
FetchTryPcs == {"gate", "card", "saveSome", "saveNone", "scrMark"} \union ScreenTryPcs
FetchPcs == {"boot", "mark"} \union FetchTryPcs \union HandlerPcs
CyclePcs == {"cycle", "cyMark", "cyGate", "cySend"}
MonitorPcs == {"monBoot", "monGate"} \union CyclePcs

(* Awaits inside which a job works on a candidate on the user's behalf.    *)
WorkPcs == {"card", "scrWork", "cySend"}

Kinds == {"none", "fetch", "screen", "im", "imExtra", "monitor"}

Jobs == [kind : Kinds,
         pc : FetchPcs \union MonitorPcs \union {"idle", "imBoot"},
         reg : BOOLEAN,        \* spawned with workflow_id= : cancellable
         fresh : BOOLEAN,      \* history: no cancel of w since the user asked
         killed : BOOLEAN,     \* Task.cancel() called, not yet delivered
         n : 0..MaxRounds]     \* units of work done

Idle == [kind |-> "none", pc |-> "idle", reg |-> FALSE, fresh |-> TRUE,
         killed |-> FALSE, n |-> 0]

NewJob(kind, pc, reg, fresh) ==
  [kind |-> kind, pc |-> pc, reg |-> reg, fresh |-> fresh,
   killed |-> FALSE, n |-> 0]

Live(w, s) == job[w][s].kind # "none"

Put(w, s, j) == job' = [job EXCEPT ![w][s] = j]

Goto(w, s, pc) == Put(w, s, [job[w][s] EXCEPT !.pc = pc])

(* The job in slot s of w is suspended at pc and will be resumed normally. *)
At(w, s, pc) == job[w][s].pc = pc /\ ~job[w][s].killed

(* spawn(coroutine, workflow_id=...): the task runs later.                 *)
Spawn(w, kind, pc, reg) ==
  \E s \in Slots : ~Live(w, s) /\ Put(w, s, NewJob(kind, pc, reg, TRUE))

Init ==
  /\ ControlInit
  /\ status = [w \in Workflows |-> "NEW"]
  /\ job = [w \in Workflows |-> [s \in Slots |-> Idle]]
  /\ imStop = {}
  /\ monitoring = {}
  /\ route = [w \in Workflows |-> "idle"]
  /\ up = TRUE

-----------------------------------------------------------------------------
(* wait_if_paused: raise when cancelled, pass when not paused, else poll.  *)

Checkpoint(w, s, gate, onCancel, onGo) ==
  /\ At(w, s, gate)
  /\ \/ IsCancelled(w) /\ Goto(w, s, onCancel)
     \/ ~IsCancelled(w) /\ ~IsPaused(w) /\ Goto(w, s, onGo)

-----------------------------------------------------------------------------
(* run_fetch_job                                                           *)

(* Entry: resume_global() for everybody, then the browser profile of the   *)
(* workflow is cloned and recorded; that part is outside the try block.    *)
FetchBoot(w, s) ==
  /\ At(w, s, "boot")
  /\ ResumeGlobal
  /\ \/ Goto(w, s, "mark")
     \/ Faults # {} /\ Put(w, s, Idle)
  /\ UNCHANGED <<status, imVars, route, up>>

FetchMark(w, s) ==
  /\ At(w, s, "mark")
  /\ \/ UpdateStatus(w, "FETCHING") /\ Goto(w, s, "gate")
     \/ "db" \in Faults /\ Put(w, s, Idle) /\ UNCHANGED status
  /\ UNCHANGED <<controlVars, imVars, route, up>>

(* The checkpoint before every card of the search result.                  *)
FetchGate(w, s) ==
  /\ Checkpoint(w, s, "gate", "cancelled", "card")
  /\ UNCHANGED <<controlVars, status, imVars, route, up>>

(* One card is collected and screened; the list, the target or the         *)
(* attempts may be exhausted, or the browser fails for good.  The           *)
(* checkpoint inside the card raises a WorkflowCancelledError that the      *)
(* loop's `except Exception` swallows: that card ends like any other.       *)
FetchCard(w, s) ==
  /\ At(w, s, "card")
  /\ \E next \in {"gate", "saveSome", "saveNone", "failed"} :
       /\ next = "gate" => job[w][s].n + 1 < MaxRounds
       /\ Put(w, s, [job[w][s] EXCEPT !.pc = next,
                       !.n = IF next = "gate" THEN @ + 1 ELSE @])
  /\ UNCHANGED <<controlVars, status, imVars, route, up>>

(* _mark_done; the inline screening follows when cards were captured and   *)
(* auto_screen is on, otherwise the finally block ends the job.            *)
FetchSave(w, s) ==
  /\ \/ At(w, s, "saveSome")
     \/ At(w, s, "saveNone")
  /\ \/ /\ UpdateStatus(w, StatusWrite[job[w][s].pc])
        /\ \/ /\ job[w][s].pc = "saveSome"
              /\ Goto(w, s, "scrMark")
              /\ UNCHANGED controlVars
           \/ Put(w, s, Idle) /\ ClearControl(w)
     \/ /\ "db" \in Faults
        /\ Goto(w, s, "failed")
        /\ UNCHANGED <<status, controlVars>>
  /\ UNCHANGED <<imVars, route, up>>

(* Mutant of JobHandler: the outcome is not written to the row.            *)
JobHandlerForgetsRow(w, s) ==
  /\ \E pc \in HandlerPcs \union {"scrCancelled", "scrFailed"} : At(w, s, pc)
  /\ Put(w, s, Idle)
  /\ ClearControl(w)
  /\ UNCHANGED <<status, imVars, route, up>>

(* The except blocks that end a job: write the outcome (a failing write is *)
(* logged and swallowed), then the finally block clears the flags.         *)
JobHandler(w, s) ==
  /\ \E pc \in HandlerPcs \union {"scrCancelled", "scrFailed"} :
       /\ At(w, s, pc)
       /\ \/ UpdateStatus(w, StatusWrite[pc])
          \/ "db" \in Faults /\ UNCHANGED status
  /\ Put(w, s, Idle)
  /\ ClearControl(w)
  /\ UNCHANGED <<imVars, route, up>>

-----------------------------------------------------------------------------
(* run_screening_job, alone or inline at the end of run_fetch_job          *)

(* Outside the try block: a failing write is the fetch job's exception, or *)
(* the end of a job of its own with no handler and no finally.             *)
ScreenMark(w, s) ==
  /\ At(w, s, "scrMark")
  /\ \/ UpdateStatus(w, "SCREENING") /\ Goto(w, s, "scrGate")
     \/ /\ "db" \in Faults
        /\ IF job[w][s].kind = "fetch" THEN Goto(w, s, "failed") ELSE Put(w, s, Idle)
        /\ UNCHANGED status
  /\ UNCHANGED <<controlVars, imVars, route, up>>

ScreenGate(w, s) ==
  /\ Checkpoint(w, s, "scrGate", "scrCancelled", "scrWork")
  /\ UNCHANGED <<controlVars, status, imVars, route, up>>

ScreenWork(w, s) ==
  /\ At(w, s, "scrWork")
  /\ \E next \in {"scrSave", "scrFailed"} : Goto(w, s, next)
  /\ UNCHANGED <<controlVars, status, imVars, route, up>>

(* _mark_done, then (unless collect_only) spawn the IM autopilot, then the *)
(* finally blocks: the autopilot task takes over the slot of the job.      *)
ScreenSave(w, s) ==
  /\ At(w, s, "scrSave")
  /\ \/ /\ UpdateStatus(w, "SCREENING_COMPLETED")
        /\ ClearControl(w)
        /\ \/ Put(w, s, Idle)
           \/ Put(w, s, NewJob("im", "imBoot", TRUE, job[w][s].fresh))
     \/ /\ "db" \in Faults
        /\ Goto(w, s, "scrFailed")
        /\ UNCHANGED <<controlVars, status>>
  /\ UNCHANGED <<imVars, route, up>>

-----------------------------------------------------------------------------
(* start_im_autopilot and run_im_autopilot_monitor                         *)

(* Entry of start_im_autopilot: the stop event is cleared, and whether a   *)
(* monitor runs is looked up before the first cycle.                       *)
ImBoot(w, s) ==
  /\ At(w, s, "imBoot")
  /\ imStop' = imStop \ {w}
  /\ Put(w, s, [job[w][s] EXCEPT !.pc = "cycle",
                  !.kind = IF w \in monitoring THEN "imExtra" ELSE "im"])
  /\ UNCHANGED <<controlVars, status, monitoring, route, up>>

MonitorBoot(w, s) ==
  /\ At(w, s, "monBoot")
  /\ IF w \in monitoring
       THEN Put(w, s, Idle) /\ UNCHANGED monitoring
       ELSE Goto(w, s, "monGate") /\ monitoring' = monitoring \union {w}
  /\ UNCHANGED <<controlVars, status, imStop, route, up>>

(* Mutant of ImLeave: no finally block discards the workflow.              *)
ImLeaveLeaks(w, s) ==
  Put(w, s, Idle) /\ UNCHANGED monitoring

(* An exception, or the normal end, of an IM job: only the monitor has a   *)
(* finally block, and nobody clears the control flags.                     *)
ImLeave(w, s) ==
  /\ Put(w, s, Idle)
  /\ monitoring' = IF job[w][s].kind = "monitor" THEN monitoring \ {w} ELSE monitoring

(* Top of the monitor loop: checkpoint, stop event, is anything pending?   *)
MonitorGate(w, s) ==
  /\ At(w, s, "monGate")
  /\ \/ IsCancelled(w) /\ ImLeave(w, s)
     \/ ~IsCancelled(w) /\ ~IsPaused(w) /\ ImLeave(w, s)
     \/ /\ ~IsCancelled(w) /\ ~IsPaused(w)
        /\ w \notin imStop
        /\ Exists(w) /\ status[w] # "FAILED"
        /\ Goto(w, s, "cycle") /\ UNCHANGED monitoring
  /\ UNCHANGED <<controlVars, status, imStop, route, up>>

(* run_im_autopilot_cycle returned: start_im_autopilot spawns the monitor  *)
(* unless one was running, the monitor goes round or has been idle enough. *)
CycleDone(w, s) ==
  LET j == job[w][s] IN
    CASE j.kind = "im"      -> /\ Put(w, s, NewJob("monitor", "monBoot", TRUE, j.fresh))
                               /\ UNCHANGED monitoring
      [] j.kind = "monitor" -> \/ ImLeave(w, s)
                               \/ /\ j.n < MaxRounds /\ w \notin imStop
                                  /\ Put(w, s, [j EXCEPT !.pc = "monGate", !.n = @ + 1])
                                  /\ UNCHANGED monitoring
      [] OTHER              -> ImLeave(w, s)

(* Start of a cycle: nothing to do when stopped, an exception when the row *)
(* is gone, otherwise outreach and replies to handle, or none.  The status *)
(* that decides whether to mark the workflow is read here.                 *)
CycleBegin(w, s) ==
  /\ At(w, s, "cycle")
  /\ \/ w \in imStop /\ CycleDone(w, s)
     \/ w \notin imStop /\ ~Exists(w) /\ ImLeave(w, s)
     \/ w \notin imStop /\ Exists(w) /\ CycleDone(w, s)
     \/ /\ w \notin imStop /\ Exists(w)
        /\ \/ Goto(w, s, "cyGate")
           \/ status[w] \notin FetchScreenStatuses /\ Goto(w, s, "cyMark")
        /\ UNCHANGED monitoring
  /\ UNCHANGED <<controlVars, status, imStop, route, up>>

(* mark_conversations_started_when_ready, from the status read before.     *)
CycleMark(w, s) ==
  /\ At(w, s, "cyMark")
  /\ \/ /\ UpdateStatus(w, "CONVERSATIONS_STARTED")
        /\ Goto(w, s, "cyGate") /\ UNCHANGED monitoring
     \/ "db" \in Faults /\ ImLeave(w, s) /\ UNCHANGED status
  /\ UNCHANGED <<controlVars, imStop, route, up>>

(* The checkpoint before every contact that is messaged or read.           *)
CycleGate(w, s) ==
  /\ At(w, s, "cyGate")
  /\ \/ IsCancelled(w) /\ ImLeave(w, s)
     \/ ~IsCancelled(w) /\ ~IsPaused(w) /\ Goto(w, s, "cySend") /\ UNCHANGED monitoring
  /\ UNCHANGED <<controlVars, status, imStop, route, up>>

(* One contact is handled; more follow, the cycle ends, or it raises.      *)
CycleSend(w, s) ==
  /\ At(w, s, "cySend")
  /\ \/ /\ job[w][s].n < MaxRounds
        /\ Put(w, s, [job[w][s] EXCEPT !.pc = "cyGate", !.n = @ + 1])
        /\ UNCHANGED monitoring
     \/ CycleDone(w, s)
     \/ ImLeave(w, s)
  /\ UNCHANGED <<controlVars, status, imStop, route, up>>

-----------------------------------------------------------------------------
(* Task.cancel()                                                           *)

KilledJob(j) == [j EXCEPT !.killed = TRUE]

(* Mutant of CancelWorkflowTasks: the flag alone is to stop the jobs.      *)
CancelByFlagOnly(w) ==
  job' = [job EXCEPT ![w] = [s \in Slots |-> [@[s] EXCEPT !.fresh = ~Live(w, s)]]]

(* cancel_workflow_tasks(w) reaches the registered jobs of w; everything   *)
(* alive at a cancel stops being fresh.                                    *)
CancelWorkflowTasks(w) ==
  job' = [job EXCEPT ![w] = [s \in Slots |->
            LET j == job[w][s] IN
            IF ~Live(w, s) THEN j
            ELSE [j EXCEPT !.killed = j.killed \/ j.reg, !.fresh = FALSE]]]

(* A commit already handed to SQLite when its job is cancelled may still   *)
(* take effect: at most one write of w is seen last.                       *)
InFlightWrite(w) ==
  \/ UNCHANGED status
  \/ \E s \in Slots :
       /\ job[w][s].reg /\ ~job[w][s].killed
       /\ job[w][s].pc \in WritePcs
       /\ UpdateStatus(w, StatusWrite[job[w][s].pc])

(* The CancelledError arrives in the await the job is suspended in.        *)
Deliver(w, s) ==
  /\ job[w][s].killed
  /\ LET j == job[w][s]
         toShutdown == j.kind = "fetch" /\ j.pc \in FetchTryPcs
         clears == j.kind \in {"fetch", "screen"} /\ j.pc \in ScreenTryPcs \union HandlerPcs
     IN /\ Put(w, s, IF toShutdown THEN [j EXCEPT !.pc = "shutdown", !.killed = FALSE]
                                   ELSE Idle)
        /\ IF clears THEN ClearControl(w) ELSE UNCHANGED controlVars
        /\ monitoring' = IF j.kind = "monitor" /\ j.pc # "monBoot"
                           THEN monitoring \ {w} ELSE monitoring
  /\ UNCHANGED <<status, imStop, route, up>>

JobStep(w, s) ==
  \/ FetchBoot(w, s) \/ FetchMark(w, s) \/ FetchGate(w, s) \/ FetchCard(w, s)
  \/ FetchSave(w, s) \/ JobHandler(w, s)
  \/ ScreenMark(w, s) \/ ScreenGate(w, s) \/ ScreenWork(w, s) \/ ScreenSave(w, s)
  \/ ImBoot(w, s) \/ MonitorBoot(w, s) \/ MonitorGate(w, s)
  \/ CycleBegin(w, s) \/ CycleMark(w, s) \/ CycleGate(w, s) \/ CycleSend(w, s)
  \/ Deliver(w, s)

-----------------------------------------------------------------------------
(* HTTP routes on one workflow.  A route that awaits between its read and  *)
(* its write is split there; one such call per workflow is mid-way at a    *)
(* time.                                                                   *)

RouteStates == {"idle", "cancelRunning", "cancelOther", "cancelWrite",
                "deleteClear", "deleteCommit", "imStopWrite"}

RouteGoto(w, r) == route' = [route EXCEPT ![w] = r]

(* POST /demo/liepin-lpt/start: the row is committed, then the job spawned.*)
Start(w) ==
  /\ up /\ status[w] = "NEW"
  /\ status' = [status EXCEPT ![w] = "CREATED"]
  /\ Spawn(w, "fetch", "boot", TRUE)
  /\ UNCHANGED <<controlVars, imVars, route, up>>

(* POST /{id}/screen                                                       *)
TriggerScreening(w) ==
  /\ up /\ status[w] \in ScreenableStatuses
  /\ Spawn(w, "screen", "scrMark", TRUE)
  /\ UNCHANGED <<controlVars, status, imVars, route, up>>

(* POST /{id}/followup/im-autopilot-start: spawned without a workflow_id.  *)
StartImAutopilot(w) ==
  /\ up /\ status[w] \in ImReadyStatuses
  /\ Spawn(w, "im", "imBoot", FALSE)
  /\ UNCHANGED <<controlVars, status, imVars, route, up>>

(* POST /{id}/followup/im-autopilot-stop                                   *)
StopImAutopilot(w) ==
  /\ up /\ Exists(w) /\ route[w] = "idle"
  /\ imStop' = imStop \union {w}
  /\ ResumeWorkflow(w)
  /\ RouteGoto(w, IF status[w] = "CONVERSATIONS_STARTED" THEN "imStopWrite" ELSE "idle")
  /\ UNCHANGED <<status, job, monitoring, up>>

StopImWrite(w) ==
  /\ route[w] = "imStopWrite"
  /\ UpdateStatus(w, "SCREENING_COMPLETED") \/ ("db" \in Faults /\ UNCHANGED status)
  /\ RouteGoto(w, "idle")
  /\ UNCHANGED <<controlVars, job, imVars, up>>

(* _execution_can_pause; whether a reply judgment of w runs is not modelled*)
(* and may be either.                                                      *)
ExecutionCanPause(w, judging) ==
  status[w] \in RunnableStatuses \/ w \in monitoring \/ judging

(* POST /{id}/execution/pause and /{id}/execution/resume                   *)
PauseExecution(w) ==
  /\ up /\ Exists(w)
  /\ \E judging \in BOOLEAN : ExecutionCanPause(w, judging)
  /\ PauseGlobal(w)
  /\ UNCHANGED <<status, job, imVars, route, up>>

ResumeExecution(w) ==
  /\ up /\ Exists(w)
  /\ ResumeGlobal
  /\ UNCHANGED <<status, job, imVars, route, up>>

(* POST /{id}/cancel: the row is read; the flags are set and the tasks     *)
(* cancelled in one stretch; the row is written if it read as in progress. *)
CancelRead(w) ==
  /\ up /\ Exists(w) /\ route[w] = "idle"
  /\ \E judging \in BOOLEAN :
       ~(status[w] \in StoppedStatuses /\ ~ExecutionCanPause(w, judging))
  /\ RouteGoto(w, IF status[w] \in {"FETCHING", "SCREENING", "CREATED"}
                    THEN "cancelRunning" ELSE "cancelOther")
  /\ UNCHANGED <<controlVars, status, job, imVars, up>>

CancelApply(w) ==
  /\ route[w] \in {"cancelRunning", "cancelOther"}
  /\ RequestCancelAndResume(w)
  /\ imStop' = imStop \union {w}
  /\ CancelWorkflowTasks(w)
  /\ InFlightWrite(w)
  /\ RouteGoto(w, IF route[w] = "cancelRunning" THEN "cancelWrite" ELSE "idle")
  /\ UNCHANGED <<monitoring, up>>

CancelWrite(w) ==
  /\ route[w] = "cancelWrite"
  /\ UpdateStatus(w, "PARTIAL_FAILED") \/ ("db" \in Faults /\ UNCHANGED status)
  /\ RouteGoto(w, "idle")
  /\ UNCHANGED <<controlVars, job, imVars, up>>

(* DELETE /{id}: flags and tasks; then, after the DELETE statements and    *)
(* the closing of the viewer, the flags of w; the commit comes last.       *)
DeleteApply(w) ==
  /\ up /\ Exists(w) /\ route[w] = "idle"
  /\ RequestCancel(w)
  /\ imStop' = imStop \union {w}
  /\ CancelWorkflowTasks(w)
  /\ InFlightWrite(w)
  /\ RouteGoto(w, "deleteClear")
  /\ UNCHANGED <<monitoring, up>>

DeleteClear(w) ==
  /\ route[w] = "deleteClear"
  /\ \/ ClearControl(w) /\ RouteGoto(w, "deleteCommit")
     \/ "db" \in Faults /\ RouteGoto(w, "idle") /\ UNCHANGED controlVars
  /\ UNCHANGED <<status, job, imVars, up>>

DeleteCommit(w) ==
  /\ route[w] = "deleteCommit"
  /\ \/ status' = [status EXCEPT ![w] = "DELETED"]
     \/ "db" \in Faults /\ UNCHANGED status
  /\ RouteGoto(w, "idle")
  /\ UNCHANGED <<controlVars, job, imVars, up>>

RouteStep(w) ==
  \/ CancelApply(w) \/ CancelWrite(w)
  \/ DeleteClear(w) \/ DeleteCommit(w)
  \/ StopImWrite(w)

UserRequest(w) ==
  \/ Start(w) \/ TriggerScreening(w) \/ StartImAutopilot(w) \/ StopImAutopilot(w)
  \/ PauseExecution(w) \/ ResumeExecution(w) \/ CancelRead(w) \/ DeleteApply(w)

-----------------------------------------------------------------------------
(* The process                                                             *)

(* background_tasks.shutdown(): every task is cancelled, registered or not.*)
(* A commit under way that still takes effect is the step of its job just  *)
(* before this one.                                                        *)
Shutdown ==
  /\ up
  /\ up' = FALSE
  /\ job' = [w \in Workflows |-> [s \in Slots |->
                IF Live(w, s) THEN KilledJob(job[w][s]) ELSE job[w][s]]]
  /\ UNCHANGED <<controlVars, status, imVars, route>>

(* Mutant of Restart: no reconciliation of the rows at startup.            *)
RestartForgetsRows ==
  /\ ForgetControl
  /\ job' = [w \in Workflows |-> [s \in Slots |-> Idle]]
  /\ imStop' = {}
  /\ monitoring' = {}
  /\ route' = [w \in Workflows |-> "idle"]
  /\ up' = TRUE
  /\ UNCHANGED status

(* The process dies at any moment and is started again: memory is gone,    *)
(* reconcile_stale_workflows_on_startup() runs before the API serves.      *)
Restart ==
  /\ ForgetControl
  /\ status' = [w \in Workflows |->
                  IF status[w] \in FetchScreenStatuses THEN "PARTIAL_FAILED" ELSE status[w]]
  /\ job' = [w \in Workflows |-> [s \in Slots |-> Idle]]
  /\ imStop' = {}
  /\ monitoring' = {}
  /\ route' = [w \in Workflows |-> "idle"]
  /\ up' = TRUE

Next ==
  \/ \E w \in Workflows :
       \/ \E s \in Slots : JobStep(w, s)
       \/ RouteStep(w)
       \/ UserRequest(w)
  \/ Shutdown
  \/ Restart

Spec == Init /\ [][Next]_vars

(* The loop runs every task that is ready, and every await of a job or of  *)
(* a route returns: database calls, browser calls and sleeps have          *)
(* timeouts.  Nothing is assumed of the user, nor of shutdown and restart. *)
Fairness ==
  /\ \A w \in Workflows, s \in Slots : WF_vars(JobStep(w, s))
  /\ \A w \in Workflows : WF_vars(RouteStep(w))

FairSpec == Spec /\ Fairness

-----------------------------------------------------------------------------
(* Properties                                                              *)

(* Every variable has its type (workflow_control.py, models.py).           *)
TypeOK ==
  /\ ControlTypeOK
  /\ status \in [Workflows -> Statuses]
  /\ job \in [Workflows -> [Slots -> Jobs]]
  /\ imStop \subseteq Workflows
  /\ monitoring \subseteq Workflows
  /\ route \in [Workflows -> RouteStates]
  /\ up \in BOOLEAN

(* A per-workflow pause flag never outlives the global one: whatever the   *)
(* order of pauses, resumes, cancels, deletes and job ends, once the       *)
(* global pause is lifted wait_if_paused holds nobody back.                *)
PauseFlagsAgree == paused # {} => globalPaused

InMonitorLoop(w, s) == job[w][s].kind = "monitor" /\ job[w][s].pc # "monBoot"

(* _monitor_running is exact: a workflow is in it iff one monitor task, and*)
(* not two, is inside its loop, however tasks are spawned twice, cancelled,*)
(* raise or end.  A leaked entry would bar the autopilot for ever.         *)
MonitorFlagExact ==
  \A w \in Workflows :
    /\ w \in monitoring <=> \E s \in Slots : InMonitorLoop(w, s)
    /\ \A s, t \in Slots : InMonitorLoop(w, s) /\ InMonitorLoop(w, t) => s = t

FetchJobOf(w) == \E s \in Slots : job[w][s].kind = "fetch"

(* A row that says CREATED or FETCHING has a fetch job working for it, or a*)
(* cancel about to write it, or the process is on its way down: no crash,  *)
(* cancel or restart leaves a task that looks running for ever.  Only a    *)
(* profile that cannot be prepared leaves CREATED (job_runner.py:36), and  *)
(* only a failing database a row that nobody could write.                  *)
FetchRowsAreOwned ==
  "db" \notin Faults =>
    \A w \in Workflows :
      \/ status[w] = "FETCHING"
      \/ status[w] = "CREATED" /\ "profile" \notin Faults
      => FetchJobOf(w) \/ route[w] # "idle" \/ ~up

(* DELETE /{id} is final: no job, handler or route that still runs brings  *)
(* the row of a deleted workflow back.                                     *)
DeletedStaysDeleted ==
  [][\A w \in Workflows : status[w] = "DELETED" => status'[w] = "DELETED"]_vars

StartsWork(w, s) == job[w][s].pc \notin WorkPcs /\ job'[w][s].pc \in WorkPcs

(* After POST /{id}/cancel no fetch or screening job that existed then     *)
(* takes up another card or screening, even when the cancel flag has been  *)
(* cleared meanwhile by another job's finally block.                       *)
CancelStopsPipeline ==
  [][\A w \in Workflows, s \in Slots :
       StartsWork(w, s) /\ job[w][s].kind \in {"fetch", "screen"} => job[w][s].fresh]_vars

Doomed(w, s) == job[w][s].kind \in {"fetch", "screen"} /\ ~job[w][s].fresh

(* A cancelled fetch or screening job ends, also while the API is paused.  *)
CancelledJobsEnd ==
  \A w \in Workflows, s \in Slots : Doomed(w, s) ~> ~Doomed(w, s)

(* When the user does not leave everything paused, every job ends.         *)
ResumedJobsEnd ==
  <>[]~globalPaused =>
    \A w \in Workflows, s \in Slots : Live(w, s) ~> ~Live(w, s)

(* ... and no workflow stays in the status the console shows as fetching,  *)
(* while the API stays up: the next start reconciles what a shutdown left. *)
FetchingIsLeft ==
  <>[]~globalPaused =>
    \A w \in Workflows : status[w] = "FETCHING" ~> (status[w] # "FETCHING" \/ ~up)

-----------------------------------------------------------------------------
(* What the texts of the repository say and the code does not do           *)

=============================================================================
