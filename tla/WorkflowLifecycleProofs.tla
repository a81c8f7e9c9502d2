----------------------- MODULE WorkflowLifecycleProofs -----------------------
(***************************************************************************)
(* Theorems about WorkflowLifecycle, for every set of workflows and slots, *)
(* every MaxRounds and every choice of faults.                             *)
(***************************************************************************)
EXTENDS WorkflowLifecycle, TLAPS

-----------------------------------------------------------------------------
(* Type correctness                                                        *)

(* What a job writes to the row is a status of models.py.                  *)
LEMMA StatusWriteType ==
  \A pc \in WritePcs : StatusWrite[pc] \in Statuses \ {"NEW", "DELETED"}
  BY DEF StatusWrite, WritePcs, Statuses, FetchScreenStatuses, RunnableStatuses

(* The awaits of a job that end in a status write.                         *)
LEMMA WritePcsListed ==
  WritePcs = {"mark", "saveSome", "saveNone", "scrMark", "scrSave", "cancelled",
              "failed", "shutdown", "scrCancelled", "scrFailed", "cyMark"}
  BY DEF StatusWrite, WritePcs

(* update_status leaves every row with a status.                           *)
LEMMA UpdateStatusType ==
  ASSUME TypeOK, NEW w \in Workflows, NEW st \in Statuses, UpdateStatus(w, st)
  PROVE  status' \in [Workflows -> Statuses]
  BY DEF TypeOK, UpdateStatus

Pcs == FetchPcs \union MonitorPcs \union {"idle", "imBoot"}

SameElsewhere(w, s) ==
  \A v \in Workflows, t \in Slots : v # w \/ t # s => job'[v][t] = job[v][t]

(* Put replaces the job of one slot and no other.                          *)
LEMMA PutFields ==
  ASSUME TypeOK, NEW w \in Workflows, NEW s \in Slots, NEW j \in Jobs, Put(w, s, j)
  PROVE  /\ job' \in [Workflows -> [Slots -> Jobs]]
         /\ job'[w][s] = j
         /\ SameElsewhere(w, s)
  BY DEF TypeOK, Put, SameElsewhere

(* What Goto leaves in the slot of the job.                                *)
LEMMA GotoFields ==
  ASSUME TypeOK, NEW w \in Workflows, NEW s \in Slots,
         NEW pc \in Pcs, Goto(w, s, pc)
  PROVE  /\ job' \in [Workflows -> [Slots -> Jobs]]
         /\ SameElsewhere(w, s)
         /\ job'[w][s].pc = pc
         /\ job'[w][s].kind = job[w][s].kind
         /\ job'[w][s].reg = job[w][s].reg
         /\ job'[w][s].fresh = job[w][s].fresh
         /\ job'[w][s].killed = job[w][s].killed
<1> DEFINE j == [job[w][s] EXCEPT !.pc = pc]
<1>1. job[w][s] \in Jobs
  BY DEF TypeOK
<1>2. j \in Jobs
  BY <1>1 DEF Jobs, Pcs
<1>3. /\ j.pc = pc /\ j.kind = job[w][s].kind /\ j.reg = job[w][s].reg
      /\ j.fresh = job[w][s].fresh /\ j.killed = job[w][s].killed
  BY <1>1 DEF Jobs
<1>4. Put(w, s, j)
  BY DEF Goto
<1> HIDE DEF j
<1> QED
  BY <1>2, <1>3, <1>4, PutFields

(* The empty slot is a job.                                                *)
LEMMA IdleType == Idle \in Jobs
  BY MaxRoundsAssumption DEF Idle, Jobs, Kinds

(* A job that was just spawned is a job.                                   *)
LEMMA NewJobType ==
  ASSUME NEW kind \in Kinds, NEW pc \in FetchPcs \union MonitorPcs \union {"idle", "imBoot"},
         NEW reg \in BOOLEAN, NEW fresh \in BOOLEAN
  PROVE  NewJob(kind, pc, reg, fresh) \in Jobs
  BY MaxRoundsAssumption DEF NewJob, Jobs

(* Every operation of workflow_control.py keeps the types of its flags.    *)
LEMMA ControlType ==
  ASSUME ControlTypeOK, NEW w \in Workflows,
         \/ ResumeGlobal \/ PauseGlobal(w) \/ ResumeWorkflow(w) \/ RequestCancel(w)
         \/ RequestCancelAndResume(w) \/ ClearControl(w) \/ ForgetControl
         \/ UNCHANGED controlVars
  PROVE  ControlTypeOK'
  BY DEF ControlTypeOK, ResumeGlobal, PauseGlobal, ResumeWorkflow, RequestCancel,
         RequestCancelAndResume, ClearControl, ForgetControl, controlVars

(* A job that is fetch or screen runs the code of run_fetch_job, a monitor *)
(* the code of the monitor loop; a fetch or screening job is registered, so*)
(* a cancel that has seen it has cancelled its task.                       *)
JobOK(j) ==
  /\ j.kind = "none" <=> j.pc = "idle"
  /\ j.kind \in {"fetch", "screen"} <=> j.pc \in FetchPcs
  /\ j.kind = "monitor" => j.pc \in MonitorPcs
  /\ j.pc \in {"monBoot", "monGate"} => j.kind = "monitor"
  /\ j.kind \in {"fetch", "screen"} => j.reg /\ (j.fresh \/ j.killed \/ j.pc = "shutdown")

JobsOK == \A w \in Workflows, s \in Slots : JobOK(job[w][s])

InLoop(j) == j.kind = "monitor" /\ j.pc # "monBoot"

(* What a step of the job in slot s of w may do to it and to _monitor_running. *)
JobEffect(w, s) ==
  /\ job' \in [Workflows -> [Slots -> Jobs]]
  /\ SameElsewhere(w, s)
  /\ JobOK(job'[w][s])
  /\ \/ monitoring' = monitoring /\ (InLoop(job'[w][s]) <=> InLoop(job[w][s]))
     \/ monitoring' = monitoring \ {w} /\ InLoop(job[w][s]) /\ ~InLoop(job'[w][s])
     \/ /\ monitoring' = monitoring \union {w} /\ w \notin monitoring
        /\ ~InLoop(job[w][s]) /\ InLoop(job'[w][s])
  /\ StartsWork(w, s) => ~job[w][s].killed /\ job[w][s].pc # "shutdown"

(* Moving between two awaits of the same coroutine.                        *)
LEMMA GotoEffect ==
  ASSUME TypeOK, JobsOK, NEW w \in Workflows, NEW s \in Slots, NEW from \in Pcs, NEW to \in Pcs,
         At(w, s, from), Goto(w, s, to), UNCHANGED monitoring,
         \/ from \in FetchPcs \ {"shutdown"} /\ to \in FetchPcs
         \/ from \in MonitorPcs \ {"monBoot"} /\ to \in CyclePcs
  PROVE  JobEffect(w, s)
<1>1. JobOK(job[w][s]) /\ job[w][s].pc = from /\ ~job[w][s].killed
  BY DEF JobsOK, At
<1>2. (InLoop(job'[w][s]) <=> InLoop(job[w][s]))
  BY <1>1, GotoFields DEF InLoop, CyclePcs, FetchPcs, MonitorPcs, FetchTryPcs, ScreenTryPcs, HandlerPcs, JobOK
<1>3. JobOK(job'[w][s])
  BY <1>1, GotoFields DEF CyclePcs, FetchPcs, MonitorPcs, FetchTryPcs, ScreenTryPcs, HandlerPcs, JobOK
<1>4. from # "shutdown"
  BY DEF CyclePcs, FetchPcs, MonitorPcs, FetchTryPcs, ScreenTryPcs, HandlerPcs
<1> QED
  BY <1>1, <1>2, <1>3, <1>4, GotoFields DEF JobEffect

(* Putting a job that does not work on a candidate yet.                    *)
LEMMA PutEffect ==
  ASSUME TypeOK, NEW w \in Workflows, NEW s \in Slots, NEW j \in Jobs,
         Put(w, s, j), JobOK(j), j.pc \notin WorkPcs,
         \/ monitoring' = monitoring /\ (InLoop(j) <=> InLoop(job[w][s]))
         \/ monitoring' = monitoring \ {w} /\ InLoop(job[w][s]) /\ ~InLoop(j)
         \/ /\ monitoring' = monitoring \union {w} /\ w \notin monitoring
            /\ ~InLoop(job[w][s]) /\ InLoop(j)
  PROVE  JobEffect(w, s)
  BY PutFields DEF JobEffect, StartsWork

(* Ending a job that is not in the monitor loop.                           *)
LEMMA EndEffect ==
  ASSUME TypeOK, NEW w \in Workflows, NEW s \in Slots,
         Put(w, s, Idle), UNCHANGED monitoring, ~InLoop(job[w][s])
  PROVE  JobEffect(w, s)
<1>1. JobOK(Idle) /\ Idle.pc \notin WorkPcs /\ ~InLoop(Idle)
  BY DEF JobOK, Idle, WorkPcs, InLoop, FetchPcs, MonitorPcs, FetchTryPcs, ScreenTryPcs, HandlerPcs
<1> QED
  BY <1>1, IdleType, PutEffect

(* Ending an IM job that runs, with the monitor's finally block.           *)
LEMMA LeaveEffect ==
  ASSUME TypeOK, NEW w \in Workflows, NEW s \in Slots,
         ImLeave(w, s), job[w][s].pc # "monBoot"
  PROVE  JobEffect(w, s)
<1>1. JobOK(Idle) /\ Idle.pc \notin WorkPcs /\ ~InLoop(Idle)
  BY DEF JobOK, Idle, WorkPcs, InLoop, FetchPcs, MonitorPcs, FetchTryPcs, ScreenTryPcs, HandlerPcs
<1>2. CASE job[w][s].kind = "monitor"
  BY <1>1, <1>2, IdleType, PutEffect DEF ImLeave, InLoop
<1>3. CASE job[w][s].kind # "monitor"
  BY <1>1, <1>3, IdleType, PutEffect DEF ImLeave, InLoop
<1> QED
  BY <1>2, <1>3

(* Leaving a cycle: to the monitor that is spawned, round the loop, or out.*)
LEMMA CycleDoneEffect ==
  ASSUME TypeOK, JobsOK, NEW w \in Workflows, NEW s \in Slots,
         job[w][s].pc \in CyclePcs, ~job[w][s].killed, CycleDone(w, s)
  PROVE  JobEffect(w, s)
<1> DEFINE j == job[w][s]
<1>0. j \in Jobs /\ JobOK(j) /\ j.pc # "monBoot"
  BY DEF TypeOK, JobsOK, CyclePcs
<1>1. CASE j.kind = "im"
  <2> DEFINE k == NewJob("monitor", "monBoot", TRUE, j.fresh)
  <2>1. k \in Jobs
    <3>1. j.fresh \in BOOLEAN
      BY <1>0 DEF Jobs
    <3> QED
      BY <3>1, NewJobType DEF Kinds, MonitorPcs
  <2>2. JobOK(k) /\ k.pc \notin WorkPcs /\ ~InLoop(k) /\ ~InLoop(j)
    BY <1>1 DEF JobOK, NewJob, WorkPcs, InLoop, FetchPcs, MonitorPcs, FetchTryPcs, ScreenTryPcs, HandlerPcs
  <2>3. Put(w, s, k) /\ UNCHANGED monitoring
    BY <1>1 DEF CycleDone
  <2> HIDE DEF k
  <2> QED
    BY <2>1, <2>2, <2>3, PutEffect
<1>2. CASE j.kind = "monitor" /\ ~ImLeave(w, s)
  <2> DEFINE k == [j EXCEPT !.pc = "monGate", !.n = @ + 1]
  <2>1. Put(w, s, k) /\ UNCHANGED monitoring /\ j.n < MaxRounds
    BY <1>2 DEF CycleDone
  <2>2. k \in Jobs
    <3>1. j.n + 1 \in 0 .. MaxRounds
      BY <1>0, <2>1, MaxRoundsAssumption DEF Jobs
    <3>2. "monGate" \in FetchPcs \union MonitorPcs \union {"idle", "imBoot"}
      BY DEF MonitorPcs
    <3> QED
      BY <1>0, <3>1, <3>2 DEF Jobs
  <2>3. k.kind = "monitor" /\ k.pc = "monGate"
    BY <1>0, <1>2 DEF Jobs
  <2>4. JobOK(k) /\ k.pc \notin WorkPcs /\ InLoop(k) /\ InLoop(j)
    BY <1>0, <1>2, <2>3 DEF JobOK, WorkPcs, InLoop, FetchPcs, MonitorPcs, FetchTryPcs, ScreenTryPcs, HandlerPcs
  <2> HIDE DEF k
  <2> QED
    BY <2>1, <2>2, <2>4, PutEffect
<1>3. CASE j.kind # "im" /\ (j.kind = "monitor" => ImLeave(w, s))
  BY <1>0, <1>3, LeaveEffect DEF CycleDone
<1> QED
  BY <1>1, <1>2, <1>3

(* The awaits of each coroutine, listed.                                   *)
LEMMA PcsListed ==
  /\ CyclePcs = {"cycle", "cyMark", "cyGate", "cySend"}
  /\ MonitorPcs = {"monBoot", "monGate", "cycle", "cyMark", "cyGate", "cySend"}
  /\ HandlerPcs = {"cancelled", "failed", "shutdown"}
  /\ FetchPcs = {"boot", "mark", "gate", "card", "saveSome", "saveNone", "scrMark",
                 "scrGate", "scrWork", "scrSave", "scrCancelled", "scrFailed",
                 "cancelled", "failed", "shutdown"}
  /\ Pcs = FetchPcs \union MonitorPcs \union {"idle", "imBoot"}
  BY DEF FetchPcs, FetchTryPcs, ScreenTryPcs, HandlerPcs, MonitorPcs, CyclePcs, Pcs

(* Every step of a job has such an effect: no job leaves or enters the     *)
(* monitor loop without _monitor_running being told, whatever it raises.   *)
LEMMA JobStepEffect ==
  ASSUME TypeOK, JobsOK, NEW w \in Workflows, NEW s \in Slots, JobStep(w, s)
  PROVE  JobEffect(w, s)
<1> DEFINE j == job[w][s]
<1>0. j \in Jobs /\ JobOK(j)
  BY DEF TypeOK, JobsOK
<1>a. j.pc \in FetchPcs => ~InLoop(j)
  BY <1>0 DEF JobOK, InLoop
<1>1. CASE FetchBoot(w, s)
  BY <1>0, <1>a, <1>1, PcsListed, GotoEffect, EndEffect
     DEF FetchBoot, At, JobOK, imVars
<1>2. CASE FetchMark(w, s)
  BY <1>0, <1>a, <1>2, PcsListed, GotoEffect, EndEffect
     DEF FetchMark, At, imVars
<1>3. CASE FetchGate(w, s)
  BY <1>0, <1>a, <1>3, PcsListed, GotoEffect
     DEF FetchGate, At, imVars, Checkpoint
<1>4. CASE FetchCard(w, s)
  <2>1. PICK next \in {"gate", "saveSome", "saveNone", "failed"} :
          /\ At(w, s, "card")
          /\ next = "gate" => j.n + 1 < MaxRounds
          /\ Put(w, s, [j EXCEPT !.pc = next, !.n = IF next = "gate" THEN @ + 1 ELSE @])
          /\ UNCHANGED monitoring
    BY <1>4 DEF FetchCard, imVars
  <2> DEFINE k == [j EXCEPT !.pc = next, !.n = IF next = "gate" THEN @ + 1 ELSE @]
  <2>2. (IF next = "gate" THEN j.n + 1 ELSE j.n) \in 0 .. MaxRounds
    BY <1>0, <2>1, MaxRoundsAssumption DEF Jobs
  <2>3. next \in FetchPcs
    BY PcsListed
  <2>4. /\ k \in Jobs
        /\ k.pc = next /\ k.kind = j.kind /\ k.reg = j.reg
        /\ k.fresh = j.fresh /\ k.killed = j.killed
    BY <1>0, <2>2, <2>3 DEF Jobs
  <2>5. j.pc = "card" /\ ~j.killed /\ Put(w, s, k) /\ monitoring' = monitoring
    BY <2>1 DEF At
  <2> HIDE DEF k
  <2>6. JobOK(k) /\ k.pc \notin WorkPcs /\ ~InLoop(k)
    BY <1>0, <2>4, <2>5, PcsListed DEF JobOK, WorkPcs, InLoop
  <2> QED
    BY <1>a, <2>4, <2>5, <2>6, PcsListed, PutEffect
<1>5. CASE FetchSave(w, s)
  BY <1>0, <1>a, <1>5, PcsListed, GotoEffect, EndEffect
     DEF FetchSave, At, imVars
<1>6. CASE JobHandler(w, s)
  BY <1>0, <1>a, <1>6, PcsListed, EndEffect
     DEF JobHandler, At, imVars
<1>7. CASE ScreenMark(w, s)
  BY <1>0, <1>a, <1>7, PcsListed, GotoEffect, EndEffect
     DEF ScreenMark, At, imVars
<1>8. CASE ScreenGate(w, s)
  BY <1>0, <1>a, <1>8, PcsListed, GotoEffect
     DEF ScreenGate, At, imVars, Checkpoint
<1>9. CASE ScreenWork(w, s)
  BY <1>0, <1>a, <1>9, PcsListed, GotoEffect
     DEF ScreenWork, At, imVars
<1>10. CASE ScreenSave(w, s)
  <2> DEFINE k == NewJob("im", "imBoot", TRUE, j.fresh)
  <2>1. j.fresh \in BOOLEAN /\ "im" \in Kinds
    BY <1>0 DEF Jobs, Kinds
  <2>2. k \in Jobs
    BY <2>1, NewJobType
  <2>3. JobOK(k) /\ k.pc \notin WorkPcs /\ ~InLoop(k)
    BY PcsListed DEF JobOK, NewJob, WorkPcs, InLoop
  <2>4. /\ At(w, s, "scrSave") /\ monitoring' = monitoring
        /\ Put(w, s, Idle) \/ Put(w, s, k) \/ Goto(w, s, "scrFailed")
    BY <1>10 DEF ScreenSave, imVars
  <2> HIDE DEF k
  <2> QED
    BY <1>a, <2>2, <2>3, <2>4, PcsListed, PutEffect, EndEffect, GotoEffect DEF At
<1>11. CASE ImBoot(w, s)
  <2> DEFINE kd == IF w \in monitoring THEN "imExtra" ELSE "im"
             k == [j EXCEPT !.pc = "cycle", !.kind = kd]
  <2>1. j.pc = "imBoot" /\ Put(w, s, k) /\ monitoring' = monitoring
    BY <1>11 DEF ImBoot, At
  <2>2. kd \in Kinds /\ "cycle" \in FetchPcs \union MonitorPcs \union {"idle", "imBoot"}
    BY PcsListed DEF Kinds
  <2>3. k \in Jobs /\ k.pc = "cycle" /\ k.kind = kd
    BY <1>0, <2>2 DEF Jobs
  <2>4. kd \in {"im", "imExtra"}
    OBVIOUS
  <2> HIDE DEF k, kd
  <2>5. JobOK(k) /\ k.pc \notin WorkPcs /\ ~InLoop(k)
    BY <2>3, <2>4, PcsListed DEF JobOK, WorkPcs, InLoop
  <2>6. ~InLoop(j)
    BY <1>0, <2>1, PcsListed DEF JobOK, InLoop
  <2> QED
    BY <2>1, <2>3, <2>5, <2>6, PutEffect
<1>12. CASE MonitorBoot(w, s)
  <2>1. j.pc = "monBoot" /\ ~j.killed /\ j.kind = "monitor" /\ ~InLoop(j)
    BY <1>0, <1>12 DEF MonitorBoot, At, JobOK, InLoop
  <2>2. CASE w \in monitoring
    BY <1>12, <2>1, <2>2, EndEffect DEF MonitorBoot
  <2>3. CASE w \notin monitoring
    <3>1. Goto(w, s, "monGate") /\ monitoring' = monitoring \union {w}
      BY <1>12, <2>3 DEF MonitorBoot
    <3>2. /\ job' \in [Workflows -> [Slots -> Jobs]] /\ SameElsewhere(w, s)
          /\ job'[w][s].pc = "monGate" /\ job'[w][s].kind = "monitor"
      BY <2>1, <3>1, PcsListed, GotoFields
    <3> QED
      BY <2>1, <2>3, <3>1, <3>2, PcsListed DEF JobEffect, JobOK, InLoop, StartsWork, WorkPcs
  <2> QED
    BY <2>2, <2>3
<1>13. CASE MonitorGate(w, s)
  BY <1>0, <1>a, <1>13, PcsListed, GotoEffect, LeaveEffect
     DEF MonitorGate, At, imVars
<1>14. CASE CycleBegin(w, s)
  BY <1>0, <1>a, <1>14, PcsListed, GotoEffect, LeaveEffect, CycleDoneEffect
     DEF CycleBegin, At, imVars
<1>15. CASE CycleMark(w, s)
  BY <1>0, <1>a, <1>15, PcsListed, GotoEffect, LeaveEffect
     DEF CycleMark, At, imVars
<1>16. CASE CycleGate(w, s)
  BY <1>0, <1>a, <1>16, PcsListed, GotoEffect, LeaveEffect
     DEF CycleGate, At, imVars
<1>17. CASE CycleSend(w, s)
  <2>1. CASE j.n < MaxRounds /\ UNCHANGED monitoring
             /\ Put(w, s, [j EXCEPT !.pc = "cyGate", !.n = @ + 1])
    <3> DEFINE k == [j EXCEPT !.pc = "cyGate", !.n = @ + 1]
    <3>1. j.n + 1 \in 0 .. MaxRounds
      BY <1>0, <2>1, MaxRoundsAssumption DEF Jobs
    <3>2. "cyGate" \in FetchPcs \union MonitorPcs \union {"idle", "imBoot"}
      BY PcsListed
    <3>3. k \in Jobs /\ k.pc = "cyGate" /\ k.kind = j.kind
      BY <1>0, <3>1, <3>2 DEF Jobs
    <3>4. j.pc = "cySend" /\ Put(w, s, k) /\ monitoring' = monitoring
      BY <1>17, <2>1 DEF CycleSend, At
    <3> HIDE DEF k
    <3>5. JobOK(k) /\ k.pc \notin WorkPcs /\ (InLoop(k) <=> InLoop(j))
      BY <1>0, <3>3, <3>4, PcsListed DEF JobOK, WorkPcs, InLoop
    <3> QED
      BY <3>3, <3>4, <3>5, PutEffect
  <2> QED
    BY <1>17, <2>1, PcsListed, LeaveEffect, CycleDoneEffect DEF CycleSend, At
<1>18. CASE Deliver(w, s)
  <2>1. CASE j.kind = "fetch" /\ j.pc \in FetchTryPcs
    <3> DEFINE k == [j EXCEPT !.pc = "shutdown", !.killed = FALSE]
    <3>1. Put(w, s, k) /\ monitoring' = monitoring
      BY <1>18, <2>1 DEF Deliver
    <3>2. "shutdown" \in FetchPcs \union MonitorPcs \union {"idle", "imBoot"}
      BY PcsListed
    <3>3. /\ k \in Jobs /\ k.pc = "shutdown" /\ k.kind = j.kind
          /\ k.reg = j.reg
      BY <1>0, <3>2 DEF Jobs
    <3> HIDE DEF k
    <3>4. JobOK(k) /\ k.pc \notin WorkPcs /\ ~InLoop(k) /\ ~InLoop(j)
      BY <1>0, <2>1, <3>3, PcsListed DEF JobOK, WorkPcs, InLoop
    <3> QED
      BY <3>1, <3>3, <3>4, PutEffect
  <2>2. CASE ~(j.kind = "fetch" /\ j.pc \in FetchTryPcs)
    <3>1. Put(w, s, Idle)
      BY <1>18, <2>2 DEF Deliver
    <3>2. CASE InLoop(j)
      BY <1>18, <3>1, <3>2, LeaveEffect DEF Deliver, ImLeave, InLoop
    <3>3. CASE ~InLoop(j)
      BY <1>18, <3>1, <3>3, EndEffect DEF Deliver, InLoop
    <3> QED
      BY <3>2, <3>3
  <2> QED
    BY <2>1, <2>2
<1> QED
  BY <1>1, <1>2, <1>3, <1>4, <1>5, <1>6, <1>7, <1>8, <1>9, <1>10, <1>11, <1>12, <1>13, <1>14, <1>15, <1>16, <1>17, <1>18 DEF JobStep

-----------------------------------------------------------------------------
(* What a step does to the other variables                                 *)

ControlEffect(w) ==
  \/ ResumeGlobal \/ PauseGlobal(w) \/ ResumeWorkflow(w) \/ RequestCancel(w)
  \/ RequestCancelAndResume(w) \/ ClearControl(w) \/ UNCHANGED controlVars

(* Only jobs that write one of the statuses a job writes, or nothing.      *)
RowEffect(w) ==
  (\E st \in Statuses \ {"NEW", "DELETED"} : UpdateStatus(w, st)) \/ UNCHANGED status

(* The steps of a job, apart from the job itself and _monitor_running.     *)
LEMMA JobStepRest ==
  ASSUME NEW w \in Workflows, NEW s \in Slots, JobStep(w, s)
  PROVE  /\ ControlEffect(w) /\ RowEffect(w)
         /\ imStop' = imStop \/ imStop' = imStop \ {w}
         /\ UNCHANGED <<route, up>>
<1>0. {"FETCHING", "SCREENING", "SCREENING_COMPLETED", "CONVERSATIONS_STARTED"}
        \subseteq Statuses \ {"NEW", "DELETED"}
  BY DEF Statuses, FetchScreenStatuses, RunnableStatuses
<1>1. CASE FetchSave(w, s)
  <2>1. CASE UpdateStatus(w, StatusWrite[job[w][s].pc])
    <3>1. job[w][s].pc \in WritePcs
      BY <1>1, WritePcsListed DEF FetchSave, At
    <3> QED
      BY <1>1, <2>1, <3>1, StatusWriteType DEF FetchSave, ControlEffect, RowEffect, imVars
  <2> QED
    BY <1>1, <2>1 DEF FetchSave, ControlEffect, RowEffect, imVars, controlVars
<1>2. CASE JobHandler(w, s)
  <2>1. PICK pc \in HandlerPcs \union {"scrCancelled", "scrFailed"} :
          UpdateStatus(w, StatusWrite[pc]) \/ UNCHANGED status
    BY <1>2 DEF JobHandler
  <2>2. pc \in WritePcs
    BY WritePcsListed DEF HandlerPcs
  <2> QED
    BY <1>2, <2>1, <2>2, StatusWriteType DEF JobHandler, ControlEffect, RowEffect, imVars
<1>3. CASE FetchBoot(w, s)
  BY <1>0, <1>3 DEF FetchBoot, ControlEffect, RowEffect, imVars, controlVars
<1>4. CASE FetchMark(w, s)
  BY <1>0, <1>4 DEF FetchMark, ControlEffect, RowEffect, imVars, controlVars
<1>5. CASE FetchGate(w, s)
  BY <1>0, <1>5 DEF FetchGate, ControlEffect, RowEffect, imVars, controlVars
<1>6. CASE FetchCard(w, s)
  BY <1>0, <1>6 DEF FetchCard, ControlEffect, RowEffect, imVars, controlVars
<1>7. CASE ScreenMark(w, s)
  BY <1>0, <1>7 DEF ScreenMark, ControlEffect, RowEffect, imVars, controlVars
<1>8. CASE ScreenGate(w, s)
  BY <1>0, <1>8 DEF ScreenGate, ControlEffect, RowEffect, imVars, controlVars
<1>9. CASE ScreenWork(w, s)
  BY <1>0, <1>9 DEF ScreenWork, ControlEffect, RowEffect, imVars, controlVars
<1>10. CASE ScreenSave(w, s)
  BY <1>0, <1>10 DEF ScreenSave, ControlEffect, RowEffect, imVars, controlVars
<1>11. CASE ImBoot(w, s)
  BY <1>0, <1>11 DEF ImBoot, ControlEffect, RowEffect, imVars, controlVars
<1>12. CASE MonitorBoot(w, s)
  BY <1>0, <1>12 DEF MonitorBoot, ControlEffect, RowEffect, imVars, controlVars
<1>13. CASE MonitorGate(w, s)
  BY <1>0, <1>13 DEF MonitorGate, ControlEffect, RowEffect, imVars, controlVars
<1>14. CASE CycleBegin(w, s)
  BY <1>0, <1>14 DEF CycleBegin, ControlEffect, RowEffect, imVars, controlVars
<1>15. CASE CycleMark(w, s)
  BY <1>0, <1>15 DEF CycleMark, ControlEffect, RowEffect, imVars, controlVars
<1>16. CASE CycleGate(w, s)
  BY <1>0, <1>16 DEF CycleGate, ControlEffect, RowEffect, imVars, controlVars
<1>17. CASE CycleSend(w, s)
  BY <1>0, <1>17 DEF CycleSend, ControlEffect, RowEffect, imVars, controlVars
<1>18. CASE Deliver(w, s)
  BY <1>0, <1>18 DEF Deliver, ControlEffect, RowEffect, imVars, controlVars
<1> QED
  BY <1>1, <1>2, <1>3, <1>4, <1>5, <1>6, <1>7, <1>8, <1>9, <1>10, <1>11, <1>12, <1>13, <1>14, <1>15, <1>16, <1>17, <1>18 DEF JobStep

(* A commit under way writes one of those statuses too.                    *)
LEMMA InFlightWriteRest ==
  ASSUME NEW w \in Workflows, InFlightWrite(w)
  PROVE  RowEffect(w)
  BY StatusWriteType DEF InFlightWrite, RowEffect

-----------------------------------------------------------------------------
(* Routes and shutdown                                                     *)

(* No job enters or leaves the monitor loop or takes up work.              *)
JobsKeep ==
  /\ job' \in [Workflows -> [Slots -> Jobs]]
  /\ JobsOK'
  /\ \A w \in Workflows, s \in Slots :
       (InLoop(job'[w][s]) <=> InLoop(job[w][s])) /\ ~StartsWork(w, s)
  /\ UNCHANGED monitoring

(* A step that leaves the jobs alone.                                      *)
LEMMA SameJobsKeep ==
  ASSUME TypeOK, JobsOK, UNCHANGED <<job, monitoring>>
  PROVE  JobsKeep
  BY DEF TypeOK, JobsKeep, JobsOK, StartsWork

(* A task that is spawned starts outside the loop and outside the work.    *)
LEMMA SpawnKeeps ==
  ASSUME TypeOK, JobsOK, NEW w \in Workflows,
         NEW kind \in Kinds \ {"monitor"}, NEW pc \in Pcs \ WorkPcs, NEW reg \in BOOLEAN,
         Spawn(w, kind, pc, reg), JobOK(NewJob(kind, pc, reg, TRUE)),
         UNCHANGED monitoring
  PROVE  JobsKeep
<1>1. PICK s \in Slots : ~Live(w, s) /\ Put(w, s, NewJob(kind, pc, reg, TRUE))
  BY DEF Spawn
<1> DEFINE k == NewJob(kind, pc, reg, TRUE)
<1>2. k \in Jobs
  BY NewJobType DEF Pcs
<1>3. k.pc \notin WorkPcs /\ ~InLoop(k) /\ ~InLoop(job[w][s]) /\ JobOK(k)
  BY <1>1 DEF NewJob, InLoop, Live
<1>4. Put(w, s, k)
  BY <1>1
<1> HIDE DEF k
<1>5. job' \in [Workflows -> [Slots -> Jobs]] /\ job'[w][s] = k /\ SameElsewhere(w, s)
  BY <1>2, <1>4, PutFields
<1> QED
  BY <1>3, <1>5 DEF JobsKeep, JobsOK, StartsWork, SameElsewhere

(* cancel_workflow_tasks cancels every fetch and screening job it meets.   *)
LEMMA CancelKeeps ==
  ASSUME TypeOK, JobsOK, NEW w \in Workflows, CancelWorkflowTasks(w), UNCHANGED monitoring
  PROVE  JobsKeep
<1>1. \A v \in Workflows, s \in Slots :
        /\ job'[v][s] \in Jobs
        /\ job'[v][s].kind = job[v][s].kind /\ job'[v][s].pc = job[v][s].pc
        /\ job'[v][s].reg = job[v][s].reg
        /\ v # w \/ ~Live(w, s) => job'[v][s] = job[v][s]
        /\ v = w /\ Live(w, s) => job'[v][s].killed = (job[v][s].killed \/ job[v][s].reg)
  <2> TAKE v \in Workflows, s \in Slots
  <2>1. job[v][s] \in Jobs
    BY DEF TypeOK
  <2>2. CASE v # w \/ ~Live(w, s)
    <3>1. job'[v][s] = job[v][s]
      BY <2>2 DEF CancelWorkflowTasks, TypeOK
    <3> QED
      BY <2>1, <2>2, <3>1
  <2>3. CASE v = w /\ Live(w, s)
    <3> DEFINE j == job[v][s]
               k == [j EXCEPT !.killed = j.killed \/ j.reg, !.fresh = FALSE]
    <3>1. job'[v][s] = k
      BY <2>3 DEF CancelWorkflowTasks, TypeOK
    <3>2. (j.killed \/ j.reg) \in BOOLEAN
      OBVIOUS
    <3>3. k \in Jobs /\ k.kind = j.kind /\ k.pc = j.pc /\ k.reg = j.reg
          /\ k.killed = (j.killed \/ j.reg)
      BY <2>1, <3>2 DEF Jobs
    <3> QED
      BY <2>3, <3>1, <3>3
  <2> QED
    BY <2>2, <2>3
<1>2. job' \in [Workflows -> [Slots -> Jobs]]
  BY <1>1 DEF CancelWorkflowTasks, TypeOK
<1>3. JobsOK'
  <2> SUFFICES ASSUME NEW v \in Workflows, NEW s \in Slots PROVE JobOK(job'[v][s])
    BY DEF JobsOK
  <2>1. JobOK(job[v][s])
    BY DEF JobsOK
  <2>2. CASE v # w \/ ~Live(w, s)
    BY <1>1, <2>1, <2>2
  <2>3. CASE v = w /\ Live(w, s)
    BY <1>1, <2>1, <2>3 DEF JobOK
  <2> QED
    BY <2>2, <2>3
<1> QED
  BY <1>1, <1>2, <1>3 DEF JobsKeep, InLoop, StartsWork

(* background_tasks.shutdown cancels every task where it stands.           *)
LEMMA ShutdownKeeps ==
  ASSUME TypeOK, JobsOK, Shutdown
  PROVE  JobsKeep
<1>1. \A w \in Workflows, s \in Slots :
        /\ job'[w][s] \in Jobs
        /\ job'[w][s].kind = job[w][s].kind /\ job'[w][s].pc = job[w][s].pc
        /\ job'[w][s].reg = job[w][s].reg
        /\ Live(w, s) => job'[w][s].killed
        /\ ~Live(w, s) => job'[w][s] = job[w][s]
  <2> TAKE w \in Workflows, s \in Slots
  <2>1. job[w][s] \in Jobs
    BY DEF TypeOK
  <2>2. job'[w][s] = IF Live(w, s) THEN KilledJob(job[w][s]) ELSE job[w][s]
    BY DEF Shutdown
  <2> QED
    BY <2>1, <2>2 DEF KilledJob, Jobs
<1>2. job' \in [Workflows -> [Slots -> Jobs]]
  BY <1>1 DEF Shutdown
<1>3. JobsOK'
  BY <1>1 DEF JobsOK, JobOK, Live
<1> QED
  BY <1>1, <1>2, <1>3 DEF JobsKeep, InLoop, StartsWork, Shutdown, imVars

(* Every call of a route on w.                                             *)
LEMMA RouteKeeps ==
  ASSUME TypeOK, JobsOK, NEW w \in Workflows, RouteStep(w) \/ UserRequest(w)
  PROVE  JobsKeep
<1>1. CASE Start(w)
  <2>1. JobOK(NewJob("fetch", "boot", TRUE, TRUE))
    BY PcsListed DEF JobOK, NewJob
  <2> QED
    BY <1>1, <2>1, PcsListed, SpawnKeeps DEF Start, imVars, Kinds, WorkPcs
<1>2. CASE TriggerScreening(w)
  <2>1. JobOK(NewJob("screen", "scrMark", TRUE, TRUE))
    BY PcsListed DEF JobOK, NewJob
  <2> QED
    BY <1>2, <2>1, PcsListed, SpawnKeeps DEF TriggerScreening, imVars, Kinds, WorkPcs
<1>3. CASE StartImAutopilot(w)
  <2>1. JobOK(NewJob("im", "imBoot", FALSE, TRUE))
    BY PcsListed DEF JobOK, NewJob
  <2> QED
    BY <1>3, <2>1, PcsListed, SpawnKeeps DEF StartImAutopilot, imVars, Kinds, WorkPcs
<1>4. CASE CancelApply(w)
  BY <1>4, CancelKeeps DEF CancelApply
<1>5. CASE DeleteApply(w)
  BY <1>5, CancelKeeps DEF DeleteApply
<1>6. CASE \/ StopImAutopilot(w) \/ PauseExecution(w) \/ ResumeExecution(w) \/ CancelRead(w)
           \/ CancelWrite(w) \/ DeleteClear(w) \/ DeleteCommit(w) \/ StopImWrite(w)
  <2>1. UNCHANGED <<job, monitoring>>
    BY <1>6 DEF StopImAutopilot, PauseExecution, ResumeExecution, CancelRead, CancelWrite,
                DeleteClear, DeleteCommit, StopImWrite, imVars
  <2> QED
    BY <2>1, SameJobsKeep
<1> QED
  BY <1>1, <1>2, <1>3, <1>4, <1>5, <1>6 DEF RouteStep, UserRequest

(* The variables a route changes besides the jobs.                         *)
LEMMA RouteRest ==
  ASSUME TypeOK, NEW w \in Workflows, RouteStep(w) \/ UserRequest(w)
  PROVE  /\ ControlEffect(w)
         /\ RowEffect(w) \/ Start(w) \/ DeleteCommit(w)
         /\ imStop' \in {imStop, imStop \union {w}}
         /\ route' \in [Workflows -> RouteStates]
         /\ up' = up
<1>0. {"PARTIAL_FAILED", "SCREENING_COMPLETED"} \subseteq Statuses \ {"NEW", "DELETED"}
  BY DEF Statuses, FetchScreenStatuses, RunnableStatuses
<1>1. CASE Start(w)
  BY <1>0, <1>1, InFlightWriteRest
     DEF Start, ControlEffect, RowEffect, RouteGoto, RouteStates, TypeOK, imVars, controlVars
<1>2. CASE TriggerScreening(w)
  BY <1>0, <1>2, InFlightWriteRest
     DEF TriggerScreening, ControlEffect, RowEffect, RouteGoto, RouteStates, TypeOK, imVars, controlVars
<1>3. CASE StartImAutopilot(w)
  BY <1>0, <1>3, InFlightWriteRest
     DEF StartImAutopilot, ControlEffect, RowEffect, RouteGoto, RouteStates, TypeOK, imVars, controlVars
<1>4. CASE StopImAutopilot(w)
  BY <1>0, <1>4, InFlightWriteRest
     DEF StopImAutopilot, ControlEffect, RowEffect, RouteGoto, RouteStates, TypeOK, imVars, controlVars
<1>5. CASE PauseExecution(w)
  BY <1>0, <1>5, InFlightWriteRest
     DEF PauseExecution, ControlEffect, RowEffect, RouteGoto, RouteStates, TypeOK, imVars, controlVars
<1>6. CASE ResumeExecution(w)
  BY <1>0, <1>6, InFlightWriteRest
     DEF ResumeExecution, ControlEffect, RowEffect, RouteGoto, RouteStates, TypeOK, imVars, controlVars
<1>7. CASE CancelRead(w)
  BY <1>0, <1>7, InFlightWriteRest
     DEF CancelRead, ControlEffect, RowEffect, RouteGoto, RouteStates, TypeOK, imVars, controlVars
<1>8. CASE DeleteApply(w)
  BY <1>0, <1>8, InFlightWriteRest
     DEF DeleteApply, ControlEffect, RowEffect, RouteGoto, RouteStates, TypeOK, imVars, controlVars
<1>9. CASE CancelApply(w)
  BY <1>0, <1>9, InFlightWriteRest
     DEF CancelApply, ControlEffect, RowEffect, RouteGoto, RouteStates, TypeOK, imVars, controlVars
<1>10. CASE CancelWrite(w)
  BY <1>0, <1>10, InFlightWriteRest
     DEF CancelWrite, ControlEffect, RowEffect, RouteGoto, RouteStates, TypeOK, imVars, controlVars
<1>11. CASE DeleteClear(w)
  BY <1>0, <1>11, InFlightWriteRest
     DEF DeleteClear, ControlEffect, RowEffect, RouteGoto, RouteStates, TypeOK, imVars, controlVars
<1>12. CASE DeleteCommit(w)
  BY <1>0, <1>12, InFlightWriteRest
     DEF DeleteCommit, ControlEffect, RowEffect, RouteGoto, RouteStates, TypeOK, imVars, controlVars
<1>13. CASE StopImWrite(w)
  BY <1>0, <1>13, InFlightWriteRest
     DEF StopImWrite, ControlEffect, RowEffect, RouteGoto, RouteStates, TypeOK, imVars, controlVars
<1> QED
  BY <1>1, <1>2, <1>3, <1>4, <1>5, <1>6, <1>7, <1>8, <1>9, <1>10, <1>11, <1>12, <1>13
     DEF RouteStep, UserRequest

-----------------------------------------------------------------------------
(* Invariance                                                              *)

(* RowEffect keeps the type of the rows and leaves a deleted row deleted.  *)
LEMMA RowEffectKeeps ==
  ASSUME TypeOK, NEW w \in Workflows, RowEffect(w)
  PROVE  /\ status' \in [Workflows -> Statuses]
         /\ \A v \in Workflows : status[v] = "DELETED" => status'[v] = "DELETED"
  BY DEF TypeOK, RowEffect, UpdateStatus, Exists

(* No job runs at first, and no flag is set.                               *)
LEMMA InitInv == Init => TypeOK /\ JobsOK /\ MonitorFlagExact /\ PauseFlagsAgree
<1> SUFFICES ASSUME Init PROVE TypeOK /\ JobsOK /\ MonitorFlagExact /\ PauseFlagsAgree
  OBVIOUS
<1>1. JobOK(Idle) /\ ~InLoop(Idle) /\ Idle.kind # "monitor"
  BY PcsListed DEF JobOK, InLoop, Idle
<1>2. \A w \in Workflows, s \in Slots : job[w][s] = Idle
  BY DEF Init
<1>3. TypeOK
  BY IdleType DEF Init, ControlInit, TypeOK, ControlTypeOK, Statuses, RouteStates
<1>4. JobsOK
  BY <1>1, <1>2 DEF JobsOK
<1>5. MonitorFlagExact
  BY <1>1, <1>2 DEF Init, MonitorFlagExact, InMonitorLoop
<1>6. PauseFlagsAgree
  BY DEF Init, ControlInit, PauseFlagsAgree
<1> QED
  BY <1>3, <1>4, <1>5, <1>6

(* A restart leaves empty slots.                                           *)
LEMMA RestartJobs ==
  ASSUME Restart
  PROVE  /\ job' \in [Workflows -> [Slots -> Jobs]]
         /\ JobsOK'
         /\ \A w \in Workflows, s \in Slots :
              ~InLoop(job'[w][s]) /\ job'[w][s].kind # "monitor" /\ ~StartsWork(w, s)
<1>1. JobOK(Idle) /\ ~InLoop(Idle) /\ Idle.kind # "monitor" /\ Idle.pc \notin WorkPcs
  BY PcsListed DEF JobOK, InLoop, Idle, WorkPcs
<1>2. \A w \in Workflows, s \in Slots : job'[w][s] = Idle
  BY DEF Restart
<1> QED
  BY <1>1, <1>2, IdleType DEF Restart, JobsOK, StartsWork

(* Types and shapes of the jobs carry over every step.                     *)
LEMMA TypeStep ==
  ASSUME TypeOK, JobsOK, [Next]_vars
  PROVE  TypeOK' /\ JobsOK'
<1>1. ASSUME NEW w \in Workflows, NEW s \in Slots, JobStep(w, s)
      PROVE  TypeOK' /\ JobsOK'
  <2>1. JobEffect(w, s)
    BY <1>1, JobStepEffect
  <2>2. JobsOK'
    BY <2>1 DEF JobEffect, SameElsewhere, JobsOK
  <2>3. ControlTypeOK'
    BY <1>1, JobStepRest, ControlType DEF ControlEffect, TypeOK
  <2>4. status' \in [Workflows -> Statuses]
    BY <1>1, JobStepRest, RowEffectKeeps
  <2>5. imStop' \subseteq Workflows /\ route' \in [Workflows -> RouteStates] /\ up' \in BOOLEAN
    BY <1>1, JobStepRest DEF TypeOK
  <2>6. monitoring' \subseteq Workflows
    BY <2>1 DEF JobEffect, TypeOK
  <2> QED
    BY <2>1, <2>2, <2>3, <2>4, <2>5, <2>6 DEF TypeOK, JobEffect
<1>2. ASSUME NEW w \in Workflows, RouteStep(w) \/ UserRequest(w)
      PROVE  TypeOK' /\ JobsOK'
  <2>1. JobsKeep
    BY <1>2, RouteKeeps
  <2>2. ControlTypeOK'
    BY <1>2, RouteRest, ControlType DEF ControlEffect, TypeOK
  <2>3. status' \in [Workflows -> Statuses]
    <3>1. CASE RowEffect(w)
      BY <3>1, RowEffectKeeps
    <3>2. CASE Start(w)
      BY <3>2 DEF Start, TypeOK, Statuses, FetchScreenStatuses
    <3>3. CASE DeleteCommit(w)
      BY <3>3 DEF DeleteCommit, TypeOK, Statuses
    <3> QED
      BY <1>2, <3>1, <3>2, <3>3, RouteRest
  <2> QED
    BY <1>2, <2>1, <2>2, <2>3, RouteRest DEF JobsKeep, TypeOK
<1>3. CASE Shutdown
  <2>1. JobsKeep
    BY <1>3, ShutdownKeeps
  <2> QED
    BY <1>3, <2>1 DEF Shutdown, JobsKeep, TypeOK, ControlTypeOK, controlVars, imVars
<1>4. CASE Restart
  <2>1. ControlTypeOK'
    BY <1>4, ControlType DEF Restart, TypeOK, ForgetControl, ControlTypeOK
  <2>2. status' \in [Workflows -> Statuses]
    BY <1>4 DEF Restart, TypeOK, Statuses, RunnableStatuses
  <2> QED
    BY <1>4, <2>1, <2>2, RestartJobs DEF Restart, TypeOK, RouteStates
<1>5. CASE UNCHANGED vars
  BY <1>5 DEF vars, controlVars, imVars, TypeOK, ControlTypeOK, JobsOK
<1> QED
  BY <1>1, <1>2, <1>3, <1>4, <1>5 DEF Next

(* Every variable of the workflow lifecycle keeps its type, and each job   *)
(* the code and the registration of its coroutine (JobsOK).                *)
THEOREM TypeCorrect == Spec => [](TypeOK /\ JobsOK)
<1>1. Init => TypeOK /\ JobsOK
  BY InitInv
<1>2. TypeOK /\ JobsOK /\ [Next]_vars => (TypeOK /\ JobsOK)'
  BY TypeStep
<1> QED
  BY <1>1, <1>2, PTL DEF Spec

-----------------------------------------------------------------------------
(* The flags of workflow_control.py                                        *)

(* Each operation of workflow_control.py keeps the per-workflow pause flags*)
(* under the global one.                                                   *)
LEMMA ControlEffectAgrees ==
  ASSUME PauseFlagsAgree, NEW w \in Workflows, ControlEffect(w)
  PROVE  PauseFlagsAgree'
  BY DEF PauseFlagsAgree, ControlEffect, ResumeGlobal, PauseGlobal, ResumeWorkflow,
         RequestCancel, RequestCancelAndResume, ClearControl, controlVars

(* No per-workflow pause outlives the global one, whichever jobs end and   *)
(* whichever routes run in whatever order: after resume_global every       *)
(* checkpoint lets every job pass.                                         *)
THEOREM PauseFlagsAlwaysAgree == Spec => []PauseFlagsAgree
<1>1. Init => PauseFlagsAgree
  BY InitInv
<1>2. TypeOK /\ PauseFlagsAgree /\ [Next]_vars => PauseFlagsAgree'
  <2> SUFFICES ASSUME TypeOK, PauseFlagsAgree, [Next]_vars PROVE PauseFlagsAgree'
    OBVIOUS
  <2>1. ASSUME NEW w \in Workflows, NEW s \in Slots, JobStep(w, s) PROVE PauseFlagsAgree'
    BY <2>1, JobStepRest, ControlEffectAgrees
  <2>2. ASSUME NEW w \in Workflows, RouteStep(w) \/ UserRequest(w) PROVE PauseFlagsAgree'
    BY <2>2, RouteRest, ControlEffectAgrees
  <2>3. CASE Shutdown
    BY <2>3 DEF Shutdown, PauseFlagsAgree, controlVars
  <2>4. CASE Restart
    BY <2>4 DEF Restart, ForgetControl, PauseFlagsAgree
  <2>5. CASE UNCHANGED vars
    BY <2>5 DEF vars, controlVars, PauseFlagsAgree
  <2> QED
    BY <2>1, <2>2, <2>3, <2>4, <2>5 DEF Next
<1> QED
  BY <1>1, <1>2, TypeCorrect, PTL DEF Spec

-----------------------------------------------------------------------------
(* The monitor                                                             *)

(* Every step keeps the flag exact.                                        *)
LEMMA MonitorStep ==
  ASSUME TypeOK, JobsOK, MonitorFlagExact, [Next]_vars
  PROVE  MonitorFlagExact'
<1> DEFINE ExactNow ==
             /\ \A w \in Workflows : w \in monitoring <=> \E s \in Slots : InLoop(job[w][s])
             /\ \A w \in Workflows, s, t \in Slots :
                  InLoop(job[w][s]) /\ InLoop(job[w][t]) => s = t
           ExactNext ==
             /\ \A w \in Workflows : w \in monitoring' <=> \E s \in Slots : InLoop(job'[w][s])
             /\ \A w \in Workflows, s, t \in Slots :
                  InLoop(job'[w][s]) /\ InLoop(job'[w][t]) => s = t
<1>0. ExactNow
  BY DEF MonitorFlagExact, InMonitorLoop, InLoop
<1>a. SUFFICES ExactNext
  BY DEF MonitorFlagExact, InMonitorLoop, InLoop
<1>1. ASSUME NEW w \in Workflows, NEW s \in Slots, JobStep(w, s)
      PROVE  ExactNext
  <2>1. JobEffect(w, s)
    BY <1>1, JobStepEffect
  <2>2. CASE monitoring' = monitoring /\ (InLoop(job'[w][s]) <=> InLoop(job[w][s]))
    BY <1>0, <2>1, <2>2 DEF JobEffect, SameElsewhere
  <2>3. CASE monitoring' = monitoring \ {w} /\ InLoop(job[w][s]) /\ ~InLoop(job'[w][s])
    BY <1>0, <2>1, <2>3 DEF JobEffect, SameElsewhere
  <2>4. CASE /\ monitoring' = monitoring \union {w} /\ w \notin monitoring
             /\ ~InLoop(job[w][s]) /\ InLoop(job'[w][s])
    BY <1>0, <2>1, <2>4 DEF JobEffect, SameElsewhere
  <2> QED
    BY <2>1, <2>2, <2>3, <2>4 DEF JobEffect
<1>2. CASE JobsKeep
  BY <1>0, <1>2 DEF JobsKeep
<1>3. CASE Restart
  BY <1>3, RestartJobs DEF Restart
<1>4. CASE UNCHANGED vars
  BY <1>0, <1>4 DEF vars, imVars
<1> QED
  BY <1>1, <1>2, <1>3, <1>4, RouteKeeps, ShutdownKeeps DEF Next

(* _monitor_running holds a workflow iff exactly one monitor task is inside*)
(* its loop, through double spawns, cancellations, exceptions and restarts.*)
THEOREM MonitorFlagAlwaysExact == Spec => []MonitorFlagExact
<1>1. Init => MonitorFlagExact
  BY InitInv
<1>2. TypeOK /\ JobsOK /\ MonitorFlagExact /\ [Next]_vars => MonitorFlagExact'
  BY MonitorStep
<1> QED
  BY <1>1, <1>2, TypeCorrect, PTL DEF Spec

-----------------------------------------------------------------------------
(* Deletion and cancellation                                               *)

(* DELETE /{id} is final: no write of a job, a handler or a route that is  *)
(* still on its way recreates the row.                                     *)
THEOREM DeletionIsFinal == Spec => DeletedStaysDeleted
<1> DEFINE Final == \A w \in Workflows : status[w] = "DELETED" => status'[w] = "DELETED"
<1>1. TypeOK /\ [Next]_vars => Final
  <2> SUFFICES ASSUME TypeOK, [Next]_vars PROVE Final
    OBVIOUS
  <2>1. ASSUME NEW w \in Workflows, NEW s \in Slots, JobStep(w, s) PROVE Final
    BY <2>1, JobStepRest, RowEffectKeeps
  <2>2. ASSUME NEW w \in Workflows, RouteStep(w) \/ UserRequest(w) PROVE Final
    <3>1. CASE RowEffect(w)
      BY <3>1, RowEffectKeeps
    <3>2. CASE Start(w) \/ DeleteCommit(w)
      BY <3>2 DEF Start, DeleteCommit, TypeOK
    <3> QED
      BY <2>2, <3>1, <3>2, RouteRest
  <2>3. CASE Shutdown \/ UNCHANGED vars
    BY <2>3 DEF Shutdown, vars
  <2>4. CASE Restart
    BY <2>4 DEF Restart, FetchScreenStatuses, TypeOK
  <2> QED
    BY <2>1, <2>2, <2>3, <2>4 DEF Next
<1> QED
  BY <1>1, TypeCorrect, PTL DEF Spec, DeletedStaysDeleted

(* Once a cancel has seen a fetch or screening job, that job takes up no   *)
(* further card or screening, whoever clears the cancel flag afterwards.   *)
THEOREM CancelIsEffective == Spec => CancelStopsPipeline
<1> DEFINE Stops == \A w \in Workflows, s \in Slots :
             StartsWork(w, s) /\ job[w][s].kind \in {"fetch", "screen"} => job[w][s].fresh
<1>1. TypeOK /\ JobsOK /\ [Next]_vars => Stops
  <2> SUFFICES ASSUME TypeOK, JobsOK, [Next]_vars PROVE Stops
    OBVIOUS
  <2>1. ASSUME NEW w \in Workflows, NEW s \in Slots, JobStep(w, s) PROVE Stops
    <3>1. JobEffect(w, s)
      BY <2>1, JobStepEffect
    <3>2. \A v \in Workflows, t \in Slots : v # w \/ t # s => ~StartsWork(v, t)
      BY <3>1 DEF JobEffect, SameElsewhere, StartsWork
    <3>3. JobOK(job[w][s])
      BY DEF JobsOK
    <3>4. StartsWork(w, s) /\ job[w][s].kind \in {"fetch", "screen"} => job[w][s].fresh
      BY <3>1, <3>3 DEF JobEffect, JobOK
    <3> QED
      BY <3>2, <3>4
  <2>2. CASE JobsKeep
    BY <2>2 DEF JobsKeep
  <2>3. CASE Restart
    BY <2>3, RestartJobs
  <2>4. CASE UNCHANGED vars
    BY <2>4 DEF vars, StartsWork
  <2> QED
    BY <2>1, <2>2, <2>3, <2>4, RouteKeeps, ShutdownKeeps DEF Next
<1> QED
  BY <1>1, TypeCorrect, PTL DEF Spec, CancelStopsPipeline

-----------------------------------------------------------------------------
(* Who works for a row that looks running                                  *)

Early == {"boot", "mark"}           \* a fetch job before its first write
Under == {"CREATED", "FETCHING"}

(* The row of w, its fetch job and the route on it.  There is one fetch job*)
(* before the first write, and the row says CREATED until it writes or is  *)
(* cancelled; a cancel that finds the row in progress writes it itself.    *)
OwnedRow(w) ==
  /\ status[w] = "NEW" => route[w] = "idle" /\ \A s \in Slots : ~Live(w, s)
  /\ status[w] = "CREATED" => \A s \in Slots : job[w][s].pc \in Early \union {"idle"}
  /\ \A s \in Slots : job[w][s].pc \in Early =>
       /\ job[w][s].kind = "fetch"
       /\ status[w] = "CREATED" \/ job[w][s].killed
       /\ \A t \in Slots : job[w][t].pc \in Early => t = s
  /\ route[w] \notin {"idle", "cancelRunning"} =>
       \A s \in Slots : job[w][s].pc \in Early => job[w][s].killed
  /\ route[w] \in {"cancelOther", "imStopWrite"} => status[w] \notin Under \union {"NEW"}
  /\ status[w] \in Under /\ route[w] = "idle" /\ up =>
       \A s \in Slots : job[w][s].kind = "fetch" => ~job[w][s].killed
  /\ \/ status[w] = "FETCHING"
     \/ status[w] = "CREATED" /\ "profile" \notin Faults
     => FetchJobOf(w) \/ route[w] # "idle" \/ ~up

OwnershipInv == \A w \in Workflows : OwnedRow(w)

(* What a step of a job means for its row, while the database works:       *)
(* it goes on, or another job of the same row takes over,                  *)
GoesOn(w, s) ==
  /\ status' = status
  /\ job'[w][s].kind = "fetch" <=> job[w][s].kind = "fetch"
  /\ job'[w][s].pc \in Early <=> job[w][s].pc \in Early
  /\ job'[w][s].pc \in Early => job'[w][s].killed = job[w][s].killed
  /\ job'[w][s].killed => job[w][s].killed
  /\ job[w][s].kind # "none"

(* or it writes the row for the first time,                                *)
MarksRow(w, s) ==
  /\ UpdateStatus(w, "FETCHING")
  /\ job[w][s].pc = "mark" /\ ~job[w][s].killed
  /\ job'[w][s].pc = "gate" /\ ~job'[w][s].killed /\ job'[w][s].kind = "fetch"

(* or it writes that the row is not running any more,                      *)
LeavesRow(w, s) ==
  /\ \E st \in Statuses \ (Under \union {"NEW"}) : UpdateStatus(w, st)
  /\ job[w][s].pc \notin Early /\ job'[w][s].pc \notin Early /\ ~job'[w][s].killed
  /\ job'[w][s].kind = "fetch" => job[w][s].kind = "fetch"
  /\ job[w][s].kind # "none"

(* or it ends without a word.                                              *)
EndsSilently(w, s) ==
  /\ status' = status /\ job'[w][s] = Idle
  /\ \/ job[w][s].kind # "fetch" \/ job[w][s].killed
     \/ job[w][s].pc = "boot" /\ "profile" \in Faults

RowStep(w, s) == GoesOn(w, s) \/ MarksRow(w, s) \/ LeavesRow(w, s) \/ EndsSilently(w, s)

(* A job that moves on to another await of its coroutine.                  *)
LEMMA GoesOnBy ==
  ASSUME TypeOK, NEW w \in Workflows, NEW s \in Slots, NEW from \in Pcs, NEW to \in Pcs,
         At(w, s, from), Goto(w, s, to), UNCHANGED status,
         from \in Early <=> to \in Early, job[w][s].kind # "none"
  PROVE  GoesOn(w, s)
  BY GotoFields DEF GoesOn, At

(* A job that is replaced by another, or goes round, outside run_fetch_job.*)
LEMMA ReplacedGoesOn ==
  ASSUME TypeOK, NEW w \in Workflows, NEW s \in Slots, NEW j \in Jobs,
         Put(w, s, j), UNCHANGED status,
         j.kind = "fetch" <=> job[w][s].kind = "fetch",
         job[w][s].pc \notin Early, j.pc \notin Early, j.killed => job[w][s].killed,
         job[w][s].kind # "none"
  PROVE  GoesOn(w, s)
  BY PutFields DEF GoesOn

(* A job that ends with nothing written.                                   *)
LEMMA EndsBy ==
  ASSUME TypeOK, NEW w \in Workflows, NEW s \in Slots, Put(w, s, Idle), UNCHANGED status,
         \/ job[w][s].kind # "fetch" \/ job[w][s].killed
         \/ job[w][s].pc = "boot" /\ "profile" \in Faults
  PROVE  EndsSilently(w, s)
  BY IdleType, PutFields DEF EndsSilently

(* A job that writes another status and goes to an await past the first    *)
(* write, or ends.                                                         *)
LEMMA LeavesBy ==
  ASSUME TypeOK, NEW w \in Workflows, NEW s \in Slots,
         NEW st \in Statuses \ (Under \union {"NEW"}), UpdateStatus(w, st),
         job[w][s].pc \notin Early, job[w][s].kind # "none", ~job[w][s].killed,
         Put(w, s, Idle) \/ (\E to \in Pcs \ Early : Goto(w, s, to))
  PROVE  LeavesRow(w, s)
<1>1. CASE Put(w, s, Idle)
  <2>1. Idle.kind = "none" /\ Idle.pc \notin Early /\ ~Idle.killed
    BY DEF Idle, Early
  <2> QED
    BY <1>1, <2>1, IdleType, PutFields DEF LeavesRow
<1>2. ASSUME NEW to \in Pcs \ Early, Goto(w, s, to) PROVE LeavesRow(w, s)
  BY <1>2, GotoFields DEF LeavesRow
<1> QED
  BY <1>1, <1>2

(* The statuses jobs write, apart from FETCHING.                           *)
LEMMA OtherWrites ==
  /\ {"SCREENING", "SCREENING_COMPLETED", "CONVERSATIONS_STARTED"}
       \subseteq Statuses \ (Under \union {"NEW"})
  /\ \A pc \in WritePcs \ {"mark"} : StatusWrite[pc] \in Statuses \ (Under \union {"NEW"})
  BY DEF StatusWrite, WritePcs, Statuses, FetchScreenStatuses, RunnableStatuses, Under

(* Leaving an IM job or a cycle writes nothing.                            *)
LEMMA LeaveRow ==
  ASSUME TypeOK, NEW w \in Workflows, NEW s \in Slots,
         job[w][s].kind # "fetch", ImLeave(w, s), UNCHANGED status
  PROVE  RowStep(w, s)
  BY EndsBy DEF ImLeave, RowStep

LEMMA CycleDoneRow ==
  ASSUME TypeOK, NEW w \in Workflows, NEW s \in Slots, job[w][s].kind # "fetch",
         job[w][s].pc \in CyclePcs, CycleDone(w, s), UNCHANGED status
  PROVE  RowStep(w, s)
<1> DEFINE j == job[w][s]
<1>0. j \in Jobs /\ j.pc \notin Early
  BY PcsListed DEF TypeOK, Early
<1>1. CASE j.kind = "im"
  <2> DEFINE k == NewJob("monitor", "monBoot", TRUE, j.fresh)
  <2>1. k \in Jobs
    <3>1. j.fresh \in BOOLEAN
      BY <1>0 DEF Jobs
    <3> QED
      BY <3>1, NewJobType DEF Kinds, MonitorPcs
  <2>2. k.kind = "monitor" /\ k.pc \notin Early /\ ~k.killed
    BY DEF NewJob, Early
  <2>3. Put(w, s, k)
    BY <1>1 DEF CycleDone
  <2> HIDE DEF k
  <2> QED
    BY <1>0, <1>1, <2>1, <2>2, <2>3, ReplacedGoesOn DEF RowStep
<1>2. CASE j.kind = "monitor" /\ ~ImLeave(w, s)
  <2> DEFINE k == [j EXCEPT !.pc = "monGate", !.n = @ + 1]
  <2>1. Put(w, s, k) /\ j.n < MaxRounds
    BY <1>2 DEF CycleDone
  <2>2. j.n + 1 \in 0 .. MaxRounds
    BY <1>0, <2>1, MaxRoundsAssumption DEF Jobs
  <2>3. k \in Jobs /\ k.kind = "monitor" /\ k.pc = "monGate" /\ k.killed = j.killed
    BY <1>0, <1>2, <2>2 DEF Jobs, MonitorPcs
  <2>4. k.pc \notin Early
    BY <2>3 DEF Early
  <2> HIDE DEF k
  <2> QED
    BY <1>0, <1>2, <2>1, <2>3, <2>4, ReplacedGoesOn DEF RowStep
<1>3. CASE j.kind # "im" /\ (j.kind = "monitor" => ImLeave(w, s))
  BY <1>3, LeaveRow DEF CycleDone
<1> QED
  BY <1>1, <1>2, <1>3

(* While the database works every step of a job is one of the four.        *)
LEMMA JobRowStep ==
  ASSUME TypeOK, JobsOK, "db" \notin Faults, NEW w \in Workflows, NEW s \in Slots,
         OwnedRow(w), JobStep(w, s)
  PROVE  RowStep(w, s)
<1> DEFINE j == job[w][s]
<1>0. /\ j \in Jobs /\ JobOK(j)
      /\ j.pc \in Early => j.kind = "fetch"
  BY DEF TypeOK, JobsOK, OwnedRow
<1>1. CASE FetchBoot(w, s)
  <2>1. j.pc = "boot" /\ At(w, s, "boot") /\ j.kind = "fetch" /\ status' = status
    BY <1>0, <1>1 DEF FetchBoot, At, Early
  <2>2. Goto(w, s, "mark") \/ ("profile" \in Faults /\ Put(w, s, Idle))
    BY <1>1, FaultsAssumption DEF FetchBoot
  <2> QED
    BY <2>1, <2>2, PcsListed, GoesOnBy, EndsBy DEF RowStep, Early
<1>2. CASE FetchMark(w, s)
  <2>1. j.pc = "mark" /\ ~j.killed /\ j.kind = "fetch"
    BY <1>0, <1>2 DEF FetchMark, At, Early
  <2>2. UpdateStatus(w, "FETCHING") /\ Goto(w, s, "gate")
    BY <1>2 DEF FetchMark
  <2> QED
    BY <2>1, <2>2, PcsListed, GotoFields DEF RowStep, MarksRow
<1>3. CASE FetchGate(w, s)
  BY <1>0, <1>3, PcsListed, GoesOnBy DEF FetchGate, At, Checkpoint, RowStep, Early, JobOK
<1>4. CASE FetchCard(w, s)
  <2>1. PICK next \in {"gate", "saveSome", "saveNone", "failed"} :
          /\ At(w, s, "card")
          /\ next = "gate" => j.n + 1 < MaxRounds
          /\ Put(w, s, [j EXCEPT !.pc = next, !.n = IF next = "gate" THEN @ + 1 ELSE @])
    BY <1>4 DEF FetchCard
  <2> DEFINE k == [j EXCEPT !.pc = next, !.n = IF next = "gate" THEN @ + 1 ELSE @]
  <2>2. (IF next = "gate" THEN j.n + 1 ELSE j.n) \in 0 .. MaxRounds
    BY <1>0, <2>1, MaxRoundsAssumption DEF Jobs
  <2>3. next \in FetchPcs /\ next \notin Early
    BY PcsListed DEF Early
  <2>4. k \in Jobs /\ k.pc = next /\ k.kind = j.kind /\ k.killed = j.killed
    BY <1>0, <2>2, <2>3 DEF Jobs
  <2>5. j.pc = "card" /\ j.kind # "none" /\ j.pc \notin Early /\ Put(w, s, k) /\ status' = status
    BY <1>0, <1>4, <2>1, PcsListed DEF At, Early, FetchCard, JobOK
  <2> HIDE DEF k
  <2> QED
    BY <2>3, <2>4, <2>5, ReplacedGoesOn DEF RowStep
<1>5. CASE FetchSave(w, s)
  <2>1. /\ j.pc \in {"saveSome", "saveNone"} /\ ~j.killed
        /\ UpdateStatus(w, StatusWrite[j.pc])
        /\ Goto(w, s, "scrMark") \/ Put(w, s, Idle)
    BY <1>5 DEF FetchSave, At
  <2>2. j.pc \notin Early /\ j.kind # "none" /\ j.pc \in WritePcs \ {"mark"}
    BY <1>0, <2>1, WritePcsListed DEF Early, JobOK
  <2> QED
    BY <2>1, <2>2, OtherWrites, PcsListed, LeavesBy DEF RowStep, Early
<1>6. CASE JobHandler(w, s)
  <2>1. PICK pc \in HandlerPcs \union {"scrCancelled", "scrFailed"} :
          At(w, s, pc) /\ UpdateStatus(w, StatusWrite[pc])
    BY <1>6 DEF JobHandler
  <2>2. pc \in WritePcs \ {"mark"}
    BY WritePcsListed, PcsListed
  <2>3. j.pc \notin Early /\ j.kind # "none" /\ ~j.killed /\ Put(w, s, Idle)
    BY <1>0, <1>6, <2>1, PcsListed DEF Early, JobOK, At, JobHandler
  <2> QED
    BY <2>1, <2>2, <2>3, OtherWrites, LeavesBy DEF RowStep
<1>7. CASE ScreenMark(w, s)
  <2>1. /\ j.pc = "scrMark" /\ ~j.killed
        /\ UpdateStatus(w, "SCREENING") /\ Goto(w, s, "scrGate")
    BY <1>7 DEF ScreenMark, At
  <2>2. j.pc \notin Early /\ j.kind # "none"
    BY <1>0, <2>1 DEF Early, JobOK
  <2> QED
    BY <2>1, <2>2, OtherWrites, PcsListed, LeavesBy DEF RowStep, Early
<1>8. CASE ScreenGate(w, s)
  BY <1>0, <1>8, PcsListed, GoesOnBy DEF ScreenGate, At, Checkpoint, RowStep, Early, JobOK
<1>9. CASE ScreenWork(w, s)
  BY <1>0, <1>9, PcsListed, GoesOnBy DEF ScreenWork, At, RowStep, Early, JobOK
<1>10. CASE ScreenSave(w, s)
  <2> DEFINE k == NewJob("im", "imBoot", TRUE, j.fresh)
  <2>1. /\ j.pc = "scrSave" /\ ~j.killed
        /\ UpdateStatus(w, "SCREENING_COMPLETED")
        /\ Put(w, s, Idle) \/ Put(w, s, k)
    BY <1>10 DEF ScreenSave, At
  <2>2. j.pc \notin Early /\ j.kind # "none"
    BY <1>0, <2>1 DEF Early, JobOK
  <2>3. k \in Jobs
    <3>1. j.fresh \in BOOLEAN
      BY <1>0 DEF Jobs
    <3> QED
      BY <3>1, NewJobType DEF Kinds
  <2>4. k.kind = "im" /\ k.pc \notin Early /\ ~k.killed
    BY DEF NewJob, Early
  <2> HIDE DEF k
  <2>5. CASE Put(w, s, k)
    BY <2>1, <2>2, <2>3, <2>4, <2>5, OtherWrites, PutFields DEF RowStep, LeavesRow
  <2> QED
    BY <2>1, <2>2, <2>5, OtherWrites, LeavesBy DEF RowStep
<1>11. CASE ImBoot(w, s)
  <2> DEFINE kd == IF w \in monitoring THEN "imExtra" ELSE "im"
             k == [j EXCEPT !.pc = "cycle", !.kind = kd]
  <2>1. j.pc = "imBoot" /\ Put(w, s, k) /\ status' = status
    BY <1>11 DEF ImBoot, At
  <2>2. kd \in Kinds /\ kd # "fetch" /\ "cycle" \in FetchPcs \union MonitorPcs \union {"idle", "imBoot"}
    BY PcsListed DEF Kinds
  <2>3. k \in Jobs /\ k.pc = "cycle" /\ k.kind = kd /\ k.killed = j.killed
    BY <1>0, <2>2 DEF Jobs
  <2> HIDE DEF k, kd
  <2>4. j.pc \notin Early /\ k.pc \notin Early /\ j.kind # "fetch" /\ j.kind # "none"
    BY <1>0, <2>1, <2>3, PcsListed DEF Early, JobOK
  <2> QED
    BY <2>1, <2>2, <2>3, <2>4, ReplacedGoesOn DEF RowStep
<1>12. CASE MonitorBoot(w, s)
  <2>1. At(w, s, "monBoot") /\ j.kind = "monitor" /\ status' = status
    BY <1>0, <1>12 DEF MonitorBoot, At, JobOK
  <2>2. Put(w, s, Idle) \/ Goto(w, s, "monGate")
    BY <1>12 DEF MonitorBoot
  <2> QED
    BY <2>1, <2>2, PcsListed, GoesOnBy, EndsBy DEF RowStep, Early
<1>a. j.pc \in MonitorPcs => j.kind # "fetch" /\ j.kind # "none"
  BY <1>0, PcsListed DEF JobOK
<1>13. CASE MonitorGate(w, s)
  BY <1>a, <1>13, PcsListed, GoesOnBy, LeaveRow DEF MonitorGate, At, RowStep, Early
<1>14. CASE CycleBegin(w, s)
  BY <1>a, <1>14, PcsListed, GoesOnBy, LeaveRow, CycleDoneRow DEF CycleBegin, At, RowStep, Early
<1>15. CASE CycleMark(w, s)
  BY <1>a, <1>15, PcsListed, OtherWrites, LeavesBy DEF CycleMark, At, RowStep, Early
<1>16. CASE CycleGate(w, s)
  BY <1>a, <1>16, PcsListed, GoesOnBy, LeaveRow DEF CycleGate, At, RowStep, Early
<1>17. CASE CycleSend(w, s)
  <2>0. j.pc = "cySend" /\ status' = status
    BY <1>17 DEF CycleSend, At
  <2>1. CASE j.n < MaxRounds /\ Put(w, s, [j EXCEPT !.pc = "cyGate", !.n = @ + 1])
    <3> DEFINE k == [j EXCEPT !.pc = "cyGate", !.n = @ + 1]
    <3>1. j.n + 1 \in 0 .. MaxRounds
      BY <1>0, <2>1, MaxRoundsAssumption DEF Jobs
    <3>2. "cyGate" \in FetchPcs \union MonitorPcs \union {"idle", "imBoot"}
      BY PcsListed
    <3>3. k \in Jobs /\ k.pc = "cyGate" /\ k.kind = j.kind /\ k.killed = j.killed
      BY <1>0, <3>1, <3>2 DEF Jobs
    <3>4. Put(w, s, k)
      BY <2>1
    <3> HIDE DEF k
    <3>5. j.pc \notin Early /\ k.pc \notin Early
      BY <2>0, <3>3 DEF Early
    <3> QED
      BY <1>a, <2>0, <3>3, <3>4, <3>5, PcsListed, ReplacedGoesOn DEF RowStep
  <2> QED
    BY <1>a, <1>17, <2>0, <2>1, PcsListed, LeaveRow, CycleDoneRow DEF CycleSend
<1>18. CASE Deliver(w, s)
  <2>0. j.killed /\ status' = status
    BY <1>18 DEF Deliver
  <2>1. CASE j.kind = "fetch" /\ j.pc \in FetchTryPcs
    <3> DEFINE k == [j EXCEPT !.pc = "shutdown", !.killed = FALSE]
    <3>1. Put(w, s, k)
      BY <1>18, <2>1 DEF Deliver
    <3>2. "shutdown" \in FetchPcs \union MonitorPcs \union {"idle", "imBoot"}
      BY PcsListed
    <3>3. k \in Jobs /\ k.pc = "shutdown" /\ k.kind = j.kind /\ ~k.killed
      BY <1>0, <3>2 DEF Jobs
    <3>4. j.pc \notin Early
      BY <2>1 DEF FetchTryPcs, ScreenTryPcs, Early
    <3> HIDE DEF k
    <3> QED
      BY <2>0, <2>1, <3>1, <3>3, <3>4, ReplacedGoesOn DEF RowStep, Early
  <2>2. CASE ~(j.kind = "fetch" /\ j.pc \in FetchTryPcs)
    BY <1>18, <2>0, <2>2, EndsBy DEF Deliver, RowStep
  <2> QED
    BY <2>1, <2>2
<1> QED
  BY <1>1, <1>2, <1>3, <1>4, <1>5, <1>6, <1>7, <1>8, <1>9, <1>10, <1>11, <1>12, <1>13, <1>14, <1>15, <1>16, <1>17, <1>18 DEF JobStep

(* A row is judged by its own status, jobs and route.                      *)
LEMMA OtherRow ==
  ASSUME NEW w \in Workflows, OwnedRow(w),
         status'[w] = status[w], route'[w] = route[w], up' = up,
         \A s \in Slots : job'[w][s] = job[w][s]
  PROVE  OwnedRow(w)'
  BY DEF OwnedRow, FetchJobOf, Live

(* Each of the four kinds of job step keeps the row owned.                 *)
LEMMA JobStepOwned ==
  ASSUME TypeOK, JobsOK, "db" \notin Faults, OwnershipInv,
         NEW w \in Workflows, NEW s \in Slots, JobStep(w, s)
  PROVE  OwnershipInv'
<1>0. OwnedRow(w) /\ RowStep(w, s) /\ SameElsewhere(w, s) /\ JobEffect(w, s)
  BY JobRowStep, JobStepEffect DEF OwnershipInv, JobEffect
<1>1. /\ \A t \in Slots : t # s => job'[w][t] = job[w][t]
      /\ route' = route /\ up' = up
      /\ \A t \in Slots : JobOK(job[w][t])
      /\ JobOK(job'[w][s])
  BY <1>0, JobStepRest DEF SameElsewhere, JobsOK, JobEffect
<1>2. \A v \in Workflows : v # w => OwnedRow(v)'
  <2> SUFFICES ASSUME NEW v \in Workflows, v # w PROVE OwnedRow(v)'
    OBVIOUS
  <2>1. status'[v] = status[v]
    BY <1>0 DEF RowStep, GoesOn, MarksRow, LeavesRow, EndsSilently, UpdateStatus, TypeOK
  <2> QED
    BY <1>0, <1>1, <2>1, OtherRow DEF SameElsewhere, OwnershipInv
<1>3. OwnedRow(w)'
  <2>1. CASE GoesOn(w, s)
    BY <1>0, <1>1, <2>1 DEF GoesOn, OwnedRow, FetchJobOf, Live, JobOK
  <2>2. CASE MarksRow(w, s)
    <3>1. /\ job[w][s].pc \in Early /\ job'[w][s].pc \notin Early
          /\ job[w][s].kind = "fetch" /\ status[w] = "CREATED"
      BY <1>0, <2>2 DEF MarksRow, OwnedRow, Early
    <3>2. status'[w] = "FETCHING"
      BY <2>2, <3>1 DEF MarksRow, UpdateStatus, Exists, TypeOK
    <3> QED
      BY <1>0, <1>1, <2>2, <3>1, <3>2 DEF MarksRow, OwnedRow, FetchJobOf, Live, Under
  <2>3. CASE LeavesRow(w, s)
    <3>1. PICK st \in Statuses \ (Under \union {"NEW"}) : UpdateStatus(w, st)
      BY <2>3 DEF LeavesRow
    <3>2. /\ status'[w] = IF Exists(w) THEN st ELSE status[w]
          /\ status[w] # "NEW" /\ status[w] # "CREATED"
      BY <1>0, <1>1, <2>3, <3>1 DEF LeavesRow, OwnedRow, UpdateStatus, TypeOK, Live, JobOK, Early
    <3>3. status'[w] \notin Under \union {"NEW"}
      BY <3>2 DEF Exists, Under
    <3> QED
      BY <1>0, <1>1, <2>3, <3>2, <3>3 DEF LeavesRow, OwnedRow, Under
  <2>4. CASE EndsSilently(w, s)
    <3>1. Idle.kind = "none" /\ Idle.pc = "idle" /\ "idle" \notin Early
      BY DEF Idle, Early
    <3> QED
      BY <1>0, <1>1, <2>4, <3>1 DEF EndsSilently, OwnedRow, FetchJobOf, Live, Under, Early
  <2> QED
    BY <1>0, <2>1, <2>2, <2>3, <2>4 DEF RowStep
<1> QED
  BY <1>2, <1>3 DEF OwnershipInv

(* cancel_workflow_tasks reaches every fetch job, those before their first *)
(* write included, and moves none.                                         *)
LEMMA CancelReaches ==
  ASSUME TypeOK, JobsOK, NEW w \in Workflows, OwnedRow(w), CancelWorkflowTasks(w)
  PROVE  /\ \A v \in Workflows \ {w} : job'[v] = job[v]
         /\ \A s \in Slots :
              /\ job'[w][s].pc = job[w][s].pc /\ job'[w][s].kind = job[w][s].kind
              /\ job[w][s].pc \in Early => job'[w][s].killed
<1>1. \A v \in Workflows \ {w} : job'[v] = job[v]
  BY DEF CancelWorkflowTasks, TypeOK
<1>2. ASSUME NEW s \in Slots
      PROVE  /\ job'[w][s].pc = job[w][s].pc /\ job'[w][s].kind = job[w][s].kind
             /\ job[w][s].pc \in Early => job'[w][s].killed
  <2> DEFINE j == job[w][s]
             k == [j EXCEPT !.killed = j.killed \/ j.reg, !.fresh = FALSE]
  <2>1. j \in Jobs /\ JobOK(j) /\ (j.pc \in Early => j.kind = "fetch")
    BY DEF TypeOK, JobsOK, OwnedRow
  <2>2. CASE ~Live(w, s)
    <3>1. job'[w][s] = j
      BY <2>2 DEF CancelWorkflowTasks, TypeOK
    <3> QED
      BY <2>1, <2>2, <3>1 DEF Live
  <2>3. CASE Live(w, s)
    <3>1. job'[w][s] = k
      BY <2>3 DEF CancelWorkflowTasks, TypeOK
    <3>2. k.kind = j.kind /\ k.pc = j.pc /\ k.killed = (j.killed \/ j.reg)
      BY <2>1 DEF Jobs
    <3>3. j.kind = "fetch" => j.reg
      BY <2>1 DEF JobOK
    <3> QED
      BY <2>1, <3>1, <3>2, <3>3
  <2> QED
    BY <2>2, <2>3
<1> QED
  BY <1>1, <1>2

(* A commit under way at a cancel can write FETCHING only for a fetch job  *)
(* that has not been cancelled before.                                     *)
LEMMA InFlightRow ==
  ASSUME TypeOK, NEW w \in Workflows, InFlightWrite(w), status[w] # "NEW"
  PROVE  /\ \A v \in Workflows \ {w} : status'[v] = status[v]
         /\ status'[w] # "NEW"
         /\ status'[w] = "CREATED" => status[w] = "CREATED"
         /\ status'[w] = "FETCHING" =>
              \/ status[w] = "FETCHING"
              \/ \E s \in Slots : job[w][s].pc \in Early /\ ~job[w][s].killed
<1>1. CASE UNCHANGED status
  BY <1>1
<1>2. ASSUME NEW s \in Slots, ~job[w][s].killed, job[w][s].pc \in WritePcs,
             UpdateStatus(w, StatusWrite[job[w][s].pc])
      PROVE  /\ \A v \in Workflows \ {w} : status'[v] = status[v]
             /\ status'[w] # "NEW"
             /\ status'[w] = "CREATED" => status[w] = "CREATED"
             /\ status'[w] = "FETCHING" => status[w] = "FETCHING" \/ job[w][s].pc \in Early
  <2>1. StatusWrite["mark"] = "FETCHING"
    BY DEF StatusWrite
  <2>2. /\ StatusWrite[job[w][s].pc] \notin {"NEW", "CREATED"}
        /\ StatusWrite[job[w][s].pc] = "FETCHING" => job[w][s].pc \in Early
    BY <1>2, <2>1, OtherWrites DEF Under, Early
  <2>3. \A v \in Workflows : status'[v] = IF v = w /\ Exists(w)
                                          THEN StatusWrite[job[w][s].pc] ELSE status[v]
    BY <1>2 DEF UpdateStatus, TypeOK
  <2> QED
    BY <2>2, <2>3
<1> QED
  BY <1>1, <1>2 DEF InFlightWrite

(* A screening job or an autopilot that starts does not own the row.       *)
LEMMA SpawnOwned ==
  ASSUME TypeOK, JobsOK, NEW w \in Workflows, OwnedRow(w), status[w] \notin {"NEW", "CREATED"},
         NEW kind \in Kinds \ {"fetch"}, NEW pc \in Pcs \ Early, NEW reg \in BOOLEAN,
         Spawn(w, kind, pc, reg), UNCHANGED <<status, route, up>>
  PROVE  /\ OwnedRow(w)'
         /\ \A v \in Workflows \ {w}, s \in Slots : job'[v][s] = job[v][s]
<1> DEFINE k == NewJob(kind, pc, reg, TRUE)
<1>1. PICK s \in Slots : ~Live(w, s) /\ Put(w, s, k)
  BY DEF Spawn
<1>2. k \in Jobs /\ k.kind = kind /\ k.pc = pc
  BY NewJobType DEF Pcs, NewJob
<1> HIDE DEF k
<1>3. job'[w][s] = k /\ SameElsewhere(w, s)
  BY <1>1, <1>2, PutFields
<1>4. job[w][s].kind # "fetch"
  BY <1>1 DEF Live
<1>5. OwnedRow(w)'
  BY <1>2, <1>3, <1>4 DEF OwnedRow, SameElsewhere, FetchJobOf, Live
<1> QED
  BY <1>3, <1>5 DEF SameElsewhere

(* The start route: one fetch job for the row that was just created.       *)
LEMMA StartOwned ==
  ASSUME TypeOK, JobsOK, NEW w \in Workflows, OwnedRow(w), Start(w)
  PROVE  OwnedRow(w)' /\ \A v \in Workflows \ {w}, s \in Slots : job'[v][s] = job[v][s]
<1> DEFINE k == NewJob("fetch", "boot", TRUE, TRUE)
<1>1. PICK s \in Slots : ~Live(w, s) /\ Put(w, s, k)
  BY DEF Start, Spawn
<1>2. k \in Jobs /\ k.kind = "fetch" /\ k.pc = "boot" /\ ~k.killed
  <2>1. "fetch" \in Kinds /\ "boot" \in Pcs
    BY PcsListed DEF Kinds
  <2> QED
    BY <2>1, NewJobType DEF NewJob, Pcs
<1> HIDE DEF k
<1>3. job'[w][s] = k /\ SameElsewhere(w, s)
  BY <1>1, <1>2, PutFields
<1>4. status[w] = "NEW" /\ status'[w] = "CREATED" /\ route'[w] = "idle" /\ up' = up
  BY DEF Start, OwnedRow, TypeOK
<1>5. \A t \in Slots : t # s => job'[w][t].kind = "none" /\ job'[w][t].pc = "idle"
  BY <1>3, <1>4 DEF OwnedRow, Live, JobsOK, JobOK, SameElsewhere
<1>6. OwnedRow(w)'
  BY <1>2, <1>3, <1>4, <1>5 DEF OwnedRow, FetchJobOf, Live, Early, Under
<1> QED
  BY <1>3, <1>6 DEF SameElsewhere

(* The routes that leave the jobs alone.                                   *)
LEMMA QuietRouteOwned ==
  ASSUME TypeOK, "db" \notin Faults, NEW w \in Workflows, OwnedRow(w), UNCHANGED job,
         \/ StopImAutopilot(w) \/ PauseExecution(w) \/ ResumeExecution(w) \/ CancelRead(w)
         \/ CancelWrite(w) \/ DeleteClear(w) \/ DeleteCommit(w) \/ StopImWrite(w)
  PROVE  OwnedRow(w)'
<1>1. CASE PauseExecution(w) \/ ResumeExecution(w)
  BY <1>1, OtherRow DEF PauseExecution, ResumeExecution
<1>2. CASE StopImAutopilot(w)
  BY <1>2 DEF StopImAutopilot, RouteGoto, TypeOK, OwnedRow, FetchJobOf, Live, Under, Exists
<1>3. CASE CancelRead(w)
  BY <1>3 DEF CancelRead, RouteGoto, TypeOK, OwnedRow, FetchJobOf, Live, Under, Exists
<1>4. CASE CancelWrite(w) \/ StopImWrite(w)
  <2>1. /\ status'[w] \notin Under \union {"NEW"} /\ route'[w] = "idle" /\ up' = up
        /\ route[w] \in {"cancelWrite", "imStopWrite"}
    BY <1>4 DEF CancelWrite, StopImWrite, UpdateStatus, RouteGoto, Exists, TypeOK, OwnedRow, Under
  <2> QED
    BY <2>1 DEF OwnedRow, FetchJobOf, Live, Under
<1>5. CASE DeleteClear(w)
  BY <1>5 DEF DeleteClear, RouteGoto, TypeOK, OwnedRow, FetchJobOf, Live, Under
<1>6. CASE DeleteCommit(w)
  BY <1>6 DEF DeleteCommit, RouteGoto, TypeOK, OwnedRow, FetchJobOf, Live, Under
<1> QED
  BY <1>1, <1>2, <1>3, <1>4, <1>5, <1>6

(* A cancel or delete meets every fetch job of the row and then owns it.   *)
LEMMA CancelOwned ==
  ASSUME TypeOK, JobsOK, NEW w \in Workflows, OwnedRow(w), CancelApply(w) \/ DeleteApply(w)
  PROVE  OwnedRow(w)' /\ \A v \in Workflows \ {w}, s \in Slots : job'[v][s] = job[v][s]
<1>1. CancelWorkflowTasks(w) /\ InFlightWrite(w) /\ up' = up /\ status[w] # "NEW"
  BY DEF CancelApply, DeleteApply, OwnedRow, Exists
<1>2. \A s \in Slots :
        /\ job'[w][s].pc = job[w][s].pc /\ job'[w][s].kind = job[w][s].kind
        /\ job[w][s].pc \in Early => job'[w][s].killed
  BY <1>1, CancelReaches
<1>3. /\ status'[w] # "NEW"
      /\ status'[w] = "CREATED" => status[w] = "CREATED"
      /\ status'[w] = "FETCHING" =>
           \/ status[w] = "FETCHING"
           \/ \E s \in Slots : job[w][s].pc \in Early /\ ~job[w][s].killed
  BY <1>1, InFlightRow
<1>4. /\ route'[w] = "idle" => status[w] \notin {"CREATED", "FETCHING"} /\ status'[w] \notin Under
      /\ route'[w] \notin {"cancelOther", "imStopWrite"}
  <2>1. CASE CancelApply(w)
    BY <1>3, <2>1 DEF CancelApply, RouteGoto, TypeOK, OwnedRow, Under
  <2>2. CASE DeleteApply(w)
    BY <2>2 DEF DeleteApply, RouteGoto, TypeOK
  <2> QED
    BY <2>1, <2>2
<1>5. status'[w] = "CREATED" => \A s \in Slots : job'[w][s].pc \in Early \union {"idle"}
  BY <1>2, <1>3 DEF OwnedRow
<1>6. \A s \in Slots : job'[w][s].pc \in Early =>
        /\ job'[w][s].kind = "fetch" /\ job'[w][s].killed
        /\ \A t \in Slots : job'[w][t].pc \in Early => t = s
  BY <1>2 DEF OwnedRow
<1>7. OwnedRow(w)'
  BY <1>1, <1>3, <1>4, <1>5, <1>6 DEF OwnedRow, Under
<1> QED
  BY <1>1, <1>7, CancelReaches

(* No route touches the row or the call on another workflow.               *)
LEMMA RouteElsewhere ==
  ASSUME TypeOK, NEW w \in Workflows, RouteStep(w) \/ UserRequest(w)
  PROVE  \A v \in Workflows \ {w} :
           status'[v] = status[v] /\ route'[v] = route[v]
<1>1. \A v \in Workflows \ {w} : status'[v] = status[v]
  BY RouteRest DEF RowEffect, UpdateStatus, Start, DeleteCommit, TypeOK
<1>2. (\E r \in RouteStates : RouteGoto(w, r)) \/ UNCHANGED route
  BY DEF RouteStep, UserRequest, Start, TriggerScreening, StartImAutopilot, StopImAutopilot,
         PauseExecution, ResumeExecution, CancelRead, DeleteApply, CancelApply, CancelWrite,
         DeleteClear, DeleteCommit, StopImWrite, RouteStates
<1> QED
  BY <1>1, <1>2 DEF RouteGoto, TypeOK

(* Every route keeps every row owned.                                      *)
LEMMA RouteOwned ==
  ASSUME TypeOK, JobsOK, "db" \notin Faults, OwnershipInv,
         NEW w \in Workflows, RouteStep(w) \/ UserRequest(w)
  PROVE  OwnershipInv'
<1>0. OwnedRow(w) /\ up' = up
  BY RouteRest DEF OwnershipInv
<1>1. OwnedRow(w)' /\ \A v \in Workflows \ {w}, s \in Slots : job'[v][s] = job[v][s]
  <2>1. CASE Start(w)
    BY <1>0, <2>1, StartOwned
  <2>2. CASE TriggerScreening(w)
    <3>1. status[w] \notin {"NEW", "CREATED"} /\ "screen" \in Kinds \ {"fetch"}
          /\ "scrMark" \in Pcs \ Early
      BY <2>2, PcsListed DEF TriggerScreening, ScreenableStatuses, Kinds, Early
    <3> QED
      BY <1>0, <2>2, <3>1, SpawnOwned DEF TriggerScreening
  <2>3. CASE StartImAutopilot(w)
    <3>1. status[w] \notin {"NEW", "CREATED"} /\ "im" \in Kinds \ {"fetch"}
          /\ "imBoot" \in Pcs \ Early
      BY <2>3, PcsListed DEF StartImAutopilot, ImReadyStatuses, RunnableStatuses, Kinds, Early
    <3> QED
      BY <1>0, <2>3, <3>1, SpawnOwned DEF StartImAutopilot
  <2>4. CASE CancelApply(w) \/ DeleteApply(w)
    BY <1>0, <2>4, CancelOwned
  <2>5. CASE \/ StopImAutopilot(w) \/ PauseExecution(w) \/ ResumeExecution(w) \/ CancelRead(w)
             \/ CancelWrite(w) \/ DeleteClear(w) \/ DeleteCommit(w) \/ StopImWrite(w)
    <3>1. UNCHANGED job
      BY <2>5 DEF StopImAutopilot, PauseExecution, ResumeExecution, CancelRead, CancelWrite,
                  DeleteClear, DeleteCommit, StopImWrite
    <3> QED
      BY <1>0, <2>5, <3>1, QuietRouteOwned
  <2> QED
    BY <2>1, <2>2, <2>3, <2>4, <2>5 DEF RouteStep, UserRequest
<1> QED
  BY <1>0, <1>1, RouteElsewhere, OtherRow DEF OwnershipInv

(* Shutdown cancels and the restart reconciles.                            *)
LEMMA ShutdownOwned ==
  ASSUME TypeOK, OwnershipInv, Shutdown
  PROVE  OwnershipInv'
<1> SUFFICES ASSUME NEW w \in Workflows PROVE OwnedRow(w)'
  BY DEF OwnershipInv
<1>1. OwnedRow(w) /\ up' = FALSE /\ status' = status /\ route' = route
  BY DEF OwnershipInv, Shutdown
<1>2. ASSUME NEW s \in Slots
      PROVE  /\ job'[w][s].pc = job[w][s].pc /\ job'[w][s].kind = job[w][s].kind
             /\ job[w][s].pc \in Early => job'[w][s].killed
  <2>1. job[w][s] \in Jobs
    BY DEF TypeOK
  <2>2. job'[w][s] = IF Live(w, s) THEN KilledJob(job[w][s]) ELSE job[w][s]
    BY DEF Shutdown
  <2> QED
    BY <1>1, <2>1, <2>2 DEF KilledJob, Jobs, Live, OwnedRow
<1> QED
  BY <1>1, <1>2 DEF OwnedRow, FetchJobOf, Live

LEMMA RestartOwned ==
  ASSUME TypeOK, Restart
  PROVE  OwnershipInv'
<1> SUFFICES ASSUME NEW w \in Workflows PROVE OwnedRow(w)'
  BY DEF OwnershipInv
<1>1. status'[w] \notin Under /\ route'[w] = "idle"
  BY DEF Restart, FetchScreenStatuses, Under, TypeOK
<1>2. \A s \in Slots : job'[w][s].pc = "idle" /\ job'[w][s].kind = "none"
  BY DEF Restart, Idle
<1> QED
  BY <1>1, <1>2 DEF OwnedRow, Live, Under, Early

(* A row the console shows as waiting or fetching has a fetch job, or a    *)
(* cancel or delete that is about to write it, or the process is going     *)
(* down: with a database that works, and (for a row that waits) a browser  *)
(* profile that can be prepared, no order of jobs, routes, cancellations   *)
(* and restarts forgets it.                                                *)
THEOREM RowsAreOwned == Spec => []FetchRowsAreOwned
<1> DEFINE Owned == "db" \notin Faults => OwnershipInv
<1>1. Init => Owned
  <2> SUFFICES ASSUME Init, NEW w \in Workflows PROVE OwnedRow(w)
    BY DEF OwnershipInv
  <2>1. status[w] = "NEW" /\ route[w] = "idle"
        /\ \A s \in Slots : job[w][s].pc = "idle" /\ job[w][s].kind = "none"
    BY DEF Init, Idle
  <2> QED
    BY <2>1 DEF OwnedRow, Live, Under, Early
<1>2. TypeOK /\ JobsOK /\ Owned /\ [Next]_vars => Owned'
  <2> SUFFICES ASSUME TypeOK, JobsOK, [Next]_vars, "db" \notin Faults, OwnershipInv
               PROVE  OwnershipInv'
    OBVIOUS
  <2>1. CASE UNCHANGED vars
    BY <2>1, OtherRow DEF vars, OwnershipInv
  <2> QED
    BY <2>1, JobStepOwned, RouteOwned, ShutdownOwned, RestartOwned DEF Next
<1>3. Owned => FetchRowsAreOwned
  BY DEF FetchRowsAreOwned, OwnershipInv, OwnedRow
<1> QED
  BY <1>1, <1>2, <1>3, TypeCorrect, PTL DEF Spec

=============================================================================
