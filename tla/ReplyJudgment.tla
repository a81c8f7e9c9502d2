----------------------------- MODULE ReplyJudgment -----------------------------
(***************************************************************************)
(* The final judgment of one workflow: its runner, which HR starts and     *)
(* stops (services/agent_service/reply_judgment_runner.py), the serial     *)
(* reading and judging of replies (followup_conversation_service.py) and   *)
(* the report at the end (reply_summary_agent.py); and the scan for unread *)
(* replies, which HR and the autopilot run beside it, and which judges what*)
(* it reads as well.                                                       *)
(*                                                                         *)
(* A reply is <<candidate, n>>, the n-th the candidate wrote; only the     *)
(* latest can be read.  A pause only lengthens the awaits.                 *)
(***************************************************************************)
EXTENDS Naturals, FiniteSets

CONSTANTS People, MaxReplies, MaxStarts, MaxScans

ASSUME JudgmentLimits == {MaxReplies, MaxStarts} \subseteq Nat \ {0} /\ MaxScans \in Nat

VARIABLES
  running,      \* the workflow is in _running
  stopEvent,    \* its event in _stop_events is set
  phase,        \* _status: phase
  reportReady,  \* _status: report_ready
  stage,        \* the await the runner stands in
  toRead,       \* candidates whose chat is still to be read
  unread,       \* outcomes still to be judged: replies
  chosen,       \* the reply being judged
  covered,      \* which screening of each candidate the report in the making shows
  spawned,      \* tasks of the route that have not begun
  starts,
  inbound,      \* what a scan has read: replies
  scans,
  chat,         \* external: how many replies each candidate wrote
  stored,       \* inbound messages of the database: replies
  screened,     \* how often each candidate was screened again for a reply
  judged,       \* history: how often the runner judged each reply
  reported,     \* which screening of each candidate the stored report shows
  rescored      \* history: whom a scan screened since the report was begun

runStatus == <<phase, reportReady>>
work      == <<toRead, unread, chosen, covered>>
scan      == <<inbound, scans, rescored>>
db        == <<chat, stored, screened, judged, reported>>
judgmentVars == <<running, stopEvent, runStatus, stage, work, spawned, starts, scan, db>>

Replies == People \X (1..MaxReplies)
NoReply == <<>>
Never   == [c \in People |-> 0]

JudgmentInit ==
  /\ running = FALSE /\ stopEvent = FALSE
  /\ phase = "standby" /\ reportReady = FALSE
  /\ stage = "idle" /\ toRead = {} /\ unread = {} /\ chosen = NoReply /\ covered = Never
  /\ spawned = 0 /\ starts = 0
  /\ inbound = {} /\ scans = 0 /\ rescored = {}
  /\ chat \in [People -> 0..1]
  /\ stored = {} /\ screened = Never /\ judged = [r \in Replies |-> 0] /\ reported = Never

-----------------------------------------------------------------------------
(* The routes                                                              *)

(* POST reply-judgment/start looks at _running and spawns a task that does *)
(* not belong to the workflow.                                             *)
StartRoute ==
  /\ ~running /\ starts < MaxStarts
  /\ starts' = starts + 1 /\ spawned' = spawned + 1
  /\ UNCHANGED <<running, stopEvent, runStatus, stage, work, scan, db>>

(* stop_reply_judgment: the phase is written whether it runs or not.       *)
Stop ==
  /\ stopEvent' = TRUE /\ phase' = "stopped"
  /\ UNCHANGED <<running, reportReady, stage, work, spawned, starts, scan, db>>

(* A candidate writes in the chat window.                                  *)
Answer(c) ==
  /\ chat[c] < MaxReplies
  /\ chat' = [chat EXCEPT ![c] = @ + 1]
  /\ UNCHANGED <<running, stopEvent, runStatus, stage, work, spawned, starts, scan, stored, screened,
                 judged, reported>>

-----------------------------------------------------------------------------
(* start_reply_judgment and _run_serial                                    *)

RunBegins ==
  /\ spawned > 0 /\ spawned' = spawned - 1
  /\ IF running
       THEN UNCHANGED <<running, stopEvent, stage>>
       ELSE running' = TRUE /\ stopEvent' = FALSE /\ stage' = "list"
  /\ UNCHANGED <<runStatus, work, starts, scan, db>>

(* Mutant of Judging: what an earlier run reported stays announced.        *)
JudgingKeepsReport == phase' = "judging" /\ UNCHANGED reportReady

Judging == phase' = "judging" /\ reportReady' = FALSE

Summarizing == phase' = "summarizing" /\ reportReady' = FALSE /\ stage' = "report"

(* list_reply_judgment_targets: whose conversation awaits an answer.       *)
List ==
  /\ stage = "list"
  /\ \E targets \in SUBSET People :
       \/ targets = {} /\ Summarizing /\ UNCHANGED toRead
       \/ targets # {} /\ Judging /\ toRead' = targets /\ stage' = "read"
  /\ UNCHANGED <<running, stopEvent, unread, chosen, covered, spawned, starts, scan, db>>

(* run_im_sync_replies_serial, under the lock of the workflow: one chat    *)
(* after the other is opened and its latest reply read.                    *)
Read ==
  /\ stage = "read"
  /\ IF stopEvent \/ toRead = {}
       THEN stage' = "judge" /\ toRead' = {} /\ UNCHANGED unread
       ELSE \E c \in toRead :
              /\ toRead' = toRead \ {c}
              /\ \/ UNCHANGED unread                        \* not found, no reply
                 \/ chat[c] > 0 /\ unread' = unread \union {<<c, chat[c]>>}
              /\ UNCHANGED stage
  /\ UNCHANGED <<running, stopEvent, runStatus, chosen, covered, spawned, starts, scan, db>>

(* Mutant of AlreadyStored: it is assumed that a reply comes once.         *)
NeverStored(r) == FALSE

(* _inbound_already_stored: by its text, among the conversation's messages.*)
AlreadyStored(r) == r \in stored

(* The loop over the outcomes in run_serial_reply_judgment.                *)
Judge ==
  /\ stage = "judge"
  /\ \/ /\ stopEvent
        /\ phase' = "stopped" /\ reportReady' = FALSE
        /\ running' = FALSE /\ stage' = "idle" /\ unread' = {} /\ UNCHANGED chosen
     \/ /\ ~stopEvent /\ unread = {}
        /\ Summarizing
        /\ UNCHANGED <<running, unread, chosen>>
     \/ /\ ~stopEvent
        /\ \E r \in unread :
             /\ unread' = unread \ {r}
             /\ IF AlreadyStored(r) THEN UNCHANGED <<stage, chosen>>
                                    ELSE stage' = "enrich" /\ chosen' = r
        /\ UNCHANGED <<running, runStatus>>
  /\ UNCHANGED <<stopEvent, toRead, covered, spawned, starts, scan, db>>

(* apply_reply_enrichment: the agent's answer, the stored reply and the    *)
(* new screening in one transaction, or none of it.                        *)
Enrich ==
  /\ stage = "enrich" /\ stage' = "judge"
  /\ \/ /\ stored' = stored \union {chosen}
        /\ screened' = [screened EXCEPT ![chosen[1]] = @ + 1]
        /\ judged' = [judged EXCEPT ![chosen] = @ + 1]
     \/ UNCHANGED <<stored, screened, judged>>
  /\ chosen' = NoReply
  /\ UNCHANGED <<running, stopEvent, runStatus, toRead, unread, covered, spawned, starts, scan,
                 chat, reported>>

(* generate_reply_judgment_summary_report: the candidates are listed, ...  *)
Report ==
  /\ stage = "report" /\ ~stopEvent
  /\ covered' = screened /\ rescored' = {}
  /\ stage' = "persist"
  /\ UNCHANGED <<running, stopEvent, runStatus, toRead, unread, chosen, spawned, starts, inbound,
                 scans, db>>

(* ... ranked in an await; not stopped by then, the report is stored.      *)
Persist ==
  /\ stage = "persist" /\ ~stopEvent
  /\ stage' = "storing"
  /\ UNCHANGED <<running, stopEvent, runStatus, work, spawned, starts, scan, db>>

Stored ==
  /\ stage = "storing"
  /\ reported' = covered
  /\ stage' = "ready"
  /\ UNCHANGED <<running, stopEvent, runStatus, work, spawned, starts, scan, chat, stored, screened,
                 judged>>

(* Mutant of Leave: _running is left on the good way out only.             *)
LeaveWhenReady == running' = (IF stage = "ready" THEN FALSE ELSE running) /\ stage' = "idle"

(* The finally block of start_reply_judgment                               *)
Leave == running' = FALSE /\ stage' = "idle"

(* The end of _run_summary_phase: with a report, without one because the   *)
(* agent raised, or stopped.                                               *)
RunFinishes ==
  /\ stage \in {"report", "persist", "storing", "ready"}
  /\ phase' = IF stopEvent THEN "stopped" ELSE "standby"
  /\ reportReady' = (stage = "ready" /\ ~stopEvent)
  /\ Leave
  /\ UNCHANGED <<stopEvent, work, spawned, starts, scan, db>>

(* The except clause: the database, the browser or the lock's holder.      *)
Fail ==
  /\ stage \in {"list", "read", "judge"}
  /\ phase' = "standby" /\ UNCHANGED reportReady
  /\ Leave
  /\ toRead' = {} /\ unread' = {}
  /\ UNCHANGED <<stopEvent, chosen, covered, spawned, starts, scan, db>>

-----------------------------------------------------------------------------
(* run_im_unread_scan_and_enrich (POST followup/scan-unread and the        *)
(* autopilot), which shares nothing with the runner but the lock of the    *)
(* window and the database                                                 *)

(* One chat after the other, as in Read.                                   *)
ScanReads(c) ==
  /\ scans < MaxScans
  /\ chat[c] > 0 /\ \A r \in inbound : r[1] # c
  /\ inbound' = inbound \union {<<c, chat[c]>>}
  /\ UNCHANGED <<running, stopEvent, runStatus, stage, work, spawned, starts, scans, rescored, db>>

(* What the agent had an answer for is stored in one transaction,          *)
(* stored or not before.                                                   *)
ScanWrites ==
  /\ inbound # {}
  /\ inbound' = {} /\ scans' = scans + 1
  /\ \E replies \in SUBSET inbound :
       LET whom == {r[1] : r \in replies} IN
       /\ stored' = stored \union replies
       /\ screened' = [c \in People |-> IF c \in whom THEN screened[c] + 1 ELSE screened[c]]
       /\ rescored' = rescored \union whom
  /\ UNCHANGED <<running, stopEvent, runStatus, stage, work, spawned, starts, chat, judged, reported>>

-----------------------------------------------------------------------------

(* The process ends and begins again.                                      *)
JudgmentRestart ==
  /\ running \/ spawned > 0 \/ inbound # {}
  /\ running' = FALSE /\ stopEvent' = FALSE /\ spawned' = 0
  /\ phase' = "standby" /\ reportReady' = FALSE /\ stage' = "idle"
  /\ toRead' = {} /\ unread' = {} /\ chosen' = NoReply /\ covered' = Never
  /\ inbound' = {}
  /\ UNCHANGED <<starts, scans, rescored, db>>

Runner == RunBegins \/ List \/ Read \/ Judge \/ Enrich \/ Report \/ Persist \/ Stored \/ RunFinishes \/ Fail

JudgmentNext ==
  \/ StartRoute \/ Stop \/ JudgmentRestart \/ Runner \/ ScanWrites
  \/ \E c \in People : Answer(c) \/ ScanReads(c)

JudgmentSpec == JudgmentInit /\ [][JudgmentNext]_judgmentVars

(* Every await of the runner returns or times out.                         *)
FairJudgmentSpec == JudgmentSpec /\ WF_judgmentVars(Runner)

-----------------------------------------------------------------------------

JudgmentTypeOK ==
  /\ running \in BOOLEAN /\ stopEvent \in BOOLEAN /\ reportReady \in BOOLEAN
  /\ phase \in {"standby", "judging", "summarizing", "stopped"}
  /\ stage \in {"idle", "list", "read", "judge", "enrich", "report", "persist", "storing", "ready"}
  /\ toRead \subseteq People /\ unread \subseteq Replies
  /\ chosen \in Replies \union {NoReply}
  /\ inbound \subseteq Replies /\ scans \in Nat /\ rescored \subseteq People
  /\ stored \subseteq Replies /\ judged \in [Replies -> Nat]
  /\ {covered, screened, reported} \subseteq [People -> Nat]
  /\ running <=> stage # "idle"

(* However often the judgment is started, stopped, fails or dies with the  *)
(* process, and whatever scans store meanwhile, the runner judges a reply  *)
(* once and stores what it judged.                                         *)
JudgedOnce == \A r \in Replies : judged[r] <= 1 /\ (judged[r] = 1 => r \in stored)

(* A report that the status announces shows every candidate as last        *)
(* screened, by this run or before it, unless a scan has screened the      *)
(* candidate since the report was begun: nothing takes it back then.       *)
ReportIsFresh ==
  reportReady => \A c \in People \ rescored : reported[c] = screened[c]

(* The runner leaves _running, else the judgment could not start again.    *)
RunEnds == running ~> ~running
=============================================================================
