----------------------------- MODULE ImOutreach -----------------------------
(***************************************************************************)
(* The instant messages of one workflow: who drafts them, who sends them   *)
(* and who records what was sent.  The automation (the fetch's outreach    *)
(* after a card, the cycles of the IM agent: services/agent_service/       *)
(* im_autopilot.py) shares the conversations with the buttons of the       *)
(* console (followup_conversation_service.py, candidate_dialogue_service.py*)
(* and routes/messages.py).  A draft is read in one database session, sent *)
(* through the browser, and marked in another session; only part of the    *)
(* automation holds the workflow's IM lock meanwhile.                      *)
(*                                                                         *)
(* A step is what one task does between two awaits that matter.  A message *)
(* is identified by its place in its conversation; its text is its identity*)
(***************************************************************************)
EXTENDS Naturals, Sequences, FiniteSets

CONSTANTS Candidates, Tasks, nobody,
          MaxStarts       \* bound: tasks started by the user or the agent

ASSUME TasksAssumption == IsFiniteSet(Tasks) /\ nobody \notin Tasks

VARIABLES chat,       \* chat[c]: "none", "new" or "prior" communication
          level,      \* level[c]: the latest screening level
          conv,       \* conv[c]: the conversations of c, oldest first
          review,     \* outreach.im_review_required
          imLock,     \* holder of _workflow_im_lock
          task,       \* task[t]: what a coroutine is doing
          starts,     \* tasks started so far
          hrActed,    \* history: a button of the console was used
          lost,       \* history: a delivery was not reported to its sender
          everOff     \* history: review was off at some time

data == <<chat, level, conv>>
hist == <<hrActed, lost, everOff>>
vars == <<data, review, imLock, task, starts, hist>>

-----------------------------------------------------------------------------
(* Conversations and messages                                              *)

Levels == {"followup", "observe", "exclude"}

(* by: who wrote it; to: the reply a dialogue message answers; free:       *)
(* auto_send_allowed; out: deliveries; auto: one of them by the automation *)
Messages == [by : {"outreach", "dialogue", "candidate"},
             st : {"drafted", "sent", "failed", "received"},
             to : Nat, free : BOOLEAN, out : Nat, auto : BOOLEAN]

Conversations == [type : {"followup", "resume_request"},
                  st : {"MESSAGE_DRAFTED", "WAITING_REPLY", "REPLY_RECEIVED",
                        "DRAFT_READY", "NEEDS_HR"},
                  need : BOOLEAN, msgs : Seq(Messages)]

Outbound(cv) == {k \in DOMAIN cv.msgs : cv.msgs[k].by # "candidate"}
Inbound(cv)  == {k \in DOMAIN cv.msgs : cv.msgs[k].by = "candidate"}
Drafted(cv)  == {k \in Outbound(cv) : cv.msgs[k].st = "drafted"}
Sent(cv)     == {k \in Outbound(cv) : cv.msgs[k].st = "sent"}

(* PENDING_OUTBOUND_STATUSES: also a send that failed                      *)
Pending(cv)  == {k \in Outbound(cv) : cv.msgs[k].st \in {"drafted", "failed"}}

Latest(K) == CHOOSE k \in K : \A j \in K : j <= k

(* _already_answered, for the latest inbound message.                      *)
Unanswered(cv) ==
  /\ Inbound(cv) # {}
  /\ \A k \in Outbound(cv) : cv.msgs[k].to # Latest(Inbound(cv))

(* get_by_candidate raises when a candidate has two conversations.         *)
Raises(c) == Len(conv[c]) > 1
Has(c)    == Len(conv[c]) = 1
The(c)    == conv[c][1]

HasPending(c) == Has(c) /\ Pending(The(c)) # {}
HasSent(c)    == Has(c) /\ Sent(The(c)) # {}

(* Asked by the fetch just now: is_chat_initiated, ~is_prior_communication.*)
MayReachOut(c) == chat[c] = "new"

ConvIds == {id \in Candidates \X (1..Cardinality(Tasks)) : id[2] \in DOMAIN conv[id[1]]}
ConvOf(id) == conv[id[1]][id[2]]

(* conv after applying F to each conversation named in ids.                *)
Changed(ids, F(_, _)) ==
  [c \in Candidates |->
     [i \in DOMAIN conv[c] |-> IF <<c, i>> \in ids THEN F(<<c, i>>, conv[c][i])
                                                   ELSE conv[c][i]]]

-----------------------------------------------------------------------------
(* Tasks                                                                   *)

Automatic == {"card", "catchup", "auto", "dialogue"}
Locked    == {"card", "catchup", "auto"}
Buttons   == {"confirm", "continue", "observe", "one", "reply", "draft", "scan"}
ByMessage == {"one", "reply", "dialogue"}   \* senders that mark what they sent

Idle == [kind |-> "none", pc |-> "idle", items |-> {}, plan |-> <<>>,
         left |-> {}, oks |-> {}, queue |-> {}, review |-> FALSE]

Goto(t, p) == task' = [task EXCEPT ![t].pc = p]

Init ==
  /\ chat = [c \in Candidates |-> "none"]
  /\ level \in [Candidates -> {"followup", "observe"}]
  /\ conv = [c \in Candidates |-> <<>>]
  /\ review \in BOOLEAN
  /\ imLock = nobody
  /\ task = [t \in Tasks |-> Idle]
  /\ starts = 0
  /\ hrActed = FALSE /\ lost = FALSE /\ everOff = ~review

Start(t, new) ==
  /\ task[t].pc = "idle"
  /\ starts < MaxStarts
  /\ task' = [task EXCEPT ![t] = new]
  /\ starts' = starts + 1
  /\ UNCHANGED <<conv, level, review, imLock, lost, everOff>>

(* A card judged followup or observe: the fetch contacts the candidate and *)
(* awaits the outreach, or notes that they have been in touch before.      *)
Contact(t, c) ==
  /\ chat[c] = "none"
  /\ \/ /\ chat' = [chat EXCEPT ![c] = "new"]
        /\ Start(t, [Idle EXCEPT !.kind = "card", !.pc = "lock",
                                 !.items = {<<c, level[c]>>}])
     \/ /\ chat' = [chat EXCEPT ![c] = "prior"]
        /\ UNCHANGED <<conv, level, review, imLock, task, starts, lost, everOff>>
  /\ UNCHANGED hrActed

(* A cycle of the IM agent, of its monitor or started by hand.             *)
Cycle(t) ==
  /\ Start(t, [Idle EXCEPT !.kind = "catchup", !.pc = "read"])
  /\ UNCHANGED <<chat, hrActed>>

(* The buttons that work on the whole workflow.                            *)
Press(t) ==
  /\ \E k \in {"confirm", "continue", "observe", "scan"} :
       Start(t, [Idle EXCEPT !.kind = k, !.pc = "read"])
  /\ hrActed' = TRUE
  /\ UNCHANGED chat

(* POST /outreach_messages/{id}/send                                       *)
SendOne(t) ==
  /\ \E id \in ConvIds : \E k \in Pending(ConvOf(id)) :
       Start(t, [Idle EXCEPT !.kind = "one", !.pc = "send",
                             !.left = {<<id[1], id[2], k>>}])
  /\ hrActed' = TRUE
  /\ UNCHANGED chat

DialogueDrafts(cv) == {k \in Pending(cv) : cv.msgs[k].by = "dialogue"}

(* POST /conversations/{id}/dialogue/send and .../dialogue/draft           *)
SendReply(t) ==
  /\ \E id \in ConvIds :
       /\ DialogueDrafts(ConvOf(id)) # {}
       /\ Start(t, [Idle EXCEPT !.kind = "reply", !.pc = "send",
                     !.left = {<<id[1], id[2], Latest(DialogueDrafts(ConvOf(id)))>>}])
  /\ hrActed' = TRUE
  /\ UNCHANGED chat

DraftReply(t) ==
  /\ \E id \in ConvIds :
       Start(t, [Idle EXCEPT !.kind = "draft", !.pc = "prep", !.items = {<<id, "answer">>}])
  /\ hrActed' = TRUE
  /\ UNCHANGED chat

(* PATCH /outreach_messages/{id}: the edited message is a draft again.     *)
Edit ==
  /\ \E id \in ConvIds : \E k \in Pending(ConvOf(id)) :
       conv' = [conv EXCEPT ![id[1]][id[2]].msgs[k].st = "drafted"]
  /\ hrActed' = TRUE
  /\ UNCHANGED <<chat, level, review, imLock, task, starts, lost, everOff>>

(* PATCH /{id}/runtime-options with im_auto_reply                          *)
SetReview ==
  /\ review' = ~review
  /\ everOff' = (everOff \/ ~review')
  /\ UNCHANGED <<data, imLock, task, starts, hrActed, lost>>

-----------------------------------------------------------------------------
(* Ending a task, or its part of a cycle                                   *)

Release(t) == imLock' = IF imLock = t THEN nobody ELSE imLock

(* What follows within run_im_autopilot_cycle; other tasks end.            *)
NextStage(tk) ==
  CASE tk.kind = "catchup" -> [Idle EXCEPT !.kind = "sync", !.pc = "read"]
    [] tk.kind = "sync"    -> [Idle EXCEPT !.kind = "auto", !.pc = "next", !.queue = tk.queue]
    [] tk.kind = "auto"    -> [Idle EXCEPT !.kind = "auto", !.pc = "next", !.queue = tk.queue]
    [] OTHER               -> Idle

Finish(t) ==
  /\ task' = [task EXCEPT ![t] = NextStage(@)]
  /\ Release(t)

(* An exception, a cancellation or the shutdown, in any await.             *)
Abort(t) ==
  /\ task[t].pc # "idle"
  /\ task' = [task EXCEPT ![t] = Idle]
  /\ Release(t)
  /\ lost' = (lost \/ task[t].oks # {})
  /\ UNCHANGED <<data, review, starts, hrActed, everOff>>

-----------------------------------------------------------------------------
(* Whom to write to                                                        *)

(* _catch_up_pending_outreach for one candidate: what is pending, from the *)
(* followup list, the observe list and the conversations that need a       *)
(* resume.                                                                 *)
CatchUpDecisions(c) ==
  {d \in {"followup", "observe"} :
     /\ chat[c] # "none"
     /\ ~HasPending(c)
     /\ \/ /\ level[c] = "followup"
           /\ ~(Has(c) /\ The(c).type = "resume_request")
           /\ IF Has(c) /\ The(c).need THEN d = "observe"
              ELSE d = "followup" /\ ~HasSent(c)
        \/ level[c] = "observe" /\ d = "observe" /\ ~HasSent(c)
        \/ /\ Has(c) /\ The(c).need /\ d = "observe"
           /\ ~(The(c).type = "resume_request" /\ Sent(The(c)) # {})}

Selected(kind) ==
  CASE kind = "catchup"  -> UNION {{<<c, d>> : d \in CatchUpDecisions(c)} : c \in Candidates}
    [] kind = "continue" -> {<<c, "followup">> : c \in {x \in Candidates : level[x] = "followup"}}
    [] kind = "observe"  -> {<<c, "resume">> : c \in {x \in Candidates : level[x] = "observe"}}
    [] kind = "dialogue" -> {<<id, "answer">> : id \in ConvIds}
    [] kind \in {"sync", "scan"} ->
         {<<id, "sync">> : id \in {x \in ConvIds :
                                     ConvOf(x).st \in {"WAITING_REPLY", "REPLY_RECEIVED"}}}

(* confirm_and_send_batch: the last draft of every followup conversation   *)
ConfirmTargets ==
  {<<id[1], id[2], Latest(Drafted(ConvOf(id)))>> :
     id \in {x \in ConvIds : /\ ConvOf(x).type = "followup"
                             /\ Drafted(ConvOf(x)) # {}
                             /\ chat[x[1]] # "none"}}

(* The first session of a task: it reads, and closes before anything else. *)
Read(t) ==
  /\ task[t].pc = "read"
  /\ IF task[t].kind = "confirm"
       THEN /\ task' = [task EXCEPT ![t].left = ConfirmTargets, ![t].pc = "send"]
            /\ UNCHANGED imLock
       ELSE LET items == Selected(task[t].kind) IN
            /\ task[t].kind = "catchup" =>
                 \A c \in Candidates : Raises(c) =>
                    level[c] = "exclude" /\ \A i \in DOMAIN conv[c] : ~conv[c][i].need
            /\ IF items = {} /\ task[t].kind = "catchup"
                 THEN Finish(t)
                 ELSE /\ task' = [task EXCEPT ![t].items = items, ![t].review = review,
                            ![t].pc = CASE task[t].kind = "catchup" -> "lock"
                                        [] task[t].kind \in {"sync", "scan"} -> "store"
                                        [] OTHER -> "prep"]
                      /\ UNCHANGED imLock
  /\ UNCHANGED <<data, review, starts, hist>>

(* Mutant of Acquire: the outreach goes ahead without the lock.            *)
AcquireAlways(t) ==
  /\ task[t].pc = "lock"
  /\ imLock' = t
  /\ Goto(t, "prep")
  /\ UNCHANGED <<data, review, starts, hist>>

(* async with _workflow_im_lock                                            *)
Acquire(t) ==
  /\ task[t].pc = "lock" /\ imLock = nobody
  /\ imLock' = t
  /\ Goto(t, "prep")
  /\ UNCHANGED <<data, review, starts, hist>>

-----------------------------------------------------------------------------
(* Preparing drafts                                                        *)

(* May a message of kind d be written to c?  prepare_followup_for_candidate*)
(* for d = "followup", prepare_resume_for_candidate for "observe",         *)
(* prepare_observe_resume_requests for "resume".                           *)
Wanted(c, d) ==
  /\ chat[c] # "none"
  /\ d = "followup" => level[c] = "followup"
  /\ d = "observe" => /\ level[c] = "observe" \/ (Has(c) /\ The(c).need)
                      /\ ~(Has(c) /\ The(c).type = "resume_request" /\ Sent(The(c)) # {})

(* The unsent message there is takes the place of a new one.               *)
Reused(t, c) ==
  [task[t] EXCEPT !.left = @ \union {<<c, 1, Latest(Pending(The(c)))>>}]

(* A text is generated for the conversation found, 0 for none.             *)
Planned(t, c, d) == [task[t] EXCEPT !.plan = <<c, Len(conv[c]), d, 0>>]

(* An exception of one candidate: prepare_followup_messages gathers it, any*)
(* other task ends with it.                                                *)
Tolerates(t, c) == Raises(c) => task[t].kind = "continue"

(* One entry of the list: it is not wanted, an unsent draft is reused, or a*)
(* text is generated, which is an await.                                   *)
Prepare(t) ==
  /\ task[t].pc = "prep" /\ task[t].plan = <<>>
  /\ \E it \in task[t].items :
       LET rest == task[t].items \ {it}
           c == it[1]
       IN IF it[2] = "answer"
            THEN IF Unanswered(ConvOf(it[1]))
                   THEN task' = [task EXCEPT ![t].items = rest,
                                   ![t].plan = <<it[1][1], it[1][2], "answer",
                                                 Latest(Inbound(ConvOf(it[1])))>>]
                   ELSE task' = [task EXCEPT ![t].items = rest]
            ELSE /\ Tolerates(t, c)
                 /\ task' = [task EXCEPT ![t] =
                      [CASE Raises(c) \/ ~Wanted(c, it[2]) -> @
                         [] ~Raises(c) /\ Wanted(c, it[2]) /\ HasPending(c) -> Reused(t, c)
                         [] OTHER -> Planned(t, c, it[2])
                       EXCEPT !.items = rest]]
  /\ UNCHANGED <<data, review, imLock, starts, hist>>

Draft(d, to, free) ==
  [by |-> IF d = "answer" THEN "dialogue" ELSE "outreach", st |-> "drafted",
   to |-> to, free |-> free, out |-> 0, auto |-> FALSE]

NewConversation(d) ==
  [type |-> IF d = "followup" THEN "followup" ELSE "resume_request",
   st |-> "MESSAGE_DRAFTED", need |-> FALSE, msgs |-> <<>>]

WithDraft(cv, d, to, free) ==
  [cv EXCEPT !.msgs = Append(@, Draft(d, to, free)),
             !.st = CASE d # "answer" -> "MESSAGE_DRAFTED"
                      [] d = "answer" /\ free -> "DRAFT_READY"
                      [] OTHER -> "NEEDS_HR"]

(* Is a message just drafted sent by the task that drafted it?             *)
Sends(tk, free) ==
  CASE tk.kind = "continue" -> free            \* auto_send_allowed or round 2
    [] tk.kind = "dialogue" -> free /\ ~tk.review
    [] OTHER -> tk.kind # "draft"

(* The draft is committed, with its conversation when there was none.  The *)
(* dialogue agent may also find that no answer is called for.              *)
Save(t) ==
  /\ task[t].plan # <<>>
  /\ LET c == task[t].plan[1]
         i == task[t].plan[2]
         d == task[t].plan[3]
         n == IF i = 0 THEN Len(conv[c]) + 1 ELSE i
         old == IF i = 0 THEN NewConversation(d) ELSE conv[c][i]
     IN \/ \E free \in BOOLEAN :
             /\ conv' = [conv EXCEPT ![c] = IF i = 0
                           THEN Append(@, WithDraft(old, d, task[t].plan[4], free))
                           ELSE [@ EXCEPT ![i] = WithDraft(old, d, task[t].plan[4], free)]]
             /\ task' = [task EXCEPT ![t].plan = <<>>,
                           ![t].left = IF Sends(task[t], free)
                                         THEN @ \union {<<c, n, Len(old.msgs) + 1>>} ELSE @]
        \/ /\ d = "answer"
           /\ conv' = [conv EXCEPT ![c][i].st = "REPLY_RECEIVED"]
           /\ task' = [task EXCEPT ![t].plan = <<>>]
  /\ UNCHANGED <<chat, level, review, imLock, starts, hist>>

(* With IM review on, these leave their drafts to HR.                      *)
HeldForReview(t) == review /\ task[t].kind \in Locked \union {"continue"}

SendsNow(t) == Goto(t, "send") /\ UNCHANGED imLock

(* Mutant of Prepared: the review mode is not looked at.                   *)
PreparedUnreviewed(t) ==
  /\ task[t].pc = "prep" /\ task[t].plan = <<>> /\ task[t].items = {}
  /\ IF task[t].left = {} THEN Finish(t) ELSE SendsNow(t)
  /\ UNCHANGED <<data, review, starts, hist>>

(* Everything is drafted: in review mode it stays a draft.                 *)
Prepared(t) ==
  /\ task[t].pc = "prep" /\ task[t].plan = <<>> /\ task[t].items = {}
  /\ IF \/ task[t].left = {}
        \/ HeldForReview(t)
       THEN Finish(t)
       ELSE SendsNow(t)
  /\ UNCHANGED <<data, review, starts, hist>>

-----------------------------------------------------------------------------
(* Sending and recording                                                   *)

(* Mutant of Deliver: a send that was tried is reported as sent.           *)
DeliverHopeful(t) ==
  /\ task[t].pc = "send"
  /\ \E tg \in task[t].left :
       /\ task' = [task EXCEPT ![t].left = @ \ {tg}, ![t].oks = @ \union {tg}]
       /\ \/ UNCHANGED conv
          \/ conv' = [conv EXCEPT ![tg[1]][tg[2]].msgs[tg[3]].out = @ + 1]
  /\ UNCHANGED <<chat, level, review, imLock, starts, hist>>

(* One target of run_im_send_batch: the message leaves and is seen to have *)
(* left, or it is not sent, or it leaves but is not seen (an exception, or *)
(* _verify_message_sent does not find it).                                 *)
Deliver(t) ==
  /\ task[t].pc = "send"
  /\ \E tg \in task[t].left :
       LET m == conv[tg[1]][tg[2]].msgs[tg[3]]
           gone == [m EXCEPT !.out = @ + 1, !.auto = @ \/ task[t].kind \in Automatic]
       IN \E outcome \in {"ok", "failed", "unseen"} :
            /\ conv' = IF outcome = "failed" THEN conv
                       ELSE [conv EXCEPT ![tg[1]][tg[2]].msgs[tg[3]] = gone]
            /\ task' = [task EXCEPT ![t].left = @ \ {tg},
                          ![t].oks = IF outcome = "ok" THEN @ \union {tg} ELSE @,
                          ![t].queue = IF task[t].kind \in ByMessage /\ outcome # "ok"
                                         THEN @ \union {tg} ELSE @]
            /\ lost' = (lost \/ outcome = "unseen")
  /\ UNCHANGED <<chat, level, review, imLock, starts, hrActed, everOff>>

(* _mark_outbound_sent, also in confirm_and_send_batch, continue_followup  *)
(* and send_observe_resume_batch: the last draft of the conversation is    *)
(* marked, whichever message it was that left.                             *)
Recorded(cv) ==
  IF Drafted(cv) = {} THEN [cv EXCEPT !.st = "WAITING_REPLY"]
  ELSE [cv EXCEPT !.st = "WAITING_REPLY", !.msgs[Latest(Drafted(cv))].st = "sent"]

(* The senders of single messages mark the one they sent, and a failure.   *)
RecordedById(t, id, cv) ==
  LET ok  == {k \in DOMAIN cv.msgs : <<id[1], id[2], k>> \in task[t].oks}
      bad == {k \in DOMAIN cv.msgs : <<id[1], id[2], k>> \in task[t].queue}
  IN [cv EXCEPT !.st = CASE ok # {} -> "WAITING_REPLY"
                         [] ok = {} /\ task[t].kind = "dialogue" -> "DRAFT_READY"
                         [] OTHER -> @,
                !.msgs = [k \in DOMAIN cv.msgs |->
                            [cv.msgs[k] EXCEPT !.st = IF k \in ok THEN "sent"
                                                 ELSE IF k \in bad THEN "failed" ELSE @]]]

(* The conversations a sender writes to when it is done.                   *)
Touched(t) == {<<tg[1], tg[2]>> : tg \in task[t].oks \union
                 IF task[t].kind \in ByMessage THEN task[t].queue ELSE {}}

(* The last session of a sender.                                           *)
Mark(t) ==
  /\ task[t].pc = "send" /\ task[t].left = {}
  /\ LET ById(id, cv) == RecordedById(t, id, cv)
         Last(id, cv) == Recorded(cv)
     IN conv' = IF task[t].kind \in ByMessage THEN Changed(Touched(t), ById)
                                              ELSE Changed(Touched(t), Last)
  /\ Finish(t)
  /\ UNCHANGED <<chat, level, review, starts, hist>>

-----------------------------------------------------------------------------
(* Whose chat window has something to read: the candidate's reply or, when *)
(* there is none, the last of the messages sent (_read_latest_inbound).    *)
Readable ==
  {c \in Candidates : \E i \in DOMAIN conv[c] :
                        \E k \in DOMAIN conv[c][i].msgs : conv[c][i].msgs[k].out > 0}

(* run_im_unread_scan_and_enrich: what the chat windows show is read,      *)
(* judged, and stored in one commit as a reply; it is stored again by each *)
(* later scan.  Of the cycle, each candidate judged is then written to.    *)
Store(t) ==
  /\ task[t].pc = "store"
  /\ \E read \in SUBSET ({it[1][1] : it \in task[t].items} \intersect Readable) :
     \E need \in [read -> BOOLEAN], lvl \in [read -> Levels] :
       /\ \A c \in read : ~Raises(c)
       /\ conv' = [c \in Candidates |->
                     IF c \in read
                       THEN <<[The(c) EXCEPT !.st = "REPLY_RECEIVED", !.need = need[c],
                                 !.msgs = Append(@, [by |-> "candidate", st |-> "received",
                                    to |-> 0, free |-> FALSE, out |-> 0, auto |-> FALSE])]>>
                       ELSE conv[c]]
       /\ level' = [c \in Candidates |-> IF c \in read THEN lvl[c] ELSE level[c]]
       /\ LET decided == {<<c, IF need[c] \/ lvl[c] = "observe" THEN "observe" ELSE "followup">> :
                            c \in {x \in read : need[x] \/ lvl[x] # "exclude"}}
          IN task' = [task EXCEPT ![t] = NextStage([@ EXCEPT !.queue = decided])]
  /\ UNCHANGED <<chat, review, imLock, starts, hist>>

(* auto_outreach_for_candidate, up to the lock; nothing happens for those  *)
(* who may not be written to.                                              *)
ReachesOut(t, e) ==
  task' = [task EXCEPT ![t].queue = @ \ {e},
             ![t].items = IF MayReachOut(e[1]) THEN {e} ELSE {},
             ![t].pc = IF MayReachOut(e[1]) THEN "lock" ELSE "next"]

(* _process_enrichment_actions: auto_outreach_for_candidate, one by one,   *)
(* then the pending dialogues.                                             *)
NextOutreach(t) ==
  /\ task[t].pc = "next"
  /\ IF task[t].queue = {}
       THEN task' = [task EXCEPT ![t] = [Idle EXCEPT !.kind = "dialogue", !.pc = "read"]]
       ELSE \E e \in task[t].queue : ReachesOut(t, e)
  /\ UNCHANGED <<data, review, imLock, starts, hist>>

-----------------------------------------------------------------------------
TaskStep(t) ==
  \/ Read(t) \/ Acquire(t) \/ Prepare(t) \/ Save(t) \/ Prepared(t)
  \/ Deliver(t) \/ Mark(t) \/ Store(t) \/ NextOutreach(t)

Request(t) ==
  \/ \E c \in Candidates : Contact(t, c)
  \/ Cycle(t) \/ Press(t) \/ SendOne(t) \/ SendReply(t) \/ DraftReply(t)

Next ==
  \/ \E t \in Tasks : TaskStep(t) \/ Request(t) \/ Abort(t)
  \/ Edit \/ SetReview

Spec == Init /\ [][Next]_vars

-----------------------------------------------------------------------------
(* Properties                                                              *)

Targets == Candidates \X Nat \X Nat

Decisions == Levels \union {"resume"}

(* Candidates with what is decided about them, or conversations to look at.*)
Items == (Candidates \X Decisions) \union ((Candidates \X Nat) \X {"answer", "sync"})

Plans  == {<<>>} \union (Candidates \X Nat \X (Decisions \union {"answer"}) \X Nat)
Queued == Targets \union (Candidates \X Decisions)
Kinds  == {"none", "sync"} \union Automatic \union Buttons

TaskRecords ==
  [kind : Kinds, pc : {"idle", "read", "lock", "prep", "send", "store", "next"},
   items : SUBSET Items, plan : Plans, left : SUBSET Targets, oks : SUBSET Targets,
   queue : SUBSET Queued, review : BOOLEAN]

(* Rows and tasks have their types (models.py, ConversationRepository).    *)
TypeOK ==
  /\ chat \in [Candidates -> {"none", "new", "prior"}]
  /\ level \in [Candidates -> Levels]
  /\ conv \in [Candidates -> Seq(Conversations)]
  /\ imLock \in Tasks \union {nobody}
  /\ task \in [Tasks -> TaskRecords]
  /\ {review, hrActed, lost, everOff} \subseteq BOOLEAN

(* How often a message of the conversation left.                           *)
Deliveries(cv) ==
  Cardinality(UNION {{k} \X (1..cv.msgs[k].out) : k \in DOMAIN cv.msgs})

(* The record never claims more than what left: whoever marks whichever    *)
(* draft, a conversation has at most as many sent messages as deliveries.  *)
NeverOverstated ==
  \A id \in ConvIds : Cardinality(Sent(ConvOf(id))) <= Deliveries(ConvOf(id))

(* While IM review has been required all along, nothing leaves but by HR's *)
(* own sends (outreach_policy.py:9).                                       *)
ReviewHolds ==
  ~everOff => \A id \in ConvIds : \A k \in Outbound(ConvOf(id)) : ~ConvOf(id).msgs[k].auto

(* The automation alone, whatever of it fails or is cancelled, opens one   *)
(* conversation with a candidate and has one unsent outreach in it.        *)
OneConversation ==
  ~hrActed => \A c \in Candidates :
    /\ ~Raises(c)
    /\ Has(c) => Cardinality({k \in Pending(The(c)) : The(c).msgs[k].by = "outreach"}) <= 1

(* Until something is stored as the candidate's reply, and as long as every*)
(* delivery is reported, the automation sends no draft twice, though the   *)
(* cycles and the card outreach select their candidates before they hold   *)
(* the lock.                                                               *)
FirstContactOnce ==
  ~hrActed /\ ~lost =>
    \A id \in ConvIds : Inbound(ConvOf(id)) = {} =>
      \A k \in DOMAIN ConvOf(id).msgs : ConvOf(id).msgs[k].out <= 1

-----------------------------------------------------------------------------
(* What the texts of the repository say and the code does not do           *)

(* A question without an answer on file is left to HR                      *)
(* (tests/test_dialogue_autopilot.py:165): its draft is not sent by the    *)
(* automation.                                                             *)
HeldBackStaysHeld ==
  \A id \in ConvIds : \A k \in Outbound(ConvOf(id)) :
    LET m == ConvOf(id).msgs[k] IN m.by = "dialogue" /\ m.auto => m.free

=============================================================================
