------------------------- MODULE CandidateConversation -------------------------
(***************************************************************************)
(* One recruiting workflow run by Temporal and the conversation with one   *)
(* candidate of its shortlist (services/workflow_worker), and the worker   *)
(* that brings the candidate's replies to the API                          *)
(* (services/reply_ingestion_worker, POST /conversations/{id}/reply).      *)
(*                                                                         *)
(* A step of a Temporal workflow ends in an activity, which is atomic here *)
(* but for the message that has left when the activity is tried again.     *)
(* The reply n is the n-th the candidate wrote; the page shows the last.   *)
(***************************************************************************)
EXTENDS Naturals, FiniteSets

CONSTANTS MaxRounds,       \* outreach.max_rounds
          MaxReplies, MaxRetries, MaxPosts

ASSUME ConversationLimits ==
  {MaxRounds, MaxReplies, MaxPosts} \subseteq Nat \ {0} /\ MaxRetries \in Nat

VARIABLES
  parent,      \* RecruitingWorkflow: the activity it waits for
  captured,    \* fetch_result.captured_count > 0
  row,         \* status of the workflow's row
  sendMode,    \* outreach.send_mode
  pc,          \* CandidateConversationWorkflow: what it waits for
  state,       \* its state: round, no_reply_count, decision
  latest,      \* latest_reply, 0 when None; reply_received is latest # 0
  conv,        \* the conversation's row: status ("" when there is none), round
  chat,        \* external: replies in the site's chat
  ingested,    \* inbound messages of the database
  posts,       \* requests with each reply the API is still working on
  delivered,   \* history: messages the candidate got
  retries      \* history: sends tried again after the message had left

recruiting == <<parent, captured, row>>
ingestion  == <<chat, ingested, posts>>
conversationVars == <<recruiting, sendMode, pc, state, latest, conv, ingestion, delivered, retries>>

Replies   == 1..MaxReplies
Decisions == {"recommend_to_hr", "reject", "ask_followup", "hold"}
Statuses  == {"", "CREATED", "MESSAGE_DRAFTED", "WAITING_REPLY", "NO_REPLY", "READY_FOR_HR",
              "REJECTED", "FOLLOW_UP_REQUIRED", "RESCREENED"}
Running   == {"create", "generate", "send", "wait", "mark", "parse", "update"}

ConversationInit ==
  /\ parent = "begin" /\ captured = FALSE /\ row = "CREATED"
  /\ sendMode \in {"draft_first", "auto_send"}
  /\ pc = "none" /\ latest = 0
  /\ state = [round |-> 0, noReply |-> 0, decision |-> ""]
  /\ conv \in {[status |-> "", round |-> 0], [status |-> "MESSAGE_DRAFTED", round |-> 1]}
  /\ chat = 0 /\ ingested = {} /\ posts = [n \in Replies |-> 0]
  /\ delivered = 0 /\ retries = 0

-----------------------------------------------------------------------------
(* RecruitingWorkflow                                                      *)

Reports(from, to, status) ==
  /\ parent = from
  /\ parent' = to /\ row' = status
  /\ UNCHANGED <<captured, pc>>

Fetched ==
  /\ parent = "fetching"
  /\ captured' \in BOOLEAN
  /\ row' = IF captured' THEN "FETCH_COMPLETED" ELSE "PARTIAL_FAILED"
  /\ parent' = "fetched"
  /\ UNCHANGED pc

(* After three attempts the exception ends the workflow; its row stays.    *)
GivesUp ==
  /\ parent \in {"fetching", "screening"}
  /\ parent' = "failed"
  /\ UNCHANGED <<captured, row, pc>>

(* outreach.enabled and the candidate is on the shortlist, or neither      *)
StartsConversation ==
  /\ parent = "screened"
  /\ parent' = "reporting"
  /\ \/ pc' = "create" /\ row' = "CONVERSATIONS_STARTED"
     \/ UNCHANGED <<pc, row>>
  /\ UNCHANGED captured

(* The workflow returns.  Its children were started with the default       *)
(* parent_close_policy of the SDK, which is to terminate them.             *)
Closes ==
  /\ parent = "reporting"
  /\ parent' = "closed"
  /\ row' = IF captured THEN "COMPLETED" ELSE "PARTIAL_FAILED"
  /\ pc' = IF pc \in Running THEN "terminated" ELSE pc
  /\ UNCHANGED captured

Recruit ==
  /\ \/ Reports("begin", "fetching", "FETCHING")
     \/ Fetched
     \/ Reports("fetched", "screening", "SCREENING")
     \/ Reports("screening", "screened", "SCREENING_COMPLETED")
     \/ GivesUp \/ StartsConversation \/ Closes
  /\ UNCHANGED <<sendMode, state, latest, conv, ingestion, delivered, retries>>

-----------------------------------------------------------------------------
(* CandidateConversationWorkflow                                           *)

(* The condition of the loop                                               *)
Round(s) == IF s.round < MaxRounds THEN "generate" ELSE "ended"

(* create_conversation_state_activity: a row that exists is taken up.      *)
Create ==
  /\ pc = "create"
  /\ conv' = IF conv.status = "" THEN [conv EXCEPT !.status = "CREATED"] ELSE conv
  /\ state' = [state EXCEPT !.round = conv.round]
  /\ pc' = Round(state')
  /\ UNCHANGED <<latest, delivered, retries>>

Generate ==
  /\ pc = "generate" /\ pc' = "send"
  /\ UNCHANGED <<state, latest, conv, delivered, retries>>

(* After the send a first draft ends the workflow; otherwise it forgets    *)
(* what was signalled in the meantime and waits.                           *)
AfterSend ==
  /\ pc' = IF sendMode = "draft_first" /\ state.round = 0 THEN "ended" ELSE "wait"
  /\ latest' = 0
  /\ UNCHANGED <<state, retries>>

(* send_or_draft_platform_message_activity.  The page may have no button   *)
(* to press: the message counts as sent all the same.  And it may have     *)
(* left before something raises.                                           *)
Send ==
  /\ pc = "send"
  /\ \/ /\ sendMode = "draft_first"
        /\ conv' = [conv EXCEPT !.status = "MESSAGE_DRAFTED"]
        /\ UNCHANGED delivered
     \/ /\ sendMode = "auto_send"
        /\ conv' \in {conv, [status |-> "WAITING_REPLY", round |-> state.round + 1]}
        /\ delivered' \in {delivered, delivered + 1}
  /\ AfterSend

(* The message has left, but the activity did not report in its time or    *)
(* could not commit: Temporal runs it again.                               *)
SendAgain ==
  /\ pc = "send" /\ sendMode = "auto_send" /\ retries < MaxRetries
  /\ retries' = retries + 1 /\ delivered' = delivered + 1
  /\ UNCHANGED <<pc, state, latest, conv>>

(* wait_condition                                                          *)
Answered ==
  /\ pc = "wait" /\ latest # 0 /\ pc' = "parse"
  /\ UNCHANGED <<state, latest, conv, delivered, retries>>

TimesOut ==
  /\ pc = "wait" /\ latest = 0 /\ pc' = "mark"
  /\ UNCHANGED <<state, latest, conv, delivered, retries>>

(* Mutant of NoReply: the count is not kept.                               *)
NoReplyUncounted == UNCHANGED <<state, conv>> /\ pc' = "generate"

(* mark_no_reply_or_followup_activity                                      *)
NoReply ==
  IF state.noReply >= 1
    THEN /\ conv' = [conv EXCEPT !.status = "NO_REPLY"]
         /\ state' = [state EXCEPT !.decision = "complete"]
         /\ pc' = "ended"
    ELSE /\ state' = [state EXCEPT !.noReply = @ + 1]
         /\ pc' = "generate"
         /\ UNCHANGED conv

NoReplyMarked == pc = "mark" /\ NoReply /\ UNCHANGED <<latest, delivered, retries>>

Parse ==
  /\ pc = "parse" /\ pc' = "update"
  /\ UNCHANGED <<state, latest, conv, delivered, retries>>

StatusOf(decision) ==
  CASE decision = "recommend_to_hr" -> "READY_FOR_HR"
    [] decision = "reject"          -> "REJECTED"
    [] decision = "ask_followup"    -> "FOLLOW_UP_REQUIRED"
    [] OTHER                        -> "RESCREENED"

(* update_candidate_profile_and_rescreen_activity                          *)
Update ==
  /\ pc = "update"
  /\ \E decision \in Decisions :
       /\ conv' = [conv EXCEPT !.status = StatusOf(decision)]
       /\ state' = [state EXCEPT !.round = @ + 1, !.decision = decision]
       /\ pc' = IF decision \in {"recommend_to_hr", "reject"} THEN "ended" ELSE Round(state')
  /\ UNCHANGED <<latest, delivered, retries>>

Converse ==
  /\ Create \/ Generate \/ Send \/ SendAgain \/ Answered \/ TimesOut \/ NoReplyMarked \/ Parse \/ Update
  /\ UNCHANGED <<recruiting, sendMode, ingestion>>

(* candidate_reply_received.  No row ever names its conversation's         *)
(* workflow, so the API signals nothing; whoever knows the workflow's id   *)
(* still can.                                                              *)
Signal ==
  /\ pc \in Running /\ chat > 0 /\ latest # chat
  /\ latest' = chat
  /\ UNCHANGED <<recruiting, sendMode, pc, state, conv, ingestion, delivered, retries>>

-----------------------------------------------------------------------------
(* Replies                                                                 *)

CandidateWrites ==
  /\ chat < MaxReplies /\ chat' = chat + 1
  /\ UNCHANGED <<recruiting, sendMode, pc, state, latest, conv, ingested, posts, delivered, retries>>

(* scan_active_conversations.  It stops waiting for the API after thirty   *)
(* seconds, and sees what the API committed: it may post a reply twice.    *)
Scan ==
  /\ conv.status = "WAITING_REPLY" /\ chat > 0 /\ chat \notin ingested
  /\ posts[chat] < MaxPosts
  /\ posts' = [posts EXCEPT ![chat] = @ + 1]
  /\ UNCHANGED <<recruiting, sendMode, pc, state, latest, conv, chat, ingested, delivered, retries>>

(* ingest_candidate_reply with process_reply_inline, in one transaction    *)
Ingest(n) ==
  /\ posts[n] > 0
  /\ posts' = [posts EXCEPT ![n] = @ - 1]
  /\ \/ /\ ingested' = ingested \union {n}
        /\ \E decision \in Decisions : conv' = [conv EXCEPT !.status = StatusOf(decision)]
     \/ UNCHANGED <<ingested, conv>>                        \* the agent failed
  /\ UNCHANGED <<recruiting, sendMode, pc, state, latest, chat, delivered, retries>>

ConversationNext ==
  \/ Recruit \/ Converse \/ Signal
  \/ CandidateWrites \/ Scan \/ \E n \in Replies : Ingest(n)

ConversationSpec == ConversationInit /\ [][ConversationNext]_conversationVars

(* Temporal goes on with the conversation until it has ended.               *)
FairConversationSpec == ConversationSpec /\ WF_conversationVars(Converse)

-----------------------------------------------------------------------------

ConversationTypeOK ==
  /\ parent \in {"begin", "fetching", "fetched", "screening", "screened", "reporting",
                 "closed", "failed"}
  /\ captured \in BOOLEAN
  /\ pc \in {"none", "ended", "terminated"} \union Running
  /\ state \in [round : 0..MaxRounds, noReply : 0..1, decision : Decisions \union {"", "complete"}]
  /\ conv \in [status : Statuses, round : 0..MaxRounds]
  /\ latest \in 0..chat /\ chat \in 0..MaxReplies
  /\ ingested \subseteq Replies /\ posts \in [Replies -> 0..MaxPosts]

(* Whatever comes or does not come back, the candidate gets a message for  *)
(* each round and one reminder, and no other unless an activity was run    *)
(* again after its message had left.                                       *)
AskedAtMost == delivered <= MaxRounds + 1 + retries

(* A conversation does not go on for ever.                                 *)
ConversationEnds == pc \in Running ~> pc \notin Running
=============================================================================
