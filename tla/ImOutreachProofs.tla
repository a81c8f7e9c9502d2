--------------------------- MODULE ImOutreachProofs ----------------------------
(***************************************************************************)
(* ImOutreach: what holds of outreach and its record for any candidates    *)
(* and any finite set of tasks, however many starts, messages and windows. *)
(*                                                                         *)
(* OutreachInv types the rows and the tasks and says that what a task      *)
(* holds is there; one Form lemma per action says what the action makes of *)
(* the rows and of its task.  Over it stand four invariants, each with one *)
(* lemma per action that disturbs it:                                      *)
(*   ReviewInv  no task of the automation comes to send under review;      *)
(*   RecordInv  sent messages and those a sender has yet to record are     *)
(*              covered by deliveries;                                     *)
(*   AutoInv    one conversation, one open outreach, written and sent      *)
(*              under one lock, while HR keeps away;                       *)
(*   FirstInv   what is about to be sent has not left, until a reply.      *)
(***************************************************************************)
EXTENDS ImOutreach, FiniteSetTheorems, WellFoundedInduction, TLAPS

-----------------------------------------------------------------------------
(* Numbers, conversations and messages                                     *)

(* Numbers that are there have a least, and those up to n a greatest.      *)
LEMMA LeastNat ==
  ASSUME NEW T, T \subseteq Nat, T # {}
  PROVE  \E n \in T : \A m \in T : n <= m
<1>1. IsWellFoundedOn({ss \in Nat \X Nat : ss[1] < ss[2]}, Nat)
  BY NatLessThanWellFounded DEF OpToRel
<1>2. PICK n \in T : \A m \in T : ~(<<m, n>> \in {ss \in Nat \X Nat : ss[1] < ss[2]})
  BY <1>1, WFMin, Zenon
<1>3. ASSUME NEW m \in T PROVE n <= m
  <2>1. n \in Nat /\ m \in Nat
    OBVIOUS
  <2>2. <<m, n>> \in Nat \X Nat /\ ~(m < n)
    BY <1>2, <2>1
  <2> QED
    BY <2>1, <2>2
<1> QED
  BY <1>3

(* The latest of some messages is one of them.                             *)
LEMMA LatestIsLast ==
  ASSUME NEW n \in Nat, NEW K \in SUBSET (1..n), K # {}
  PROVE  Latest(K) \in K
<1> DEFINE above == {m \in Nat : \A j \in K : j <= m}
<1>0. \A j \in K : j \in Nat /\ 1 <= j /\ j <= n
  OBVIOUS
<1>1. n \in above
  BY <1>0
<1>2. PICK m \in above : \A l \in above : m <= l
  BY <1>1, LeastNat
<1>3. m \in Nat /\ m \in K
  <2>1. PICK j \in K : TRUE
    OBVIOUS
  <2>2. m \in Nat \ {0} /\ m - 1 \in Nat /\ ~(m <= m - 1)
    BY <1>0, <1>2, <2>1
  <2>3. PICK l \in K : ~(l <= m - 1)
    BY <1>2, <2>2
  <2>4. l = m
    BY <1>0, <1>2, <2>2, <2>3
  <2> QED
    BY <2>2, <2>4
<1> QED
  BY <1>2, <1>3 DEF Latest

Book == [Candidates -> Seq(Conversations)]

(* What a conversation holds: messages, and sets of their places.          *)
LEMMA ConversationFields ==
  ASSUME NEW cv \in Conversations
  PROVE  /\ cv.msgs \in Seq(Messages) /\ DOMAIN cv.msgs = 1..Len(cv.msgs) /\ Len(cv.msgs) \in Nat
         /\ \A k \in DOMAIN cv.msgs : cv.msgs[k] \in Messages /\ k \in Nat
         /\ {Outbound(cv), Inbound(cv), Pending(cv), Drafted(cv), Sent(cv), DialogueDrafts(cv)}
              \subseteq SUBSET (1..Len(cv.msgs))
<1>1. cv.msgs \in Seq(Messages)
  BY DEF Conversations
<1>2. DOMAIN cv.msgs = 1..Len(cv.msgs) /\ Len(cv.msgs) \in Nat
  BY <1>1
<1>3. \A k \in DOMAIN cv.msgs : cv.msgs[k] \in Messages /\ k \in Nat
  BY <1>1
<1> QED
  BY <1>1, <1>2, <1>3 DEF Outbound, Inbound, Pending, Drafted, Sent, DialogueDrafts

(* What the rows of a candidate are.                                       *)
LEMMA BookFields ==
  ASSUME NEW cs \in Book, NEW c \in Candidates
  PROVE  /\ cs[c] \in Seq(Conversations) /\ DOMAIN cs[c] = 1..Len(cs[c]) /\ Len(cs[c]) \in Nat
         /\ \A i \in DOMAIN cs[c] : cs[c][i] \in Conversations /\ i \in Nat
<1>1. cs[c] \in Seq(Conversations)
  BY DEF Book
<1> QED
  BY <1>1

(* One message more, or another in the place of one.                       *)
LEMMA MessagePut ==
  ASSUME NEW cv \in Conversations, NEW k \in DOMAIN cv.msgs, NEW m \in Messages
  PROVE  LET cv2 == [cv EXCEPT !.msgs[k] = m]
         IN /\ cv2 \in Conversations /\ DOMAIN cv2.msgs = DOMAIN cv.msgs
            /\ \A j \in DOMAIN cv.msgs : cv2.msgs[j] = IF j = k THEN m ELSE cv.msgs[j]
            /\ cv2.st = cv.st /\ cv2.type = cv.type /\ cv2.need = cv.need
<1> DEFINE ms == [cv.msgs EXCEPT ![k] = m]
<1>1. /\ ms \in Seq(Messages) /\ DOMAIN ms = DOMAIN cv.msgs
      /\ \A j \in DOMAIN cv.msgs : ms[j] = IF j = k THEN m ELSE cv.msgs[j]
  BY ConversationFields
<1> HIDE DEF ms
<1>2. LET cv2 == [cv EXCEPT !.msgs = ms]
      IN cv2 \in Conversations /\ cv2.msgs = ms
         /\ cv2.st = cv.st /\ cv2.type = cv.type /\ cv2.need = cv.need
  BY <1>1 DEF Conversations
<1>3. [cv EXCEPT !.msgs[k] = m] = [cv EXCEPT !.msgs = ms]
  BY DEF ms
<1> QED
  BY <1>1, <1>2, <1>3

(* A conversation with a message more.                                     *)
LEMMA MessageAdd ==
  ASSUME NEW cv \in Conversations, NEW m \in Messages
  PROVE  LET ms == Append(cv.msgs, m)
         IN /\ ms \in Seq(Messages) /\ DOMAIN ms = DOMAIN cv.msgs \union {Len(cv.msgs) + 1}
            /\ Len(cv.msgs) + 1 \notin DOMAIN cv.msgs
            /\ \A j \in DOMAIN cv.msgs : ms[j] = cv.msgs[j]
            /\ ms[Len(cv.msgs) + 1] = m
  BY ConversationFields

(* The conversations after one of them changes.                            *)
Replaced(cs, cs2, c, i, cv) ==
  /\ cs2 \in Book
  /\ \A d \in Candidates : DOMAIN cs2[d] = DOMAIN cs[d]
  /\ \A d \in Candidates : \A j \in DOMAIN cs[d] :
       cs2[d][j] = IF d = c /\ j = i THEN cv ELSE cs[d][j]

(* One conversation is replaced, and the others stay.                      *)
LEMMA ConversationPut ==
  ASSUME NEW cs \in Book, NEW c \in Candidates, NEW i \in DOMAIN cs[c], NEW cv \in Conversations
  PROVE  Replaced(cs, [cs EXCEPT ![c] = [cs[c] EXCEPT ![i] = cv]], c, i, cv)
<1> DEFINE mine == [cs[c] EXCEPT ![i] = cv]
<1>1. /\ mine \in Seq(Conversations) /\ DOMAIN mine = DOMAIN cs[c]
      /\ \A j \in DOMAIN cs[c] : mine[j] = IF j = i THEN cv ELSE cs[c][j]
  BY BookFields
<1> HIDE DEF mine
<1>2. [cs EXCEPT ![c] = mine] \in Book
  BY <1>1 DEF Book
<1>3. \A d \in Candidates : [cs EXCEPT ![c] = mine][d] = IF d = c THEN mine ELSE cs[d]
  BY DEF Book
<1> QED
  BY <1>1, <1>2, <1>3 DEF Replaced, mine

-----------------------------------------------------------------------------
(* What tasks hold                                                         *)

(* A message that is there.                                                *)
Exists(cs, tg) == tg[2] \in DOMAIN cs[tg[1]] /\ tg[3] \in DOMAIN cs[tg[1]][tg[2]].msgs

Readers  == {"catchup", "confirm", "continue", "observe", "scan", "sync", "dialogue"}
Drafters == Locked \union {"continue", "observe", "dialogue", "draft"}
Senders  == Automatic \union {"confirm", "continue", "observe", "one", "reply"}
Answers  == {"dialogue", "draft"}

Asked(kind) == IF kind \in Answers THEN (Candidates \X Nat) \X {"answer"}
               ELSE IF kind \in {"sync", "scan"} THEN (Candidates \X Nat) \X {"sync"}
               ELSE Candidates \X Decisions

(* What a task holds at the await it stands at.                            *)
TaskFits(tk) ==
  /\ tk.pc = "read" => tk.kind \in Readers
  /\ tk.pc = "lock" => tk.kind \in Locked
  /\ tk.pc = "prep" => tk.kind \in Drafters
  /\ tk.pc = "store" => tk.kind \in {"sync", "scan"}
  /\ tk.pc = "next" => tk.kind = "auto"
  /\ tk.pc = "send" => tk.kind \in Senders
  /\ tk.pc # "send" => tk.oks = {}
  /\ tk.pc \notin {"prep", "send"} \/ tk.kind = "draft" => tk.left = {}
  /\ tk.kind \in ByMessage => tk.queue \subseteq Targets
  /\ tk.kind \in {"sync", "auto"} => tk.queue \subseteq Candidates \X Decisions
  /\ tk.items \subseteq Asked(tk.kind)
  /\ tk.plan # <<>> => tk.pc = "prep" /\ (tk.plan[3] = "answer" <=> tk.kind \in Answers)

(* It is about conversations and messages that are there.                  *)
TaskValid(cs, tk) ==
  /\ \A tg \in tk.left \union tk.oks : Exists(cs, tg)
  /\ tk.kind \in Answers => \A it \in tk.items : it[1][2] \in DOMAIN cs[it[1][1]]
  /\ tk.plan # <<>> => /\ tk.plan[2] \in 0..Len(cs[tk.plan[1]])
                       /\ tk.kind \in Answers => tk.plan[2] # 0

TasksInv == \A t \in Tasks : TaskFits(task[t]) /\ TaskValid(conv, task[t])

OutreachInv == TypeOK /\ TasksInv

(* Nothing that is there goes or changes hands.                            *)
Grows(cs, cs2) ==
  \A c \in Candidates : \A i \in DOMAIN cs[c] :
    /\ i \in DOMAIN cs2[c]
    /\ \A k \in DOMAIN cs[c][i].msgs : k \in DOMAIN cs2[c][i].msgs
                                      /\ cs2[c][i].msgs[k].by = cs[c][i].msgs[k].by

(* What a task holds is still there when rows only grow.                   *)
LEMMA ValidStays ==
  ASSUME NEW cs \in Book, NEW cs2 \in Book, Grows(cs, cs2),
         NEW tk \in TaskRecords, TaskFits(tk), TaskValid(cs, tk)
  PROVE  TaskValid(cs2, tk)
<1>1. \A tg \in tk.left \union tk.oks : Exists(cs2, tg)
  <2>1. \A tg \in tk.left \union tk.oks : tg[1] \in Candidates /\ Exists(cs, tg)
    BY DEF TaskRecords, TaskValid, Targets
  <2> QED
    BY <2>1 DEF Exists, Grows
<1>2. ASSUME tk.kind \in Answers, NEW it \in tk.items
      PROVE  it[1][2] \in DOMAIN cs2[it[1][1]]
  <2>1. it[1][1] \in Candidates /\ it[1][2] \in DOMAIN cs[it[1][1]]
    BY <1>2 DEF TaskFits, TaskValid, Asked
  <2> QED
    BY <2>1 DEF Grows
<1>3. ASSUME tk.plan # <<>>
      PROVE  tk.plan[2] \in 0..Len(cs2[tk.plan[1]]) /\ (tk.kind \in Answers => tk.plan[2] # 0)
  <2> DEFINE c == tk.plan[1]
  <2>1. c \in Candidates /\ tk.plan[2] \in 0..Len(cs[c]) /\ (tk.kind \in Answers => tk.plan[2] # 0)
    BY <1>3 DEF TaskRecords, Plans, TaskValid
  <2>2. DOMAIN cs[c] = 1..Len(cs[c]) /\ Len(cs[c]) \in Nat /\ DOMAIN cs2[c] = 1..Len(cs2[c]) /\ Len(cs2[c]) \in Nat
    BY <2>1, BookFields
  <2>3. \A i \in 1..Len(cs[c]) : i \in 1..Len(cs2[c])
    BY <2>1, <2>2 DEF Grows
  <2> HIDE DEF c
  <2>4. Len(cs[c]) <= Len(cs2[c])
    BY <2>2, <2>3
  <2> QED
    BY <2>1, <2>2, <2>4 DEF c
<1> QED
  BY <1>1, <1>2, <1>3 DEF TaskValid

(* One task has come to be new, and the others are as they were.           *)
Becomes(t, new) == task' = [task EXCEPT ![t] = new]

(* One task steps to a record that fits, and the tasks are as they should  *)
(* be.                                                                     *)
LEMMA OneTaskSteps ==
  ASSUME OutreachInv, conv' \in Book, Grows(conv, conv'), NEW t \in Tasks,
         NEW new \in TaskRecords, Becomes(t, new), TaskFits(new), TaskValid(conv', new)
  PROVE  /\ task' \in [Tasks -> TaskRecords] /\ TasksInv'
         /\ \A u \in Tasks : task'[u] = IF u = t THEN new ELSE task[u]
<1>1. conv \in Book /\ task \in [Tasks -> TaskRecords]
  BY DEF OutreachInv, TypeOK, Book
<1>2. \A u \in Tasks : task'[u] = IF u = t THEN new ELSE task[u]
  BY <1>1 DEF Becomes
<1>3. task' \in [Tasks -> TaskRecords]
  BY <1>1 DEF Becomes
<1>4. ASSUME NEW u \in Tasks, u # t PROVE TaskFits(task[u]) /\ TaskValid(conv', task[u])
  <2>1. task[u] \in TaskRecords /\ TaskFits(task[u]) /\ TaskValid(conv, task[u])
    BY <1>1 DEF OutreachInv, TasksInv
  <2> QED
    BY <1>1, <2>1, ValidStays
<1>5. \A u \in Tasks : TaskFits(task'[u]) /\ TaskValid(conv', task'[u])
  BY <1>2, <1>4
<1>6. TasksInv'
  BY <1>5 DEF TasksInv, TaskFits, TaskValid, Exists, Asked
<1> QED
  BY <1>2, <1>3, <1>6

(* A task that holds nothing.                                              *)
Rests(tk) == tk.items = {} /\ tk.plan = <<>> /\ tk.left = {} /\ tk.oks = {}

(* What an idle task holds: nothing.                                       *)
LEMMA IdleFields ==
  /\ Idle \in TaskRecords /\ Rests(Idle) /\ Idle.kind = "none" /\ Idle.pc = "idle"
  /\ Idle.queue = {} /\ Idle.review = FALSE
<1>1. <<>> \in Plans
  BY DEF Plans
<1> QED
  BY <1>1 DEF Idle, TaskRecords, Rests, Kinds

(* A task that holds nothing is about rows that are there.                 *)
LEMMA RestsValid ==
  ASSUME NEW cs, NEW tk \in TaskRecords, Rests(tk)
  PROVE  TaskValid(cs, tk)
  BY DEF Rests, TaskValid

(* The stage of a cycle is over: the next comes, or the task ends.         *)
LEMMA Continues ==
  ASSUME NEW tk \in TaskRecords, TaskFits(tk)
  PROVE  /\ NextStage(tk) \in TaskRecords /\ Rests(NextStage(tk)) /\ TaskFits(NextStage(tk))
         /\ \/ NextStage(tk) = Idle
            \/ NextStage(tk).kind = "sync" /\ NextStage(tk).pc = "read" /\ tk.kind = "catchup"
            \/ /\ NextStage(tk).kind = "auto" /\ NextStage(tk).pc = "next"
               /\ tk.kind \in {"sync", "auto"}
<1> DEFINE sync == [Idle EXCEPT !.kind = "sync", !.pc = "read"]
           auto == [Idle EXCEPT !.kind = "auto", !.pc = "next", !.queue = tk.queue]
<1>1. tk.queue \in SUBSET Queued /\ {"sync", "auto"} \subseteq Kinds
  BY DEF TaskRecords, Kinds, Automatic
<1>2. sync \in TaskRecords /\ Rests(sync) /\ sync.kind = "sync" /\ sync.pc = "read" /\ sync.queue = {}
  BY <1>1, IdleFields DEF TaskRecords, Rests
<1>3. auto \in TaskRecords /\ Rests(auto) /\ auto.kind = "auto" /\ auto.pc = "next" /\ auto.queue = tk.queue
  BY <1>1, IdleFields DEF TaskRecords, Rests
<1>4. \/ NextStage(tk) = Idle
      \/ NextStage(tk) = sync /\ tk.kind = "catchup"
      \/ NextStage(tk) = auto /\ tk.kind \in {"sync", "auto"}
  BY DEF NextStage
<1> HIDE DEF sync, auto
<1>5. TaskFits(sync) /\ TaskFits(Idle)
  BY <1>2, IdleFields DEF TaskFits, Rests, ByMessage, Readers
<1>6. tk.kind \in {"sync", "auto"} => TaskFits(auto)
  BY <1>3 DEF TaskFits, Rests, ByMessage
<1> QED
  BY <1>2, <1>3, <1>4, <1>5, <1>6, IdleFields

-----------------------------------------------------------------------------
(* What each action makes of its task                                      *)

Result(t, new) == new \in TaskRecords /\ Becomes(t, new) /\ TaskFits(new) /\ TaskValid(conv', new)

(* The stage a task is in goes on.                                         *)
SameTask(old, new) == new.kind = old.kind /\ new.review = old.review

(* What the invariant says, part by part.                                  *)
LEMMA OutreachState ==
  ASSUME OutreachInv
  PROVE  /\ conv \in Book /\ task \in [Tasks -> TaskRecords]
         /\ \A t \in Tasks : task[t] \in TaskRecords /\ TaskFits(task[t]) /\ TaskValid(conv, task[t])
         /\ Grows(conv, conv)
<1>1. conv \in Book
  BY DEF OutreachInv, TypeOK, Book
<1>2. Grows(conv, conv)
  BY DEF Grows
<1> QED
  BY <1>1, <1>2 DEF OutreachInv, TypeOK, TasksInv

(* An identifier of a conversation names one that is there.                *)
LEMMA ConvIdIs ==
  ASSUME NEW id \in ConvIds
  PROVE  /\ id[1] \in Candidates /\ id[2] \in Nat /\ id[2] \in DOMAIN conv[id[1]]
         /\ id = <<id[1], id[2]>> /\ id \in Candidates \X Nat
<1>1. Cardinality(Tasks) \in Nat
  BY TasksAssumption, FS_CardinalityType
<1>2. id \in Candidates \X (1..Cardinality(Tasks)) /\ id[2] \in DOMAIN conv[id[1]]
  BY DEF ConvIds
<1> QED
  BY <1>1, <1>2

(* The latest of some messages of a conversation is one of them.           *)
LEMMA LatestMessage ==
  ASSUME OutreachInv, NEW c \in Candidates, NEW i \in DOMAIN conv[c],
         NEW K \in SUBSET (1..Len(conv[c][i].msgs)), K # {}
  PROVE  /\ Latest(K) \in K /\ Latest(K) \in Nat
         /\ <<c, i, Latest(K)>> \in Targets /\ Exists(conv, <<c, i, Latest(K)>>)
<1>1. conv[c][i] \in Conversations /\ i \in Nat
  BY OutreachState, BookFields
<1>2. Len(conv[c][i].msgs) \in Nat /\ DOMAIN conv[c][i].msgs = 1..Len(conv[c][i].msgs)
  BY <1>1, ConversationFields
<1>3. Latest(K) \in K
  BY <1>2, LatestIsLast
<1> DEFINE k == Latest(K)
<1> HIDE DEF k
<1>4. k \in K /\ k \in Nat /\ k \in DOMAIN conv[c][i].msgs
  <2>1. k \in K
    BY <1>3 DEF k
  <2>2. k \in 1..Len(conv[c][i].msgs)
    BY <2>1
  <2> QED
    BY <1>2, <2>1, <2>2
<1>5. <<c, i, k>> \in Targets /\ Exists(conv, <<c, i, k>>)
  BY <1>1, <1>4 DEF Targets, Exists
<1> QED
  BY <1>4, <1>5 DEF k

RequestFacts(t, new) ==
  /\ Result(t, new) /\ task[t].pc = "idle"
  /\ new.plan = <<>> /\ new.oks = {} /\ new.queue = {} /\ new.review = FALSE
  /\ \/ new.kind \in {"card", "catchup"} /\ new.pc \in {"lock", "read"} /\ UNCHANGED hrActed
     \/ new.kind \in Buttons /\ hrActed'

(* A task that is started.                                                 *)
Begins(new, kind, pc, items, left) ==
  /\ new \in TaskRecords /\ new.kind = kind /\ new.pc = pc /\ new.items = items /\ new.left = left
  /\ new.plan = <<>> /\ new.oks = {} /\ new.queue = {} /\ new.review = FALSE

(* A task that is about to start.                                          *)
LEMMA NewTask ==
  ASSUME NEW kind \in Kinds, NEW pc \in {"read", "lock", "prep", "send"},
         NEW items \in SUBSET Items, NEW left \in SUBSET Targets
  PROVE  /\ Begins([Idle EXCEPT !.kind = kind, !.pc = pc], kind, pc, {}, {})
         /\ Begins([Idle EXCEPT !.kind = kind, !.pc = pc, !.items = items], kind, pc, items, {})
         /\ Begins([Idle EXCEPT !.kind = kind, !.pc = pc, !.left = left], kind, pc, {}, left)
  BY IdleFields DEF TaskRecords, Rests, Begins

(* A task that is started was idle.                                        *)
LEMMA StartForm ==
  ASSUME NEW t \in Tasks, NEW new, Start(t, new)
  PROVE  Becomes(t, new) /\ task[t].pc = "idle"
         /\ UNCHANGED <<conv, level, review, imLock, lost, everOff>>
  BY DEF Start, Becomes

(* A button is used, or a cycle starts.                                    *)
LEMMA RequestForm ==
  ASSUME OutreachInv, NEW t \in Tasks, Request(t)
  PROVE  /\ UNCHANGED <<conv, level, review, imLock, lost, everOff>>
         /\ chat' \in [Candidates -> {"none", "new", "prior"}] /\ hrActed' \in {hrActed, TRUE}
         /\ \/ UNCHANGED <<task, hrActed>>
            \/ \E new : RequestFacts(t, new)
<1>0. /\ chat \in [Candidates -> {"none", "new", "prior"}] /\ level \in [Candidates -> Levels]
      /\ {"card", "catchup"} \union Buttons \subseteq Kinds
  BY DEF OutreachInv, TypeOK, Kinds, Automatic
<1>1. ASSUME NEW c \in Candidates, Contact(t, c)
      PROVE  /\ UNCHANGED <<conv, level, review, imLock, lost, everOff>>
             /\ chat' \in [Candidates -> {"none", "new", "prior"}] /\ hrActed' = hrActed
             /\ (UNCHANGED task \/ \E new : RequestFacts(t, new))
  <2> DEFINE new == [Idle EXCEPT !.kind = "card", !.pc = "lock", !.items = {<<c, level[c]>>}]
  <2>1. CASE chat' = [chat EXCEPT ![c] = "new"] /\ Start(t, new) /\ UNCHANGED hrActed
    <3>1. {<<c, level[c]>>} \in SUBSET Items /\ {<<c, level[c]>>} \subseteq Asked("card")
      BY <1>0 DEF Items, Decisions, Asked, Answers
    <3>2. Begins(new, "card", "lock", {<<c, level[c]>>}, {})
      BY <1>0, <3>1, NewTask
    <3> HIDE DEF new
    <3>3. TaskFits(new) /\ TaskValid(conv', new)
      BY <3>1, <3>2 DEF Begins, TaskFits, TaskValid, Locked, ByMessage, Answers
    <3>4. RequestFacts(t, new) /\ UNCHANGED <<conv, level, review, imLock, lost, everOff>>
      BY <2>1, <3>2, <3>3, StartForm DEF Begins, RequestFacts, Result
    <3> QED
      BY <1>0, <2>1, <3>4
  <2>2. CASE chat' = [chat EXCEPT ![c] = "prior"]
             /\ UNCHANGED <<conv, level, review, imLock, task, starts, lost, everOff, hrActed>>
    BY <1>0, <2>2
  <2> QED
    BY <1>1, <2>1, <2>2 DEF Contact
<1>2. ASSUME NEW kind \in {"catchup", "confirm", "continue", "observe", "scan"},
             Start(t, [Idle EXCEPT !.kind = kind, !.pc = "read"]),
             IF kind = "catchup" THEN UNCHANGED hrActed ELSE hrActed'
      PROVE  \E new : RequestFacts(t, new)
  <2> DEFINE new == [Idle EXCEPT !.kind = kind, !.pc = "read"]
  <2>1. Begins(new, kind, "read", {}, {})
    <3>1. kind \in Kinds /\ {} \in SUBSET Items /\ {} \in SUBSET Targets
      BY <1>0 DEF Buttons
    <3> QED
      BY <3>1, NewTask
  <2> HIDE DEF new
  <2>2. TaskFits(new) /\ TaskValid(conv', new)
    BY <2>1 DEF Begins, TaskFits, TaskValid, ByMessage, Readers
  <2>3. RequestFacts(t, new)
    BY <1>2, <2>1, <2>2, StartForm DEF Begins, RequestFacts, Result, Buttons, new
  <2> QED
    BY <2>3
<1>3. ASSUME NEW kind \in {"one", "reply"}, NEW c \in Candidates, NEW i \in DOMAIN conv[c],
             NEW k, <<c, i, k>> \in Targets, Exists(conv, <<c, i, k>>),
             Start(t, [Idle EXCEPT !.kind = kind, !.pc = "send", !.left = {<<c, i, k>>}]), hrActed'
      PROVE  \E new : RequestFacts(t, new)
  <2> DEFINE left == {<<c, i, k>>}
             new == [Idle EXCEPT !.kind = kind, !.pc = "send", !.left = left]
  <2>0. kind \in Kinds /\ left \in SUBSET Targets /\ {} \in SUBSET Items
        /\ \A tg \in left : Exists(conv, tg)
    BY <1>0, <1>3 DEF Buttons
  <2>1. Begins(new, kind, "send", {}, left)
    <3> HIDE DEF left
    <3> QED
      BY <2>0, NewTask
  <2>2. Start(t, new)
    BY <1>3
  <2> HIDE DEF new, left
  <2>3. conv' = conv
    BY <2>2, StartForm
  <2>4. TaskFits(new) /\ TaskValid(conv', new)
    BY <2>0, <2>1, <2>3 DEF Begins, TaskFits, TaskValid, Senders, Answers
  <2>5. RequestFacts(t, new)
    BY <1>3, <2>1, <2>2, <2>4, StartForm DEF Begins, RequestFacts, Result, Buttons
  <2> QED
    BY <2>5
<1>4. CASE Cycle(t)
  BY <1>0, <1>2, <1>4, StartForm DEF Cycle
<1>5. CASE Press(t)
  BY <1>0, <1>2, <1>5, StartForm DEF Press
<1>6. CASE SendOne(t)
  <2>1. PICK id \in ConvIds : \E k \in Pending(ConvOf(id)) :
          Start(t, [Idle EXCEPT !.kind = "one", !.pc = "send", !.left = {<<id[1], id[2], k>>}])
    BY <1>6 DEF SendOne
  <2>2. PICK k \in Pending(ConvOf(id)) :
          Start(t, [Idle EXCEPT !.kind = "one", !.pc = "send", !.left = {<<id[1], id[2], k>>}])
    BY <2>1
  <2>3. id[1] \in Candidates /\ id[2] \in DOMAIN conv[id[1]] /\ id[2] \in Nat
    BY ConvIdIs
  <2>4. k \in DOMAIN conv[id[1]][id[2]].msgs /\ k \in Nat
    BY <2>3, OutreachState, BookFields, ConversationFields DEF Pending, Outbound, ConvOf
  <2>5. <<id[1], id[2], k>> \in Targets /\ Exists(conv, <<id[1], id[2], k>>)
    BY <2>3, <2>4 DEF Targets, Exists
  <2>6. chat' = chat /\ hrActed'
    BY <1>6 DEF SendOne
  <2> QED
    BY <1>0, <1>3, <2>2, <2>3, <2>5, <2>6, StartForm
<1>7. CASE SendReply(t)
  <2>1. PICK id \in ConvIds :
          /\ DialogueDrafts(ConvOf(id)) # {}
          /\ Start(t, [Idle EXCEPT !.kind = "reply", !.pc = "send",
                 !.left = {<<id[1], id[2], Latest(DialogueDrafts(ConvOf(id)))>>}])
    BY <1>7 DEF SendReply
  <2>3. id[1] \in Candidates /\ id[2] \in DOMAIN conv[id[1]] /\ id[2] \in Nat
    BY ConvIdIs
  <2> DEFINE k == Latest(DialogueDrafts(ConvOf(id)))
  <2>4. DialogueDrafts(ConvOf(id)) \in SUBSET (1..Len(conv[id[1]][id[2]].msgs))
    BY <2>3, OutreachState, BookFields, ConversationFields DEF ConvOf
  <2>5. <<id[1], id[2], k>> \in Targets /\ Exists(conv, <<id[1], id[2], k>>)
    BY <2>1, <2>3, <2>4, LatestMessage
  <2>6. chat' = chat /\ hrActed'
    BY <1>7 DEF SendReply
  <2> QED
    BY <1>0, <1>3, <2>1, <2>3, <2>5, <2>6, StartForm
<1>8. CASE DraftReply(t)
  <2>1. PICK id \in ConvIds :
          Start(t, [Idle EXCEPT !.kind = "draft", !.pc = "prep", !.items = {<<id, "answer">>}])
    BY <1>8 DEF DraftReply
  <2> DEFINE items == {<<id, "answer">>}
             new == [Idle EXCEPT !.kind = "draft", !.pc = "prep", !.items = items]
  <2>2. id[1] \in Candidates /\ id[2] \in DOMAIN conv[id[1]] /\ id \in Candidates \X Nat
    BY ConvIdIs
  <2>3. items \in SUBSET Items /\ items \subseteq Asked("draft") /\ \A it \in items : it[1] = id
    BY <2>2 DEF Items, Asked, Answers
  <2>4. Begins(new, "draft", "prep", items, {})
    <3> HIDE DEF items
    <3> QED
      BY <1>0, <2>3, NewTask DEF Buttons
  <2>5. Start(t, new) /\ hrActed' /\ chat' = chat
    BY <1>8, <2>1 DEF DraftReply
  <2> HIDE DEF new, items
  <2>6. UNCHANGED <<conv, level, review, imLock, lost, everOff>>
    BY <2>5, StartForm
  <2>7. TaskFits(new) /\ TaskValid(conv', new)
    BY <2>2, <2>3, <2>4, <2>6 DEF Begins, TaskFits, TaskValid, Drafters, ByMessage
  <2>8. RequestFacts(t, new)
    BY <2>4, <2>5, <2>7, StartForm DEF Begins, RequestFacts, Result, Buttons
  <2> QED
    BY <1>0, <2>5, <2>6, <2>8
<1> QED
  BY <1>1, <1>4, <1>5, <1>6, <1>7, <1>8 DEF Request

(* The lock is let go by its holder only.                                  *)
Frees(t) == imLock' = imLock \/ (imLock = t /\ imLock' = nobody)

(* A task is cancelled: it holds nothing more.                             *)
LEMMA AbortForm ==
  ASSUME OutreachInv, NEW t \in Tasks, Abort(t)
  PROVE  /\ UNCHANGED <<conv, chat, level, review, hrActed, everOff>> /\ Frees(t)
         /\ lost' \in BOOLEAN /\ (lost => lost') /\ (task[t].oks # {} => lost')
         /\ Result(t, Idle)
<1>1. TaskFits(Idle) /\ TaskValid(conv', Idle)
  BY IdleFields, RestsValid DEF TaskFits, Rests, ByMessage
<1> QED
  BY <1>1, IdleFields DEF Abort, data, Release, Frees, Result, Becomes, OutreachInv, TypeOK

(* A task, or its part of a cycle, ends.                                   *)
LEMMA FinishForm ==
  ASSUME OutreachInv, NEW t \in Tasks, Finish(t)
  PROVE  /\ Frees(t) /\ Result(t, NextStage(task[t])) /\ Rests(NextStage(task[t]))
         /\ imLock' # t
<1>1. task[t] \in TaskRecords /\ TaskFits(task[t])
  BY OutreachState
<1>2. Becomes(t, NextStage(task[t]))
  BY DEF Finish, Becomes
<1> QED
  BY <1>1, <1>2, Continues, RestsValid, TasksAssumption DEF Finish, Release, Frees, Result

(* The stages of a cycle before it writes to anybody.                      *)
Ended(tk) == tk.kind \in {"none", "sync", "auto"} /\ tk.pc \in {"idle", "read", "next"}

(* The candidates a cycle selects fit the stage it comes to.               *)
LEMMA SelectedFits ==
  ASSUME OutreachInv, NEW kind \in Readers, kind # "confirm"
  PROVE  /\ Selected(kind) \in SUBSET Items /\ Selected(kind) \subseteq Asked(kind)
         /\ kind = "dialogue" => \A it \in Selected(kind) : it[1][2] \in DOMAIN conv[it[1][1]]
<1>1. \A id \in ConvIds : id \in Candidates \X Nat
  BY ConvIdIs
<1>2. CASE kind = "catchup"
  <2>1. Selected(kind) = UNION {{<<c, d>> : d \in CatchUpDecisions(c)} : c \in Candidates}
    BY <1>2 DEF Selected
  <2>2. Selected(kind) \subseteq Candidates \X Decisions
    BY <2>1 DEF CatchUpDecisions, Decisions, Levels
  <2> QED
    BY <1>2, <2>2 DEF Items, Asked, Answers
<1>3. CASE kind \in {"continue", "observe"}
  <2>1. Selected(kind) \subseteq Candidates \X Decisions
    BY <1>3 DEF Selected, Decisions, Levels
  <2> QED
    BY <1>3, <2>1 DEF Items, Asked, Answers
<1>4. CASE kind = "dialogue"
  <2>1. Selected(kind) = {<<id, "answer">> : id \in ConvIds}
    BY <1>4 DEF Selected
  <2>2. \A it \in Selected(kind) : it \in (Candidates \X Nat) \X {"answer"} /\ it[1] \in ConvIds
    BY <1>1, <2>1
  <2>3. \A it \in Selected(kind) : it[1][2] \in DOMAIN conv[it[1][1]]
    BY <2>2, ConvIdIs
  <2> QED
    BY <1>4, <2>2, <2>3 DEF Items, Asked, Answers
<1>5. CASE kind \in {"sync", "scan"}
  <2>1. Selected(kind) \subseteq (Candidates \X Nat) \X {"sync"}
    BY <1>1, <1>5 DEF Selected
  <2> QED
    BY <1>5, <2>1 DEF Items, Asked, Answers
<1> QED
  BY <1>2, <1>3, <1>4, <1>5 DEF Readers

(* The messages that are confirmed are there.                              *)
LEMMA ConfirmFits ==
  ASSUME OutreachInv
  PROVE  ConfirmTargets \in SUBSET Targets /\ \A tg \in ConfirmTargets : Exists(conv, tg)
<1>1. ASSUME NEW id \in ConvIds, Drafted(ConvOf(id)) # {}
      PROVE  LET tg == <<id[1], id[2], Latest(Drafted(ConvOf(id)))>> IN tg \in Targets /\ Exists(conv, tg)
  <2>1. id[1] \in Candidates /\ id[2] \in DOMAIN conv[id[1]]
    BY ConvIdIs
  <2>2. Drafted(ConvOf(id)) \in SUBSET (1..Len(conv[id[1]][id[2]].msgs))
    BY <2>1, OutreachState, BookFields, ConversationFields DEF ConvOf
  <2> QED
    BY <1>1, <2>1, <2>2, LatestMessage
<1> QED
  BY <1>1 DEF ConfirmTargets

ReadFacts(t, new) ==
  /\ Result(t, new) /\ new.plan = <<>> /\ new.oks = {}
  /\ \/ Ended(new) /\ Rests(new)
     \/ /\ new.kind = task[t].kind
        /\ new.pc = "send" => new.kind = "confirm"
        /\ new.pc = "prep" => new.kind \notin Locked
        /\ new.kind = "dialogue" =>
             new.left = {} /\ new.review = review /\ new.queue = task[t].queue

(* A task has read what it works on.                                       *)
LEMMA ReadForm ==
  ASSUME OutreachInv, NEW t \in Tasks, Read(t)
  PROVE  /\ UNCHANGED <<conv, chat, level, review, hist>> /\ Frees(t) /\ task[t].pc = "read"
         /\ \E new : ReadFacts(t, new)
<1> DEFINE old == task[t]
<1>0. /\ UNCHANGED <<conv, chat, level, review, hist>> /\ old.pc = "read"
      /\ old \in TaskRecords /\ TaskFits(old) /\ review \in BOOLEAN
  BY OutreachState DEF Read, data, OutreachInv, TypeOK
<1>1. old.kind \in Readers /\ old.plan = <<>> /\ old.left = {} /\ old.oks = {}
  BY <1>0 DEF TaskFits
<1>2. CASE old.kind = "confirm"
  <2> DEFINE new == [old EXCEPT !.left = ConfirmTargets, !.pc = "send"]
  <2>1. Becomes(t, new) /\ UNCHANGED imLock
    BY <1>2 DEF Read, Becomes
  <2> HIDE DEF old
  <2>2. /\ new \in TaskRecords /\ new.kind = old.kind /\ new.pc = "send" /\ new.plan = <<>> /\ new.oks = {}
        /\ new.left = ConfirmTargets /\ new.items = old.items /\ new.queue = old.queue
    BY <1>0, <1>1, ConfirmFits DEF TaskRecords
  <2> HIDE DEF new
  <2>3. TaskFits(new)
    BY <1>0, <1>2, <2>2 DEF TaskFits, Senders
  <2>4. TaskValid(conv', new)
    BY <1>0, <1>2, <2>2, ConfirmFits DEF TaskValid, Answers
  <2>5. ReadFacts(t, new)
    BY <1>2, <2>1, <2>2, <2>3, <2>4 DEF ReadFacts, Result, Locked, old
  <2> QED
    BY <1>0, <2>1, <2>5 DEF Frees, old
<1>3. CASE old.kind = "catchup" /\ Finish(t)
  <2> DEFINE new == NextStage(old)
  <2>1. Frees(t) /\ Result(t, new) /\ Rests(new)
    BY <1>3, FinishForm
  <2>2. Ended(new)
    BY <1>0, Continues, IdleFields DEF Ended
  <2> HIDE DEF new
  <2>3. ReadFacts(t, new)
    BY <2>1, <2>2 DEF ReadFacts, Rests
  <2> QED
    BY <1>0, <2>1, <2>3
<1>4. ASSUME old.kind # "confirm", NEW pc \in {"lock", "store", "prep"},
             pc = "lock" <=> old.kind = "catchup", pc = "store" <=> old.kind \in {"sync", "scan"},
             Becomes(t, [old EXCEPT !.items = Selected(old.kind), !.review = review, !.pc = pc])
      PROVE  \E new : ReadFacts(t, new)
  <2> DEFINE items == Selected(old.kind)
             new == [old EXCEPT !.items = items, !.review = review, !.pc = pc]
  <2>1. /\ items \in SUBSET Items /\ items \subseteq Asked(old.kind)
        /\ old.kind = "dialogue" => \A it \in items : it[1][2] \in DOMAIN conv[it[1][1]]
    BY <1>1, <1>4, SelectedFits
  <2> HIDE DEF old, items
  <2>2. /\ new \in TaskRecords /\ new.kind = old.kind /\ new.pc = pc /\ new.plan = <<>> /\ new.oks = {}
        /\ new.left = {} /\ new.items = items /\ new.queue = old.queue /\ new.review = review
    BY <1>0, <1>1, <1>4, <2>1 DEF TaskRecords
  <2>3. Becomes(t, new)
    BY <1>4 DEF items
  <2> HIDE DEF new
  <2>4. TaskFits(new)
    BY <1>0, <1>1, <1>4, <2>1, <2>2 DEF TaskFits, Locked, Readers, Drafters
  <2>5. TaskValid(conv', new)
    BY <1>0, <1>1, <2>1, <2>2 DEF TaskValid, Answers, Readers
  <2>6. ReadFacts(t, new)
    BY <1>1, <1>4, <2>2, <2>3, <2>4, <2>5 DEF ReadFacts, Result, Locked, Readers, old
  <2> QED
    BY <2>6
<1>5. CASE old.kind # "confirm" /\ ~(Selected(old.kind) = {} /\ old.kind = "catchup")
  <2> DEFINE pc == CASE old.kind = "catchup" -> "lock" [] old.kind \in {"sync", "scan"} -> "store"
                     [] OTHER -> "prep"
  <2>1. /\ UNCHANGED imLock
        /\ Becomes(t, [old EXCEPT !.items = Selected(old.kind), !.review = review, !.pc = pc])
    BY <1>5 DEF Read, Becomes
  <2>2. pc \in {"lock", "store", "prep"} /\ (pc = "lock" <=> old.kind = "catchup")
        /\ (pc = "store" <=> old.kind \in {"sync", "scan"})
    OBVIOUS
  <2> HIDE DEF pc
  <2> QED
    BY <1>0, <1>4, <1>5, <2>1, <2>2 DEF Frees
<1> QED
  BY <1>0, <1>2, <1>3, <1>5 DEF Read

AcquireFacts(t, new) ==
  /\ Result(t, new) /\ SameTask(task[t], new) /\ new.queue = task[t].queue /\ new.pc = "prep"
  /\ new.plan = <<>> /\ new.left = {} /\ new.oks = {} /\ new.kind \in Locked

(* A task gets the lock, or finds nothing to do.                           *)
LEMMA AcquireForm ==
  ASSUME OutreachInv, NEW t \in Tasks, Acquire(t)
  PROVE  /\ UNCHANGED <<conv, chat, level, review, hist>> /\ imLock = nobody /\ imLock' = t
         /\ \E new : AcquireFacts(t, new)
<1> DEFINE old == task[t]
           new == [old EXCEPT !.pc = "prep"]
<1>1. /\ UNCHANGED <<conv, chat, level, review, hist>> /\ imLock = nobody /\ imLock' = t
      /\ old.pc = "lock" /\ Becomes(t, new)
  BY DEF Acquire, data, Goto, Becomes
<1>2. old \in TaskRecords /\ TaskFits(old) /\ TaskValid(conv, old)
  BY OutreachState
<1> HIDE DEF old
<1>3. /\ new \in TaskRecords /\ new.kind = old.kind /\ new.pc = "prep" /\ new.plan = old.plan
      /\ new.left = old.left /\ new.oks = old.oks /\ new.items = old.items
      /\ new.queue = old.queue /\ new.review = old.review
  BY <1>2 DEF TaskRecords
<1>4. old.kind \in Locked /\ old.plan = <<>> /\ old.left = {} /\ old.oks = {}
  BY <1>1, <1>2 DEF TaskFits
<1> HIDE DEF new
<1>5. TaskFits(new) /\ TaskValid(conv', new)
  BY <1>1, <1>2, <1>3, <1>4 DEF TaskFits, TaskValid, Drafters
<1>6. AcquireFacts(t, new)
  BY <1>1, <1>3, <1>4, <1>5 DEF AcquireFacts, Result, SameTask, old
<1> QED
  BY <1>1, <1>6

(* One entry of the list is looked at: nothing follows, an unsent draft is *)
(* taken, or a text is planned.                                            *)
PrepareFacts(t, new) ==
  /\ Result(t, new) /\ SameTask(task[t], new) /\ new.queue = task[t].queue /\ new.oks = task[t].oks
  /\ new.pc = "prep"
  /\ \/ new.plan = <<>> /\ new.left = task[t].left
     \/ \E c \in Candidates :
          /\ Len(conv[c]) = 1 /\ Pending(conv[c][1]) # {} /\ task[t].kind \notin Answers
          /\ new.left = task[t].left \union {<<c, 1, Latest(Pending(conv[c][1]))>>} /\ new.plan = <<>>
     \/ \E c \in Candidates, d \in Decisions :
          /\ Len(conv[c]) <= 1 /\ ~HasPending(c) /\ task[t].kind \notin Answers
          /\ new.plan = <<c, Len(conv[c]), d, 0>> /\ new.left = task[t].left
     \/ \E c \in Candidates : \E i \in DOMAIN conv[c] : \E k \in Inbound(conv[c][i]) :
          /\ new.plan = <<c, i, "answer", k>> /\ new.left = task[t].left
          /\ task[t].kind \in Answers

(* A plan is made for one entry of a list.                                 *)
LEMMA PrepareForm ==
  ASSUME OutreachInv, NEW t \in Tasks, Prepare(t)
  PROVE  /\ UNCHANGED <<conv, chat, level, review, imLock, hist>>
         /\ task[t].pc = "prep" /\ task[t].plan = <<>>
         /\ \E new : PrepareFacts(t, new)
<1> DEFINE old == task[t]
<1>1. /\ UNCHANGED <<conv, chat, level, review, imLock, hist>> /\ old.pc = "prep" /\ old.plan = <<>>
  BY DEF Prepare, data
<1>2. /\ old \in TaskRecords /\ TaskFits(old) /\ TaskValid(conv, old)
      /\ old.kind \in Drafters /\ old.kind \notin {"sync", "scan"}
      /\ old.items \subseteq Asked(old.kind) /\ old.items \in SUBSET Items
      /\ <<>> \in Plans
  <2>1. old \in TaskRecords /\ TaskFits(old) /\ TaskValid(conv, old)
    BY OutreachState
  <2> QED
    BY <1>1, <2>1 DEF TaskFits, TaskRecords, Drafters, Locked, Plans
<1>3. ASSUME NEW items \in SUBSET old.items, NEW left \in SUBSET Targets, NEW plan \in Plans,
             \A tg \in left : Exists(conv, tg), old.kind \in Answers => left = old.left,
             plan # <<>> => /\ plan[2] \in 0..Len(conv[plan[1]])
                            /\ old.kind \in Answers => plan[2] # 0
                            /\ plan[3] = "answer" <=> old.kind \in Answers,
             NEW new \in TaskRecords, new.items = items, new.left = left, new.plan = plan,
             new.kind = old.kind, new.pc = old.pc, new.oks = old.oks, new.queue = old.queue,
             new.review = old.review, Becomes(t, new)
      PROVE  Result(t, new) /\ SameTask(old, new)
  <2> HIDE DEF old
  <2>1. TaskFits(new)
    BY <1>1, <1>2, <1>3 DEF TaskFits, Answers
  <2>2. \A tg \in new.left \union new.oks : Exists(conv, tg)
    BY <1>2, <1>3 DEF TaskValid
  <2>3. TaskValid(conv', new)
    BY <1>1, <1>2, <1>3, <2>2 DEF TaskValid
  <2> QED
    BY <1>3, <2>1, <2>3 DEF Result, SameTask
<1>4. ASSUME NEW it \in old.items,
             Becomes(t, [old EXCEPT !.items = old.items \ {it}])
      PROVE  \E new : PrepareFacts(t, new)
  <2> DEFINE items == old.items \ {it}
             new == [old EXCEPT !.items = items]
  <2>0. items \in SUBSET old.items
    OBVIOUS
  <2>1. Becomes(t, new)
    BY <1>4
  <2> HIDE DEF old, items
  <2>2. /\ new \in TaskRecords /\ new.items = items /\ new.left = old.left /\ new.plan = old.plan
        /\ new.kind = old.kind /\ new.pc = old.pc /\ new.oks = old.oks /\ new.queue = old.queue
        /\ new.review = old.review /\ old.left \in SUBSET Targets
    BY <1>2, <2>0 DEF TaskRecords
  <2> HIDE DEF new
  <2>3. Result(t, new) /\ SameTask(old, new)
    BY <1>1, <1>2, <1>3, <2>0, <2>1, <2>2 DEF TaskValid
  <2> QED
    BY <1>1, <2>2, <2>3 DEF PrepareFacts, old
<1>5. ASSUME NEW it \in old.items, NEW c \in Candidates, Has(c), Pending(The(c)) # {},
             old.kind \notin Answers,
             Becomes(t, [old EXCEPT !.left = old.left \union {<<c, 1, Latest(Pending(The(c)))>>},
                                    !.items = old.items \ {it}])
      PROVE  \E new : PrepareFacts(t, new)
  <2> DEFINE items == old.items \ {it}
             left == old.left \union {<<c, 1, Latest(Pending(The(c)))>>}
             new == [old EXCEPT !.left = left, !.items = items]
  <2>0. items \in SUBSET old.items /\ Becomes(t, new)
    BY <1>5
  <2>1. conv[c] \in Seq(Conversations) /\ 1 \in DOMAIN conv[c] /\ conv[c][1] \in Conversations
    BY <1>5, OutreachState, BookFields DEF Has
  <2>2. <<c, 1, Latest(Pending(The(c)))>> \in Targets /\ Exists(conv, <<c, 1, Latest(Pending(The(c)))>>)
    <3>1. Pending(The(c)) \in SUBSET (1..Len(conv[c][1].msgs))
      BY <2>1, ConversationFields DEF The
    <3> QED
      BY <1>5, <2>1, <3>1, LatestMessage DEF The
  <2>3. left \in SUBSET Targets /\ \A tg \in left : Exists(conv, tg)
    BY <1>2, <2>2 DEF TaskRecords, TaskValid
  <2>4. left = old.left \union {<<c, 1, Latest(Pending(conv[c][1]))>>}
    BY DEF The
  <2> HIDE DEF old, items, left
  <2>5. /\ new \in TaskRecords /\ new.items = items /\ new.left = left /\ new.plan = old.plan
        /\ new.kind = old.kind /\ new.pc = old.pc /\ new.oks = old.oks /\ new.queue = old.queue
        /\ new.review = old.review
    BY <1>2, <2>0, <2>3 DEF TaskRecords
  <2> HIDE DEF new
  <2>6. Result(t, new) /\ SameTask(old, new)
    BY <1>1, <1>2, <1>3, <1>5, <2>0, <2>3, <2>5
  <2> QED
    BY <1>1, <1>5, <2>4, <2>5, <2>6 DEF PrepareFacts, old, Has, The
<1>6. ASSUME NEW it \in old.items, NEW plan \in Plans, plan[2] \in 0..Len(conv[plan[1]]),
             old.kind \in Answers => plan[2] # 0,
             plan[3] = "answer" <=> old.kind \in Answers,
             Becomes(t, [old EXCEPT !.plan = plan, !.items = old.items \ {it}])
      PROVE  \E new : /\ Result(t, new) /\ SameTask(old, new) /\ new.queue = old.queue /\ new.oks = old.oks
                      /\ new.pc = "prep" /\ new.left = old.left /\ new.plan = plan
  <2> DEFINE items == old.items \ {it}
             new == [old EXCEPT !.plan = plan, !.items = items]
  <2>0. items \in SUBSET old.items /\ Becomes(t, new)
    BY <1>6
  <2> HIDE DEF old, items
  <2>2. /\ new \in TaskRecords /\ new.items = items /\ new.left = old.left /\ new.plan = plan
        /\ new.kind = old.kind /\ new.pc = old.pc /\ new.oks = old.oks /\ new.queue = old.queue
        /\ new.review = old.review /\ old.left \in SUBSET Targets
    BY <1>2, <1>6, <2>0 DEF TaskRecords
  <2> HIDE DEF new
  <2>3. Result(t, new) /\ SameTask(old, new)
    <3>1. \A tg \in old.left : Exists(conv, tg)
      BY <1>2 DEF TaskValid
    <3> QED
      BY <1>3, <1>6, <2>0, <2>2, <3>1
  <2> QED
    BY <1>1, <2>2, <2>3
<1>7. ASSUME NEW it \in old.items, it[2] = "answer",
             IF Unanswered(ConvOf(it[1]))
               THEN task' = [task EXCEPT ![t].items = old.items \ {it},
                               ![t].plan = <<it[1][1], it[1][2], "answer", Latest(Inbound(ConvOf(it[1])))>>]
               ELSE task' = [task EXCEPT ![t].items = old.items \ {it}]
      PROVE  \E new : PrepareFacts(t, new)
  <2> DEFINE c == it[1][1]
             i == it[1][2]
             K == Inbound(ConvOf(it[1]))
             k == Latest(K)
  <2>1. old.kind \in Answers /\ it \in (Candidates \X Nat) \X {"answer"}
    BY <1>2, <1>7 DEF Asked, Decisions, Levels
  <2>2. c \in Candidates /\ i \in Nat /\ i \in DOMAIN conv[c]
    BY <1>2, <2>1 DEF TaskValid
  <2>3. CASE ~Unanswered(ConvOf(it[1]))
    <3>1. Becomes(t, [old EXCEPT !.items = old.items \ {it}])
      BY <1>7, <2>3 DEF Becomes
    <3> QED
      BY <1>4, <3>1
  <2>4. CASE Unanswered(ConvOf(it[1]))
    <3>1. Becomes(t, [old EXCEPT !.plan = <<c, i, "answer", k>>, !.items = old.items \ {it}])
      <4>1. task' = [task EXCEPT ![t].items = old.items \ {it}, ![t].plan = <<c, i, "answer", k>>]
        BY <1>7, <2>4
      <4>2. task \in [Tasks -> TaskRecords]
        BY OutreachState
      <4> HIDE DEF c, i, k
      <4> QED
        BY <4>1, <4>2 DEF Becomes, TaskRecords
    <3>2. K # {} /\ K \in SUBSET (1..Len(conv[c][i].msgs))
      BY <2>2, <2>4, OutreachState, BookFields, ConversationFields DEF Unanswered, ConvOf
    <3>3. k \in K /\ k \in Nat
      BY <2>2, <3>2, LatestMessage
    <3>4. i \in 0..Len(conv[c]) /\ i # 0
      BY <2>2, OutreachState, BookFields
    <3> HIDE DEF k, c, i, old
    <3> DEFINE plan == <<c, i, "answer", k>>
    <3>5. plan \in Plans /\ plan[1] = c /\ plan[2] = i /\ plan[3] = "answer"
      BY <2>2, <3>3 DEF Plans
    <3> HIDE DEF plan
    <3>51. PICK new : /\ Result(t, new) /\ SameTask(old, new) /\ new.queue = old.queue /\ new.oks = old.oks
                      /\ new.pc = "prep" /\ new.left = old.left /\ new.plan = plan
      <4>1. Becomes(t, [old EXCEPT !.plan = plan, !.items = old.items \ {it}])
        BY <3>1 DEF plan
      <4>2. plan[2] \in 0..Len(conv[plan[1]]) /\ plan[2] # 0
        BY <3>4, <3>5
      <4> QED
        BY <1>6, <2>1, <3>5, <4>1, <4>2
    <3>6. k \in Inbound(conv[c][i])
      BY <3>3 DEF ConvOf, c, i
    <3>7. PrepareFacts(t, new)
      BY <2>1, <2>2, <3>51, <3>6 DEF PrepareFacts, old, plan
    <3> QED
      BY <3>7
  <2> QED
    BY <2>3, <2>4
<1>8. ASSUME NEW it \in old.items, it[2] # "answer",
             task' = [task EXCEPT ![t] =
                      [CASE Raises(it[1]) \/ ~Wanted(it[1], it[2]) -> @
                         [] ~Raises(it[1]) /\ Wanted(it[1], it[2]) /\ HasPending(it[1]) -> Reused(t, it[1])
                         [] OTHER -> Planned(t, it[1], it[2])
                       EXCEPT !.items = old.items \ {it}]]
      PROVE  \E new : PrepareFacts(t, new)
  <2> DEFINE c == it[1]
             d == it[2]
             items == old.items \ {it}
  <2>1. old.kind \notin Answers /\ c \in Candidates /\ d \in Decisions /\ d # "answer"
    BY <1>2, <1>8 DEF Asked
  <2>2. CASE Raises(c) \/ ~Wanted(c, d)
    <3>1. Becomes(t, [old EXCEPT !.items = items])
      BY <1>8, <2>2 DEF Becomes
    <3> QED
      BY <1>4, <3>1
  <2>3. CASE ~Raises(c) /\ Wanted(c, d) /\ HasPending(c)
    <3>1. Becomes(t, [Reused(t, c) EXCEPT !.items = items])
      BY <1>8, <2>3 DEF Becomes
    <3>2. [Reused(t, c) EXCEPT !.items = items]
            = [old EXCEPT !.left = old.left \union {<<c, 1, Latest(Pending(The(c)))>>}, !.items = items]
      BY DEF Reused
    <3> QED
      BY <1>5, <2>1, <2>3, <3>1, <3>2 DEF HasPending
  <2>4. CASE ~Raises(c) /\ Wanted(c, d) /\ ~HasPending(c)
    <3>1. Becomes(t, [Planned(t, c, d) EXCEPT !.items = items])
      BY <1>8, <2>4 DEF Becomes
    <3>2. [Planned(t, c, d) EXCEPT !.items = items] = [old EXCEPT !.plan = <<c, Len(conv[c]), d, 0>>, !.items = items]
      BY DEF Planned
    <3>3. Len(conv[c]) \in Nat /\ Len(conv[c]) <= 1
      BY <2>1, <2>4, OutreachState, BookFields DEF Raises
    <3> HIDE DEF old, c, d
    <3> DEFINE n == Len(conv[c])
               plan == <<c, n, d, 0>>
    <3>4. plan \in Plans /\ plan[1] = c /\ plan[2] = n /\ plan[3] = d
      BY <2>1, <3>3 DEF Plans
    <3> HIDE DEF plan
    <3>41. PICK new : /\ Result(t, new) /\ SameTask(old, new) /\ new.queue = old.queue /\ new.oks = old.oks
                      /\ new.pc = "prep" /\ new.left = old.left /\ new.plan = plan
      <4>1. Becomes(t, [old EXCEPT !.plan = plan, !.items = old.items \ {it}])
        BY <3>1, <3>2 DEF plan
      <4>2. plan[2] \in 0..Len(conv[plan[1]])
        BY <3>3, <3>4
      <4> QED
        BY <1>6, <2>1, <3>4, <4>1, <4>2
    <3>5. PrepareFacts(t, new)
      BY <2>1, <2>4, <3>3, <3>41 DEF PrepareFacts, old, plan
    <3> QED
      BY <3>5
  <2> QED
    BY <2>2, <2>3, <2>4
<1>9. \E it \in old.items :
        IF it[2] = "answer"
          THEN IF Unanswered(ConvOf(it[1]))
                 THEN task' = [task EXCEPT ![t].items = old.items \ {it},
                               ![t].plan = <<it[1][1], it[1][2], "answer", Latest(Inbound(ConvOf(it[1])))>>]
                 ELSE task' = [task EXCEPT ![t].items = old.items \ {it}]
          ELSE task' = [task EXCEPT ![t] =
                      [CASE Raises(it[1]) \/ ~Wanted(it[1], it[2]) -> @
                         [] ~Raises(it[1]) /\ Wanted(it[1], it[2]) /\ HasPending(it[1]) -> Reused(t, it[1])
                         [] OTHER -> Planned(t, it[1], it[2])
                       EXCEPT !.items = old.items \ {it}]]
  BY DEF Prepare
<1> QED
  BY <1>1, <1>7, <1>8, <1>9

PreparedFacts(t, new) ==
  /\ Result(t, new)
  /\ \/ /\ Frees(t) /\ imLock' # t /\ Rests(new)
        /\ new = Idle \/ Ended(new)
     \/ /\ UNCHANGED imLock /\ SameTask(task[t], new) /\ new.queue = task[t].queue /\ new.plan = <<>>
        /\ new.pc = "send" /\ new.left = task[t].left /\ new.left # {} /\ new.oks = task[t].oks
        /\ new.oks = {} /\ ~HeldForReview(t)

(* The list is done: what is to be sent is there.                          *)
LEMMA PreparedForm ==
  ASSUME OutreachInv, NEW t \in Tasks, Prepared(t)
  PROVE  /\ UNCHANGED <<conv, chat, level, review, hist>> /\ task[t].pc = "prep" /\ task[t].plan = <<>>
         /\ task[t].kind \in Drafters /\ \E new : PreparedFacts(t, new)
<1> DEFINE old == task[t]
           new == [old EXCEPT !.pc = "send"]
<1>1. /\ UNCHANGED <<conv, chat, level, review, hist>> /\ old.pc = "prep" /\ old.plan = <<>> /\ old.items = {}
      /\ \/ Finish(t)
         \/ old.left # {} /\ ~HeldForReview(t) /\ Becomes(t, new) /\ UNCHANGED imLock
  BY DEF Prepared, data, SendsNow, Goto, Becomes
<1>2. old \in TaskRecords /\ TaskFits(old) /\ TaskValid(conv, old)
  BY OutreachState
<1>3. old.kind \in Drafters /\ old.oks = {}
  BY <1>1, <1>2 DEF TaskFits
<1>4. CASE Finish(t)
  <2> DEFINE next == NextStage(old)
  <2>1. Frees(t) /\ imLock' # t /\ Result(t, next) /\ Rests(next)
    BY <1>4, FinishForm
  <2>2. next = Idle \/ Ended(next)
    BY <1>2, Continues DEF Ended
  <2> HIDE DEF next
  <2>3. PreparedFacts(t, next)
    BY <2>1, <2>2 DEF PreparedFacts
  <2> QED
    BY <1>1, <1>3, <2>3
<1>5. CASE old.left # {} /\ ~HeldForReview(t) /\ Becomes(t, new) /\ UNCHANGED imLock
  <2>1. Becomes(t, new)
    BY <1>5
  <2>2. old.kind = "draft" => old.left = {}
    BY <1>2 DEF TaskFits
  <2> HIDE DEF old
  <2>3. /\ new \in TaskRecords /\ new.kind = old.kind /\ new.pc = "send" /\ new.plan = old.plan
        /\ new.left = old.left /\ new.oks = old.oks /\ new.items = old.items
        /\ new.queue = old.queue /\ new.review = old.review
    BY <1>2 DEF TaskRecords
  <2> HIDE DEF new
  <2>4. TaskFits(new) /\ TaskValid(conv', new)
    BY <1>1, <1>2, <1>3, <1>5, <2>2, <2>3 DEF TaskFits, TaskValid, Drafters, Senders, Automatic, Locked
  <2>5. PreparedFacts(t, new)
    BY <1>1, <1>3, <1>5, <2>1, <2>3, <2>4 DEF PreparedFacts, Result, SameTask, old
  <2> QED
    BY <1>1, <1>3, <2>5 DEF old
<1> QED
  BY <1>1, <1>4, <1>5

NextFacts(t, new) ==
  /\ Result(t, new) /\ new.plan = <<>> /\ new.left = {} /\ new.oks = {}
  /\ \/ new.kind = "dialogue" /\ new.pc = "read" /\ new.queue = {}
     \/ new.kind = "auto" /\ new.pc \in {"lock", "next"}

(* A cycle goes on to the next candidate of its list.                      *)
LEMMA NextOutreachForm ==
  ASSUME OutreachInv, NEW t \in Tasks, NextOutreach(t)
  PROVE  /\ UNCHANGED <<conv, chat, level, review, imLock, hist>> /\ task[t].pc = "next"
         /\ \E new : NextFacts(t, new)
<1> DEFINE old == task[t]
<1>1. UNCHANGED <<conv, chat, level, review, imLock, hist>> /\ old.pc = "next"
  BY DEF NextOutreach, data
<1>2. old \in TaskRecords /\ TaskFits(old) /\ TaskValid(conv, old)
  BY OutreachState
<1>3. old.kind = "auto" /\ old.plan = <<>> /\ old.left = {} /\ old.oks = {}
      /\ old.queue \subseteq Candidates \X Decisions
  BY <1>1, <1>2 DEF TaskFits
<1>4. CASE old.queue = {}
  <2> DEFINE new == [Idle EXCEPT !.kind = "dialogue", !.pc = "read"]
  <2>1. Becomes(t, new)
    BY <1>4 DEF NextOutreach, Becomes
  <2>2. Begins(new, "dialogue", "read", {}, {})
    <3>1. "dialogue" \in Kinds /\ {} \in SUBSET Items /\ {} \in SUBSET Targets
      BY DEF Kinds, Automatic
    <3> QED
      BY <3>1, NewTask
  <2> HIDE DEF new
  <2>3. TaskFits(new) /\ TaskValid(conv', new)
    BY <2>2 DEF Begins, TaskFits, TaskValid, Readers
  <2>4. NextFacts(t, new)
    BY <2>1, <2>2, <2>3 DEF NextFacts, Result, Begins
  <2> QED
    BY <1>1, <2>4
<1>5. ASSUME NEW e \in old.queue, ReachesOut(t, e)
      PROVE  \E new : NextFacts(t, new)
  <2> DEFINE queue == old.queue \ {e}
             items == IF MayReachOut(e[1]) THEN {e} ELSE {}
             pc == IF MayReachOut(e[1]) THEN "lock" ELSE "next"
             new == [old EXCEPT !.queue = queue, !.items = items, !.pc = pc]
  <2>1. task' = [task EXCEPT ![t].queue = queue, ![t].items = items, ![t].pc = pc]
    BY <1>5 DEF ReachesOut
  <2>2. /\ queue \in SUBSET Queued /\ queue \subseteq Candidates \X Decisions
        /\ items \in SUBSET Items /\ items \subseteq Asked("auto") /\ pc \in {"lock", "next"}
    BY <1>2, <1>3 DEF TaskRecords, Items, Asked, Answers
  <2>3. task \in [Tasks -> TaskRecords]
    BY OutreachState
  <2> HIDE DEF queue, items, pc
  <2>4. Becomes(t, new)
    BY <2>1, <2>3 DEF Becomes, TaskRecords
  <2> HIDE DEF old
  <2>5. /\ new \in TaskRecords /\ new.kind = old.kind /\ new.pc = pc /\ new.plan = old.plan
        /\ new.left = old.left /\ new.oks = old.oks /\ new.items = items /\ new.queue = queue
    BY <1>2, <2>2 DEF TaskRecords
  <2> HIDE DEF new
  <2>6. TaskFits(new) /\ TaskValid(conv', new)
    BY <1>3, <2>2, <2>5 DEF TaskFits, TaskValid, Locked, ByMessage, Answers
  <2>7. NextFacts(t, new)
    BY <1>3, <2>2, <2>4, <2>5, <2>6 DEF NextFacts, Result
  <2> QED
    BY <2>7
<1>6. CASE old.queue # {}
  <2>1. \E e \in old.queue : ReachesOut(t, e)
    BY <1>6 DEF NextOutreach
  <2> QED
    BY <1>1, <1>5, <2>1
<1> QED
  BY <1>4, <1>6

-----------------------------------------------------------------------------
(* What each action makes of a conversation                                *)

(* Rows of which one conversation is replaced have grown.                  *)
LEMMA ReplacedGrows ==
  ASSUME NEW cs \in Book, NEW cs2 \in Book, NEW c \in Candidates, NEW i \in DOMAIN cs[c], NEW cv,
         Replaced(cs, cs2, c, i, cv),
         \A k \in DOMAIN cs[c][i].msgs : k \in DOMAIN cv.msgs /\ cv.msgs[k].by = cs[c][i].msgs[k].by
  PROVE  Grows(cs, cs2)
  BY DEF Replaced, Grows

(* Another message in the place of the k-th.                               *)
Rewritten(cv, cv2, k, m) ==
  /\ DOMAIN cv2.msgs = DOMAIN cv.msgs
  /\ \A j \in DOMAIN cv.msgs : cv2.msgs[j] = IF j = k THEN m ELSE cv.msgs[j]

(* A message that is rewritten in place stays whose it is.                 *)
LEMMA OneRewritten ==
  ASSUME OutreachInv, NEW c \in Candidates, NEW i \in DOMAIN conv[c],
         NEW k \in DOMAIN conv[c][i].msgs, NEW m \in Messages, m.by = conv[c][i].msgs[k].by,
         conv' = [conv EXCEPT ![c][i].msgs[k] = m]
  PROVE  /\ conv' \in Book /\ Grows(conv, conv')
         /\ \E cv2 \in Conversations : Replaced(conv, conv', c, i, cv2) /\ Rewritten(conv[c][i], cv2, k, m)
<1> DEFINE cv == conv[c][i]
           cv2 == [cv EXCEPT !.msgs[k] = m]
<1>1. conv \in Book /\ cv \in Conversations
  BY OutreachState, BookFields
<1>2. conv' = [conv EXCEPT ![c] = [conv[c] EXCEPT ![i] = cv2]]
  BY DEF cv
<1> HIDE DEF cv
<1>3. cv2 \in Conversations /\ Rewritten(cv, cv2, k, m)
  <2>1. k \in DOMAIN cv.msgs
    BY DEF cv
  <2> QED
    BY <1>1, <2>1, MessagePut DEF Rewritten
<1> HIDE DEF cv2
<1>4. Replaced(conv, conv', c, i, cv2)
  <2>1. Replaced(conv, [conv EXCEPT ![c] = [conv[c] EXCEPT ![i] = cv2]], c, i, cv2)
    BY <1>1, <1>3, ConversationPut
  <2> QED
    BY <1>2, <2>1
<1>5. conv' \in Book
  BY <1>4 DEF Replaced
<1>6. \A j \in DOMAIN cv.msgs : j \in DOMAIN cv2.msgs /\ cv2.msgs[j].by = cv.msgs[j].by
  BY <1>3 DEF Rewritten, cv
<1>7. Grows(conv, conv')
  BY <1>1, <1>4, <1>5, <1>6, ReplacedGrows DEF cv
<1> QED
  BY <1>3, <1>4, <1>5, <1>7 DEF cv

(* HR edits a message.                                                     *)
LEMMA EditForm ==
  ASSUME OutreachInv, Edit
  PROVE  /\ UNCHANGED <<chat, level, review, imLock, task, lost, everOff>> /\ hrActed'
         /\ conv' \in Book /\ Grows(conv, conv')
         /\ \E c \in Candidates : \E i \in DOMAIN conv[c] : \E k \in Pending(conv[c][i]) :
            \E cv2 \in Conversations :
              /\ Replaced(conv, conv', c, i, cv2)
              /\ Rewritten(conv[c][i], cv2, k, [conv[c][i].msgs[k] EXCEPT !.st = "drafted"])
<1>1. UNCHANGED <<chat, level, review, imLock, task, lost, everOff>> /\ hrActed'
  BY DEF Edit
<1>2. PICK id \in ConvIds : \E k \in Pending(ConvOf(id)) :
        conv' = [conv EXCEPT ![id[1]][id[2]].msgs[k].st = "drafted"]
  BY DEF Edit
<1>3. PICK k \in Pending(ConvOf(id)) : conv' = [conv EXCEPT ![id[1]][id[2]].msgs[k].st = "drafted"]
  BY <1>2
<1> DEFINE c == id[1]
           i == id[2]
           m == [conv[c][i].msgs[k] EXCEPT !.st = "drafted"]
<1>4. c \in Candidates /\ i \in DOMAIN conv[c] /\ k \in Pending(conv[c][i])
  BY ConvIdIs DEF ConvOf
<1>5. conv' = [conv EXCEPT ![c][i].msgs[k] = m]
  BY <1>3
<1> HIDE DEF c, i
<1>6. k \in DOMAIN conv[c][i].msgs /\ conv[c][i].msgs[k] \in Messages
  BY <1>4, OutreachState, BookFields, ConversationFields DEF Pending, Outbound
<1>7. m \in Messages /\ m.by = conv[c][i].msgs[k].by
  BY <1>6 DEF Messages
<1> HIDE DEF m
<1>8. /\ conv' \in Book /\ Grows(conv, conv')
      /\ \E cv2 \in Conversations : Replaced(conv, conv', c, i, cv2) /\ Rewritten(conv[c][i], cv2, k, m)
  BY <1>4, <1>5, <1>6, <1>7, OneRewritten
<1> QED
  BY <1>1, <1>4, <1>8 DEF m

(* A message that has left once more, and who sent it.                     *)
Gone(m, kind) == [m EXCEPT !.out = m.out + 1, !.auto = m.auto \/ kind \in Automatic]

(* A message that has left is the same but for the count.                  *)
LEMMA GoneFields ==
  ASSUME NEW m \in Messages, NEW kind
  PROVE  /\ Gone(m, kind) \in Messages /\ Gone(m, kind).by = m.by /\ Gone(m, kind).st = m.st
         /\ Gone(m, kind).out = m.out + 1 /\ Gone(m, kind).free = m.free
         /\ (Gone(m, kind).auto <=> m.auto \/ kind \in Automatic)
<1> DEFINE more == m.out + 1
           auto == m.auto \/ kind \in Automatic
<1>1. more \in Nat /\ auto \in BOOLEAN
  BY DEF Messages
<1>2. Gone(m, kind) = [m EXCEPT !.out = more, !.auto = auto]
  BY DEF Gone
<1> HIDE DEF more, auto
<1>3. /\ Gone(m, kind) \in Messages /\ Gone(m, kind).by = m.by /\ Gone(m, kind).st = m.st
      /\ Gone(m, kind).out = more /\ Gone(m, kind).free = m.free /\ Gone(m, kind).auto = auto
  BY <1>1, <1>2 DEF Messages
<1> QED
  BY <1>3 DEF more, auto

DeliverFacts(t, tg, new) ==
  /\ Result(t, new) /\ SameTask(task[t], new) /\ new.pc = "send" /\ new.plan = <<>>
  /\ new.left = task[t].left \ {tg}
  /\ new.queue \in {task[t].queue, task[t].queue \union {tg}}
  /\ task[t].kind \notin ByMessage => new.queue = task[t].queue
  /\ \/ conv' = conv /\ new.oks = task[t].oks /\ lost' = lost
     \/ /\ new.oks = task[t].oks /\ lost'
        /\ \E cv2 \in Conversations :
             /\ Replaced(conv, conv', tg[1], tg[2], cv2)
             /\ Rewritten(conv[tg[1]][tg[2]], cv2, tg[3], Gone(conv[tg[1]][tg[2]].msgs[tg[3]], task[t].kind))
     \/ /\ new.oks = task[t].oks \union {tg} /\ lost' = lost
        /\ \E cv2 \in Conversations :
             /\ Replaced(conv, conv', tg[1], tg[2], cv2)
             /\ Rewritten(conv[tg[1]][tg[2]], cv2, tg[3], Gone(conv[tg[1]][tg[2]].msgs[tg[3]], task[t].kind))

(* A message leaves, or does not.                                          *)
LEMMA DeliverForm ==
  ASSUME OutreachInv, NEW t \in Tasks, Deliver(t)
  PROVE  /\ UNCHANGED <<chat, level, review, imLock, hrActed, everOff>> /\ lost' \in BOOLEAN
         /\ task[t].pc = "send" /\ conv' \in Book /\ Grows(conv, conv')
         /\ \E tg \in task[t].left : \E new : DeliverFacts(t, tg, new)
<1> DEFINE old == task[t]
<1>1. UNCHANGED <<chat, level, review, imLock, hrActed, everOff>> /\ old.pc = "send" /\ lost \in BOOLEAN
  BY DEF Deliver, OutreachInv, TypeOK
<1>2. /\ old \in TaskRecords /\ TaskFits(old) /\ TaskValid(conv, old) /\ conv \in Book
      /\ Grows(conv, conv) /\ task \in [Tasks -> TaskRecords]
  BY OutreachState
<1>3. PICK tg \in old.left : \E outcome \in {"ok", "failed", "unseen"} :
        LET m == conv[tg[1]][tg[2]].msgs[tg[3]]
            gone == [m EXCEPT !.out = @ + 1, !.auto = @ \/ task[t].kind \in Automatic]
        IN /\ conv' = IF outcome = "failed" THEN conv
                      ELSE [conv EXCEPT ![tg[1]][tg[2]].msgs[tg[3]] = gone]
           /\ task' = [task EXCEPT ![t].left = @ \ {tg},
                         ![t].oks = IF outcome = "ok" THEN @ \union {tg} ELSE @,
                         ![t].queue = IF task[t].kind \in ByMessage /\ outcome # "ok"
                                        THEN @ \union {tg} ELSE @]
           /\ lost' = (lost \/ outcome = "unseen")
  BY DEF Deliver
<1> DEFINE c == tg[1]
           i == tg[2]
           k == tg[3]
           m == conv[c][i].msgs[k]
           gone == Gone(m, old.kind)
           left == old.left \ {tg}
<1>4. PICK outcome \in {"ok", "failed", "unseen"} :
         /\ conv' = IF outcome = "failed" THEN conv ELSE [conv EXCEPT ![c][i].msgs[k] = gone]
         /\ task' = [task EXCEPT ![t].left = left,
                         ![t].oks = IF outcome = "ok" THEN old.oks \union {tg} ELSE old.oks,
                         ![t].queue = IF old.kind \in ByMessage /\ outcome # "ok"
                                        THEN old.queue \union {tg} ELSE old.queue]
         /\ lost' = (lost \/ outcome = "unseen")
  BY <1>2, <1>3 DEF Gone, TaskRecords
<1> DEFINE oks == IF outcome = "ok" THEN old.oks \union {tg} ELSE old.oks
           queue == IF old.kind \in ByMessage /\ outcome # "ok" THEN old.queue \union {tg} ELSE old.queue
           new == [old EXCEPT !.left = left, !.oks = oks, !.queue = queue]
<1>5. /\ tg \in Targets /\ c \in Candidates /\ i \in DOMAIN conv[c] /\ k \in DOMAIN conv[c][i].msgs
      /\ Exists(conv, tg)
  BY <1>2, <1>3 DEF TaskRecords, TaskValid, Targets, Exists
<1>6. m \in Messages
  BY <1>2, <1>5, BookFields, ConversationFields
<1>7. /\ left \in SUBSET Targets /\ oks \in SUBSET Targets /\ queue \in SUBSET Queued
      /\ \A x \in left \union oks : Exists(conv, x)
      /\ old.kind \in ByMessage => queue \subseteq Targets
      /\ old.kind \notin ByMessage => queue = old.queue
      /\ queue \in {old.queue, old.queue \union {tg}}
  BY <1>2, <1>5 DEF TaskRecords, TaskFits, TaskValid, Queued
<1>8. /\ conv' \in Book /\ Grows(conv, conv')
      /\ outcome = "failed" \/ \E cv2 \in Conversations :
             Replaced(conv, conv', c, i, cv2) /\ Rewritten(conv[c][i], cv2, k, gone)
  <2>1. gone \in Messages /\ gone.by = m.by
    BY <1>6, GoneFields
  <2>2. CASE outcome = "failed"
    BY <1>2, <1>4, <2>2
  <2>3. CASE outcome # "failed"
    <3>1. conv' = [conv EXCEPT ![c][i].msgs[k] = gone]
      BY <1>4, <2>3
    <3> HIDE DEF c, i, k, gone
    <3> QED
      BY <1>5, <2>1, <3>1, OneRewritten DEF m
  <2> QED
    BY <2>2, <2>3
<1>9. Becomes(t, new)
  <2>1. task' = [task EXCEPT ![t].left = left, ![t].oks = oks, ![t].queue = queue]
    BY <1>4
  <2> HIDE DEF left, oks, queue
  <2> QED
    BY <1>2, <2>1 DEF Becomes, TaskRecords
<1>10. old.plan = <<>>
  BY <1>1, <1>2 DEF TaskFits
<1>11. Result(t, new) /\ SameTask(old, new) /\ new.pc = "send" /\ new.plan = <<>> /\ new.left = left
       /\ new.oks = oks /\ new.queue = queue
  <2> HIDE DEF old, left, oks, queue
  <2>1. /\ new \in TaskRecords /\ new.kind = old.kind /\ new.pc = old.pc /\ new.plan = old.plan
        /\ new.left = left /\ new.oks = oks /\ new.items = old.items /\ new.queue = queue
        /\ new.review = old.review
    BY <1>2, <1>7 DEF TaskRecords
  <2> HIDE DEF new
  <2>2. TaskFits(new)
    BY <1>1, <1>2, <1>7, <1>10, <2>1 DEF TaskFits, Senders, Automatic, ByMessage
  <2>3. TaskValid(conv, new)
    BY <1>2, <1>7, <1>10, <2>1 DEF TaskValid
  <2>4. TaskValid(conv', new)
    BY <1>2, <1>8, <2>1, <2>2, <2>3, ValidStays
  <2> QED
    BY <1>1, <1>9, <1>10, <2>1, <2>2, <2>4 DEF Result, SameTask
<1> HIDE DEF new
<1>12. DeliverFacts(t, tg, new)
  <2>1. \/ conv' = conv /\ oks = old.oks /\ lost' = lost
        \/ outcome = "unseen" /\ oks = old.oks /\ lost'
        \/ outcome = "ok" /\ oks = old.oks \union {tg} /\ lost' = lost
    BY <1>1, <1>4
  <2> QED
    BY <1>7, <1>8, <1>11, <2>1 DEF DeliverFacts
<1> QED
  BY <1>1, <1>3, <1>4, <1>8, <1>12

(* A conversation more.                                                    *)
Added(cs, cs2, c, cv) ==
  /\ cs2 \in Book
  /\ \A d \in Candidates : DOMAIN cs2[d] = DOMAIN cs[d] \union (IF d = c THEN {Len(cs[c]) + 1} ELSE {})
  /\ \A d \in Candidates : \A j \in DOMAIN cs[d] : cs2[d][j] = cs[d][j]
  /\ cs2[c][Len(cs[c]) + 1] = cv

(* A candidate with a conversation more.                                   *)
LEMMA ConversationAdd ==
  ASSUME NEW cs \in Book, NEW c \in Candidates, NEW cv \in Conversations
  PROVE  Added(cs, [cs EXCEPT ![c] = Append(cs[c], cv)], c, cv)
<1> DEFINE mine == Append(cs[c], cv)
<1>1. /\ mine \in Seq(Conversations) /\ DOMAIN mine = DOMAIN cs[c] \union {Len(cs[c]) + 1}
      /\ \A j \in DOMAIN cs[c] : mine[j] = cs[c][j]
      /\ mine[Len(cs[c]) + 1] = cv
  BY BookFields
<1> HIDE DEF mine
<1>2. [cs EXCEPT ![c] = mine] \in Book
  BY <1>1 DEF Book
<1>3. \A d \in Candidates : [cs EXCEPT ![c] = mine][d] = IF d = c THEN mine ELSE cs[d]
  BY DEF Book
<1> QED
  BY <1>1, <1>2, <1>3 DEF Added, mine

(* What a draft is.                                                        *)
LEMMA DraftFields ==
  ASSUME NEW d, NEW to \in Nat, NEW free \in BOOLEAN
  PROVE  /\ Draft(d, to, free) \in Messages /\ Draft(d, to, free).st = "drafted"
         /\ Draft(d, to, free).by = (IF d = "answer" THEN "dialogue" ELSE "outreach")
         /\ Draft(d, to, free).out = 0 /\ Draft(d, to, free).auto = FALSE
  BY DEF Draft, Messages

(* A conversation with a draft: replaced in place, or added.               *)
LEMMA WithDraftIs ==
  ASSUME NEW cv \in Conversations, NEW d, NEW to \in Nat, NEW free \in BOOLEAN
  PROVE  /\ WithDraft(cv, d, to, free) \in Conversations
         /\ WithDraft(cv, d, to, free).msgs = Append(cv.msgs, Draft(d, to, free))
<1> DEFINE ms == Append(cv.msgs, Draft(d, to, free))
           st == CASE d # "answer" -> "MESSAGE_DRAFTED"
                   [] d = "answer" /\ free -> "DRAFT_READY"
                   [] OTHER -> "NEEDS_HR"
<1>1. ms \in Seq(Messages)
  BY DraftFields, MessageAdd
<1>2. st \in {"MESSAGE_DRAFTED", "DRAFT_READY", "NEEDS_HR"}
  OBVIOUS
<1>3. WithDraft(cv, d, to, free) = [cv EXCEPT !.msgs = ms, !.st = st]
  BY DEF WithDraft
<1> HIDE DEF ms, st
<1>4. WithDraft(cv, d, to, free) \in Conversations /\ WithDraft(cv, d, to, free).msgs = ms
  BY <1>1, <1>2, <1>3 DEF Conversations
<1> QED
  BY <1>4 DEF ms

(* A new conversation with its first draft.                                *)
LEMMA NewIsConversation ==
  ASSUME NEW d
  PROVE  NewConversation(d) \in Conversations /\ NewConversation(d).msgs = <<>>
<1>1. <<>> \in Seq(Messages)
  OBVIOUS
<1> QED
  BY <1>1 DEF NewConversation, Conversations

(* The draft is added, or the agent found that none is called for.         *)
SaveFacts(t, new, c, i, d, k) ==
  /\ Result(t, new) /\ SameTask(task[t], new) /\ new.queue = task[t].queue /\ new.oks = task[t].oks
  /\ new.pc = "prep" /\ new.plan = <<>>
  /\ \/ /\ d = "answer" /\ i \in DOMAIN conv[c] /\ new.left = task[t].left
        /\ \E cv2 \in Conversations : Replaced(conv, conv', c, i, cv2) /\ cv2.msgs = conv[c][i].msgs
     \/ \E free \in BOOLEAN, cv2 \in Conversations :
          /\ i \in DOMAIN conv[c] /\ Replaced(conv, conv', c, i, cv2)
          /\ cv2.msgs = Append(conv[c][i].msgs, Draft(d, k, free))
          /\ new.left = IF Sends(task[t], free)
                          THEN task[t].left \union {<<c, i, Len(conv[c][i].msgs) + 1>>} ELSE task[t].left
     \/ \E free \in BOOLEAN, cv2 \in Conversations :
          /\ i = 0 /\ d # "answer" /\ Added(conv, conv', c, cv2)
          /\ cv2.msgs = <<Draft(d, k, free)>>
          /\ new.left = IF Sends(task[t], free)
                          THEN task[t].left \union {<<c, Len(conv[c]) + 1, 1>>} ELSE task[t].left

(* A draft is saved as its plan says.                                      *)
LEMMA SaveForm ==
  ASSUME OutreachInv, NEW t \in Tasks, Save(t)
  PROVE  /\ UNCHANGED <<chat, level, review, imLock, hist>> /\ task[t].pc = "prep"
         /\ conv' \in Book /\ Grows(conv, conv')
         /\ \E c \in Candidates, i \in Nat, d \in Decisions \union {"answer"}, k \in Nat :
              /\ task[t].plan = <<c, i, d, k>> /\ (d = "answer" <=> task[t].kind \in Answers)
              /\ \E new : SaveFacts(t, new, c, i, d, k)
<1> DEFINE old == task[t]
           c == old.plan[1]
           i == old.plan[2]
           d == old.plan[3]
           k == old.plan[4]
<1>1. UNCHANGED <<chat, level, review, imLock, hist>> /\ old.plan # <<>>
  BY DEF Save
<1>2. /\ old \in TaskRecords /\ TaskFits(old) /\ TaskValid(conv, old) /\ conv \in Book
      /\ Grows(conv, conv) /\ task \in [Tasks -> TaskRecords]
  BY OutreachState
<1>3. /\ old.plan \in Candidates \X Nat \X (Decisions \union {"answer"}) \X Nat
      /\ old.plan = <<c, i, d, k>> /\ old.pc = "prep" /\ (d = "answer" <=> old.kind \in Answers)
      /\ i \in 0..Len(conv[c]) /\ (d = "answer" => i # 0)
      /\ old.oks = {} /\ old.kind \in Drafters /\ <<>> \in Plans
  BY <1>1, <1>2 DEF TaskRecords, Plans, TaskFits, TaskValid
<1>4. /\ c \in Candidates /\ i \in Nat /\ d \in Decisions \union {"answer"} /\ k \in Nat
      /\ conv[c] \in Seq(Conversations) /\ Len(conv[c]) \in Nat /\ DOMAIN conv[c] = 1..Len(conv[c])
      /\ (i # 0 => i \in DOMAIN conv[c])
  <2>1. c \in Candidates /\ i \in Nat /\ d \in Decisions \union {"answer"} /\ k \in Nat
    BY <1>3
  <2>2. conv[c] \in Seq(Conversations) /\ Len(conv[c]) \in Nat /\ DOMAIN conv[c] = 1..Len(conv[c])
    BY <1>2, <2>1, BookFields
  <2> HIDE DEF c, i, d, k
  <2> QED
    BY <1>3, <2>1, <2>2
(* What becomes of the task, once the conversations are known.             *)
<1>5. ASSUME conv' \in Book, Grows(conv, conv'), NEW left \in SUBSET Targets,
             \A tg \in left : Exists(conv', tg), old.kind = "draft" => left = old.left,
             Becomes(t, [old EXCEPT !.plan = <<>>, !.left = left])
      PROVE  \E new : /\ Result(t, new) /\ SameTask(old, new) /\ new.queue = old.queue /\ new.oks = old.oks
                      /\ new.pc = "prep" /\ new.plan = <<>> /\ new.left = left
  <2> DEFINE new == [old EXCEPT !.plan = <<>>, !.left = left]
  <2>1. Becomes(t, new)
    BY <1>5
  <2> HIDE DEF old, c, i, d, k
  <2>2. /\ new \in TaskRecords /\ new.kind = old.kind /\ new.pc = old.pc /\ new.plan = <<>>
        /\ new.left = left /\ new.oks = old.oks /\ new.items = old.items /\ new.queue = old.queue
        /\ new.review = old.review
    BY <1>2, <1>3, <1>5 DEF TaskRecords
  <2> HIDE DEF new
  <2>3. TaskFits(new)
    BY <1>2, <1>3, <1>5, <2>2 DEF TaskFits
  <2>4. \A it \in new.items : new.kind \in Answers => it[1][2] \in DOMAIN conv'[it[1][1]]
    BY <1>2, <1>5, <2>2, ValidStays DEF TaskValid
  <2>5. TaskValid(conv', new)
    BY <1>3, <1>5, <2>2, <2>4 DEF TaskValid
  <2> QED
    BY <1>3, <2>1, <2>2, <2>3, <2>5 DEF Result, SameTask
<1>6. CASE d = "answer" /\ conv' = [conv EXCEPT ![c][i].st = "REPLY_RECEIVED"]
           /\ task' = [task EXCEPT ![t].plan = <<>>]
  <2> DEFINE cv == conv[c][i]
             cv2 == [cv EXCEPT !.st = "REPLY_RECEIVED"]
  <2>1. i \in DOMAIN conv[c] /\ cv \in Conversations
    BY <1>2, <1>3, <1>4, <1>6, BookFields
  <2>2. conv' = [conv EXCEPT ![c] = [conv[c] EXCEPT ![i] = cv2]]
    BY <1>6
  <2> HIDE DEF old, c, i, d, k, cv
  <2>3. cv2 \in Conversations /\ cv2.msgs = cv.msgs
    BY <2>1 DEF Conversations
  <2> HIDE DEF cv2
  <2>4. Replaced(conv, conv', c, i, cv2)
    <3>1. Replaced(conv, [conv EXCEPT ![c] = [conv[c] EXCEPT ![i] = cv2]], c, i, cv2)
      BY <1>2, <1>4, <2>1, <2>3, ConversationPut
    <3> QED
      BY <2>2, <3>1
  <2>5. conv' \in Book /\ Grows(conv, conv')
    <3>1. conv' \in Book
      BY <2>4 DEF Replaced
    <3> QED
      BY <1>2, <1>4, <2>1, <2>3, <2>4, <3>1, ReplacedGrows DEF cv
  <2>6. Becomes(t, [old EXCEPT !.plan = <<>>, !.left = old.left])
    BY <1>2, <1>6 DEF Becomes, old, TaskRecords
  <2>7. old.left \in SUBSET Targets /\ \A tg \in old.left : Exists(conv', tg)
    BY <1>2, <2>5, ValidStays DEF TaskRecords, TaskValid
  <2>8. PICK new : /\ Result(t, new) /\ SameTask(old, new) /\ new.queue = old.queue /\ new.oks = old.oks
                   /\ new.pc = "prep" /\ new.plan = <<>> /\ new.left = old.left
    BY <1>5, <2>5, <2>6, <2>7
  <2>9. SaveFacts(t, new, c, i, d, k)
    BY <1>6, <2>1, <2>3, <2>4, <2>8 DEF SaveFacts, old, cv
  <2> QED
    BY <1>1, <1>3, <1>4, <2>5, <2>9 DEF old
<1>7. ASSUME NEW free \in BOOLEAN, i # 0,
             conv' = [conv EXCEPT ![c] = [conv[c] EXCEPT ![i] = WithDraft(conv[c][i], d, k, free)]],
             task' = [task EXCEPT ![t].plan = <<>>,
                        ![t].left = IF Sends(old, free)
                                      THEN old.left \union {<<c, i, Len(conv[c][i].msgs) + 1>>} ELSE old.left]
      PROVE  conv' \in Book /\ Grows(conv, conv') /\ \E new : SaveFacts(t, new, c, i, d, k)
  <2> DEFINE cv == conv[c][i]
             cv2 == WithDraft(cv, d, k, free)
             tg == <<c, i, Len(cv.msgs) + 1>>
             left == IF Sends(old, free) THEN old.left \union {tg} ELSE old.left
  <2>1. i \in DOMAIN conv[c] /\ cv \in Conversations
    BY <1>2, <1>4, <1>7, BookFields
  <2>2. cv2 \in Conversations /\ cv2.msgs = Append(cv.msgs, Draft(d, k, free))
    BY <1>4, <2>1, WithDraftIs
  <2>3. conv' = [conv EXCEPT ![c] = [conv[c] EXCEPT ![i] = cv2]]
    BY <1>7
  <2>31. task' = [task EXCEPT ![t].plan = <<>>, ![t].left = left]
    BY <1>7
  <2>32. old.kind = "draft" => left = old.left
    BY DEF Sends
  <2> HIDE DEF old, c, i, d, k, cv, cv2
  <2>4. Replaced(conv, conv', c, i, cv2)
    <3>1. Replaced(conv, [conv EXCEPT ![c] = [conv[c] EXCEPT ![i] = cv2]], c, i, cv2)
      BY <1>2, <1>4, <2>1, <2>2, ConversationPut
    <3> QED
      BY <2>3, <3>1
  <2>5. /\ DOMAIN cv2.msgs = DOMAIN cv.msgs \union {Len(cv.msgs) + 1} /\ Len(cv.msgs) \in Nat
        /\ \A j \in DOMAIN cv.msgs : cv2.msgs[j] = cv.msgs[j]
    BY <1>4, <2>1, <2>2, MessageAdd, DraftFields, ConversationFields
  <2>6. conv' \in Book /\ Grows(conv, conv')
    <3>1. conv' \in Book
      BY <2>4 DEF Replaced
    <3> QED
      BY <1>2, <1>4, <2>1, <2>4, <2>5, <3>1, ReplacedGrows DEF cv
  <2>7. tg \in Targets /\ Exists(conv', tg)
    <3>1. conv'[c][i] = cv2 /\ i \in DOMAIN conv'[c]
      BY <1>4, <2>1, <2>4 DEF Replaced
    <3> QED
      BY <1>4, <2>5, <3>1 DEF Targets, Exists
  <2> HIDE DEF tg
  <2>8. old.left \in SUBSET Targets /\ \A x \in old.left : Exists(conv', x)
    BY <1>2, <2>6, ValidStays DEF TaskRecords, TaskValid
  <2>9. left \in SUBSET Targets /\ \A x \in left : Exists(conv', x)
    BY <2>7, <2>8
  <2> HIDE DEF left
  <2>10. Becomes(t, [old EXCEPT !.plan = <<>>, !.left = left])
    BY <1>2, <2>31 DEF Becomes, old, TaskRecords
  <2>11. PICK new : /\ Result(t, new) /\ SameTask(old, new) /\ new.queue = old.queue /\ new.oks = old.oks
                   /\ new.pc = "prep" /\ new.plan = <<>> /\ new.left = left
    BY <1>5, <2>32, <2>6, <2>9, <2>10
  <2>12. SaveFacts(t, new, c, i, d, k)
    BY <2>1, <2>2, <2>4, <2>11 DEF SaveFacts, old, cv, left, tg
  <2> QED
    BY <2>6, <2>12
<1>8. ASSUME NEW free \in BOOLEAN, i = 0,
             conv' = [conv EXCEPT ![c] = Append(conv[c], WithDraft(NewConversation(d), d, k, free))],
             task' = [task EXCEPT ![t].plan = <<>>,
                        ![t].left = IF Sends(old, free)
                                      THEN old.left \union {<<c, Len(conv[c]) + 1, 1>>} ELSE old.left]
      PROVE  conv' \in Book /\ Grows(conv, conv') /\ \E new : SaveFacts(t, new, c, i, d, k)
  <2> DEFINE cv2 == WithDraft(NewConversation(d), d, k, free)
             tg == <<c, Len(conv[c]) + 1, 1>>
             left == IF Sends(old, free) THEN old.left \union {tg} ELSE old.left
  <2>1. cv2 \in Conversations /\ cv2.msgs = <<Draft(d, k, free)>>
    BY <1>4, WithDraftIs, NewIsConversation
  <2>3. conv' = [conv EXCEPT ![c] = Append(conv[c], cv2)]
    BY <1>8
  <2>31. task' = [task EXCEPT ![t].plan = <<>>, ![t].left = left]
    BY <1>8
  <2>32. old.kind = "draft" => left = old.left
    BY DEF Sends
  <2> HIDE DEF old, c, i, d, k, cv2
  <2>4. Added(conv, conv', c, cv2)
    <3>1. Added(conv, [conv EXCEPT ![c] = Append(conv[c], cv2)], c, cv2)
      BY <1>2, <1>4, <2>1, ConversationAdd
    <3> QED
      BY <2>3, <3>1
  <2>6. conv' \in Book /\ Grows(conv, conv')
    BY <2>4 DEF Added, Grows
  <2>7. tg \in Targets /\ Exists(conv', tg)
    <3> DEFINE n == Len(conv[c]) + 1
    <3>1. conv'[c][n] = cv2 /\ n \in DOMAIN conv'[c] /\ n \in Nat
      BY <1>4, <2>4 DEF Added
    <3>2. 1 \in DOMAIN cv2.msgs
      BY <2>1
    <3> HIDE DEF n
    <3>3. <<c, n, 1>> \in Targets /\ Exists(conv', <<c, n, 1>>)
      BY <1>4, <3>1, <3>2 DEF Targets, Exists
    <3> QED
      BY <3>3 DEF n
  <2> HIDE DEF tg
  <2>8. old.left \in SUBSET Targets /\ \A x \in old.left : Exists(conv', x)
    BY <1>2, <2>6, ValidStays DEF TaskRecords, TaskValid
  <2>9. left \in SUBSET Targets /\ \A x \in left : Exists(conv', x)
    BY <2>7, <2>8
  <2> HIDE DEF left
  <2>10. Becomes(t, [old EXCEPT !.plan = <<>>, !.left = left])
    BY <1>2, <2>31 DEF Becomes, old, TaskRecords
  <2>11. PICK new : /\ Result(t, new) /\ SameTask(old, new) /\ new.queue = old.queue /\ new.oks = old.oks
                   /\ new.pc = "prep" /\ new.plan = <<>> /\ new.left = left
    BY <1>5, <2>32, <2>6, <2>9, <2>10
  <2>12. SaveFacts(t, new, c, i, d, k)
    BY <1>3, <1>8, <2>1, <2>4, <2>11 DEF SaveFacts, old, left, tg
  <2> QED
    BY <2>6, <2>12
<1>9. \/ d = "answer" /\ conv' = [conv EXCEPT ![c][i].st = "REPLY_RECEIVED"]
           /\ task' = [task EXCEPT ![t].plan = <<>>]
      \/ \E free \in BOOLEAN :
           /\ conv' = [conv EXCEPT ![c] =
                IF i = 0 THEN Append(conv[c], WithDraft(NewConversation(d), d, k, free))
                         ELSE [conv[c] EXCEPT ![i] = WithDraft(conv[c][i], d, k, free)]]
           /\ task' = [task EXCEPT ![t].plan = <<>>,
                 ![t].left = IF Sends(old, free)
                   THEN old.left \union {<<c, IF i = 0 THEN Len(conv[c]) + 1 ELSE i,
                                           Len((IF i = 0 THEN NewConversation(d) ELSE conv[c][i]).msgs) + 1>>}
                   ELSE old.left]
  BY <1>2 DEF Save, TaskRecords
<1>10. ASSUME NEW free \in BOOLEAN,
           conv' = [conv EXCEPT ![c] =
                IF i = 0 THEN Append(conv[c], WithDraft(NewConversation(d), d, k, free))
                         ELSE [conv[c] EXCEPT ![i] = WithDraft(conv[c][i], d, k, free)]],
           task' = [task EXCEPT ![t].plan = <<>>,
                 ![t].left = IF Sends(old, free)
                   THEN old.left \union {<<c, IF i = 0 THEN Len(conv[c]) + 1 ELSE i,
                                           Len((IF i = 0 THEN NewConversation(d) ELSE conv[c][i]).msgs) + 1>>}
                   ELSE old.left]
       PROVE  conv' \in Book /\ Grows(conv, conv') /\ \E new : SaveFacts(t, new, c, i, d, k)
  <2>1. CASE i = 0
    <3>1. Len(NewConversation(d).msgs) + 1 = 1
      BY NewIsConversation
    <3> HIDE DEF old, c, i, d, k
    <3> QED
      BY <1>8, <1>10, <2>1, <3>1
  <2>2. CASE i # 0
    <3> HIDE DEF old, c, i, d, k
    <3> QED
      BY <1>7, <1>10, <2>2
  <2> QED
    BY <2>1, <2>2
<1> QED
  BY <1>1, <1>3, <1>4, <1>6, <1>9, <1>10

(* The same messages, but for their status.                                *)
Relabelled(cv, cv2) ==
  /\ cv2 \in Conversations /\ DOMAIN cv2.msgs = DOMAIN cv.msgs
  /\ \A j \in DOMAIN cv.msgs :
       /\ cv2.msgs[j].by = cv.msgs[j].by /\ cv2.msgs[j].out = cv.msgs[j].out
       /\ cv2.msgs[j].auto = cv.msgs[j].auto /\ cv2.msgs[j].free = cv.msgs[j].free

(* Messages that are recorded as sent are the same otherwise.              *)
LEMMA RecordedIs ==
  ASSUME NEW cv \in Conversations
  PROVE  /\ Relabelled(cv, Recorded(cv))
         /\ \A j \in DOMAIN cv.msgs : Recorded(cv).msgs[j].st =
              IF Drafted(cv) # {} /\ j = Latest(Drafted(cv)) THEN "sent" ELSE cv.msgs[j].st
<1> DEFINE waiting == [cv EXCEPT !.st = "WAITING_REPLY"]
<1>1. waiting \in Conversations /\ waiting.msgs = cv.msgs
  BY DEF Conversations
<1>2. CASE Drafted(cv) = {}
  <2>1. Recorded(cv) = waiting
    BY <1>2 DEF Recorded
  <2> QED
    BY <1>1, <1>2, <2>1 DEF Relabelled
<1>3. CASE Drafted(cv) # {}
  <2> DEFINE k == Latest(Drafted(cv))
             m == [cv.msgs[k] EXCEPT !.st = "sent"]
             ms == [cv.msgs EXCEPT ![k] = m]
             cv2 == [waiting EXCEPT !.msgs = ms]
  <2>1. k \in DOMAIN cv.msgs
    <3>1. Drafted(cv) \in SUBSET (1..Len(cv.msgs)) /\ Len(cv.msgs) \in Nat
      BY ConversationFields
    <3>2. k \in Drafted(cv)
      BY <1>3, <3>1, LatestIsLast
    <3> QED
      BY <3>2 DEF Drafted, Outbound
  <2>2. Recorded(cv) = [cv EXCEPT !.st = "WAITING_REPLY", !.msgs = ms]
    BY <1>3 DEF Recorded
  <2> HIDE DEF k
  <2>3. cv.msgs[k] \in Messages
    BY <2>1, ConversationFields
  <2>4. /\ m \in Messages /\ m.st = "sent" /\ m.by = cv.msgs[k].by /\ m.out = cv.msgs[k].out
        /\ m.auto = cv.msgs[k].auto /\ m.free = cv.msgs[k].free
    BY <2>3 DEF Messages
  <2> HIDE DEF m
  <2>5. /\ ms \in Seq(Messages) /\ DOMAIN ms = DOMAIN cv.msgs
        /\ \A j \in DOMAIN cv.msgs : ms[j] = IF j = k THEN m ELSE cv.msgs[j]
    BY <2>1, <2>4, ConversationFields
  <2> HIDE DEF ms
  <2>6. Recorded(cv) \in Conversations /\ Recorded(cv).msgs = ms
    BY <2>2, <2>5 DEF Conversations
  <2> QED
    BY <1>3, <2>4, <2>5, <2>6 DEF Relabelled, k
<1> QED
  BY <1>2, <1>3

OksOf(t, id, cv)  == {k \in DOMAIN cv.msgs : <<id[1], id[2], k>> \in task[t].oks}
BadOf(t, id, cv)  == {k \in DOMAIN cv.msgs : <<id[1], id[2], k>> \in task[t].queue}

(* So are those that are recorded one by one.                              *)
LEMMA RecordedByIdIs ==
  ASSUME NEW cv \in Conversations, NEW t, NEW id
  PROVE  LET cv2 == RecordedById(t, id, cv)
         IN /\ Relabelled(cv, cv2)
            /\ \A j \in DOMAIN cv.msgs : cv2.msgs[j].st =
                 IF j \in OksOf(t, id, cv) THEN "sent"
                 ELSE IF j \in BadOf(t, id, cv) THEN "failed" ELSE cv.msgs[j].st
<1> DEFINE ok == OksOf(t, id, cv)
           bad == BadOf(t, id, cv)
           label(j) == IF j \in ok THEN "sent" ELSE IF j \in bad THEN "failed" ELSE cv.msgs[j].st
           m(j) == [cv.msgs[j] EXCEPT !.st = label(j)]
           ms == [j \in DOMAIN cv.msgs |-> m(j)]
           st == CASE ok # {} -> "WAITING_REPLY"
                   [] ok = {} /\ task[t].kind = "dialogue" -> "DRAFT_READY"
                   [] OTHER -> cv.st
<1>1. RecordedById(t, id, cv) = [cv EXCEPT !.st = st, !.msgs = ms]
  BY DEF RecordedById, OksOf, BadOf
<1>2. st \in {"MESSAGE_DRAFTED", "WAITING_REPLY", "REPLY_RECEIVED", "DRAFT_READY", "NEEDS_HR"}
  BY DEF Conversations
<1> HIDE DEF ok, bad, st
<1>3. ASSUME NEW j \in DOMAIN cv.msgs
      PROVE  /\ m(j) \in Messages /\ m(j).st = label(j) /\ m(j).by = cv.msgs[j].by /\ m(j).out = cv.msgs[j].out
             /\ m(j).auto = cv.msgs[j].auto /\ m(j).free = cv.msgs[j].free
  <2>1. cv.msgs[j] \in Messages
    BY ConversationFields
  <2>2. label(j) \in {"drafted", "sent", "failed", "received"}
    BY <2>1 DEF Messages
  <2> HIDE DEF label
  <2> QED
    BY <2>1, <2>2 DEF Messages
<1> HIDE DEF m
<1>4. ms \in Seq(Messages) /\ DOMAIN ms = DOMAIN cv.msgs /\ \A j \in DOMAIN cv.msgs : ms[j] = m(j)
  <2>1. DOMAIN cv.msgs = 1..Len(cv.msgs) /\ Len(cv.msgs) \in Nat
    BY ConversationFields
  <2> QED
    BY <1>3, <2>1
<1> HIDE DEF ms
<1>5. RecordedById(t, id, cv) \in Conversations /\ RecordedById(t, id, cv).msgs = ms
  BY <1>1, <1>2, <1>4 DEF Conversations
<1> HIDE DEF label
<1>6. \A j \in DOMAIN cv.msgs : ms[j].st = label(j)
  BY <1>3, <1>4
<1> QED
  BY <1>3, <1>4, <1>5, <1>6 DEF Relabelled, label, ok, bad

(* What a task marks is what it has sent, or found that it had not.        *)
Marks(t, c, i) == IF task[t].kind \in ByMessage THEN RecordedById(t, <<c, i>>, conv[c][i])
                  ELSE Recorded(conv[c][i])

(* A sender records what it saw leave.                                     *)
LEMMA MarkForm ==
  ASSUME OutreachInv, NEW t \in Tasks, Mark(t)
  PROVE  /\ UNCHANGED <<chat, level, review, hist>> /\ task[t].pc = "send" /\ task[t].left = {}
         /\ Frees(t) /\ imLock' # t
         /\ \E new : Result(t, new) /\ Rests(new) /\ (new = Idle \/ Ended(new))
         /\ conv' \in Book /\ Grows(conv, conv')
         /\ \A c \in Candidates : DOMAIN conv'[c] = DOMAIN conv[c]
         /\ \A c \in Candidates : \A i \in DOMAIN conv[c] :
              conv'[c][i] = IF <<c, i>> \in Touched(t) THEN Marks(t, c, i) ELSE conv[c][i]
<1>1. /\ UNCHANGED <<chat, level, review, hist>> /\ task[t].pc = "send" /\ task[t].left = {} /\ Finish(t)
      /\ conv' = [c \in Candidates |->
           [i \in DOMAIN conv[c] |-> IF <<c, i>> \in Touched(t) THEN Marks(t, c, i) ELSE conv[c][i]]]
  BY DEF Mark, Marks, Changed
<1>2. conv \in Book /\ task[t] \in TaskRecords /\ TaskFits(task[t])
  BY OutreachState
<1>3. ASSUME NEW c \in Candidates, NEW i \in DOMAIN conv[c]
      PROVE  Relabelled(conv[c][i], Marks(t, c, i)) /\ Relabelled(conv[c][i], conv[c][i])
  <2>1. conv[c][i] \in Conversations
    BY <1>2, BookFields
  <2> QED
    BY <2>1, RecordedIs, RecordedByIdIs DEF Marks, Relabelled
<1> DEFINE at(c, i) == IF <<c, i>> \in Touched(t) THEN Marks(t, c, i) ELSE conv[c][i]
<1>4. ASSUME NEW c \in Candidates, NEW i \in DOMAIN conv[c] PROVE Relabelled(conv[c][i], at(c, i))
  BY <1>3
<1>5. conv' = [c \in Candidates |-> [i \in DOMAIN conv[c] |-> at(c, i)]]
  BY <1>1
<1> HIDE DEF at
<1>6. ASSUME NEW c \in Candidates
      PROVE  [i \in DOMAIN conv[c] |-> at(c, i)] \in Seq(Conversations)
  <2>1. DOMAIN conv[c] = 1..Len(conv[c]) /\ Len(conv[c]) \in Nat
    BY <1>2, BookFields
  <2>2. \A i \in DOMAIN conv[c] : at(c, i) \in Conversations
    BY <1>4 DEF Relabelled
  <2> QED
    BY <2>1, <2>2
<1>7. conv' \in Book
  BY <1>5, <1>6 DEF Book
<1>8. /\ \A c \in Candidates : DOMAIN conv'[c] = DOMAIN conv[c]
      /\ \A c \in Candidates : \A i \in DOMAIN conv[c] : conv'[c][i] = at(c, i)
  BY <1>5
<1>9. Grows(conv, conv')
  BY <1>4, <1>8 DEF Grows, Relabelled
<1>10. Frees(t) /\ imLock' # t /\ \E new : Result(t, new) /\ Rests(new) /\ (new = Idle \/ Ended(new))
  <2> DEFINE new == NextStage(task[t])
  <2>1. Frees(t) /\ imLock' # t /\ Result(t, new) /\ Rests(new)
    BY <1>1, <1>2, Continues, RestsValid, TasksAssumption DEF Finish, Release, Frees, Result, Becomes
  <2>2. new = Idle \/ Ended(new)
    BY <1>2, Continues DEF Ended
  <2> HIDE DEF new
  <2> QED
    BY <2>1, <2>2
<1> QED
  BY <1>1, <1>7, <1>8, <1>9, <1>10 DEF at

Reply == [by |-> "candidate", st |-> "received", to |-> 0, free |-> FALSE, out |-> 0, auto |-> FALSE]

(* Replies of the chat are stored.                                         *)
LEMMA StoreForm ==
  ASSUME OutreachInv, NEW t \in Tasks, Store(t)
  PROVE  /\ UNCHANGED <<chat, review, imLock, hist>> /\ task[t].pc = "store" /\ level' \in [Candidates -> Levels]
         /\ \E new : Result(t, new) /\ Rests(new) /\ (new = Idle \/ Ended(new))
         /\ conv' \in Book /\ Grows(conv, conv')
         /\ \A c \in Candidates : DOMAIN conv'[c] = DOMAIN conv[c]
         /\ \A c \in Candidates :
              conv'[c] = conv[c] \/ /\ 1 \in DOMAIN conv[c] /\ DOMAIN conv[c] = {1}
                                    /\ conv'[c][1].msgs = Append(conv[c][1].msgs, Reply)
<1>1. UNCHANGED <<chat, review, imLock, hist>> /\ task[t].pc = "store"
  BY DEF Store
<1>2. /\ conv \in Book /\ task[t] \in TaskRecords /\ TaskFits(task[t]) /\ level \in [Candidates -> Levels]
      /\ Reply \in Messages
  BY OutreachState DEF OutreachInv, TypeOK, Reply, Messages
<1>3. PICK read \in SUBSET ({it[1][1] : it \in task[t].items} \intersect Readable) :
     \E need \in [read -> BOOLEAN], lvl \in [read -> Levels] :
       /\ \A c \in read : ~Raises(c)
       /\ conv' = [c \in Candidates |->
                     IF c \in read
                       THEN <<[The(c) EXCEPT !.st = "REPLY_RECEIVED", !.need = need[c],
                                 !.msgs = Append(@, Reply)]>>
                       ELSE conv[c]]
       /\ level' = [c \in Candidates |-> IF c \in read THEN lvl[c] ELSE level[c]]
       /\ LET decided == {<<c, IF need[c] \/ lvl[c] = "observe" THEN "observe" ELSE "followup">> :
                            c \in {x \in read : need[x] \/ lvl[x] # "exclude"}}
          IN task' = [task EXCEPT ![t] = NextStage([@ EXCEPT !.queue = decided])]
  BY DEF Store, Reply
<1>4. PICK need \in [read -> BOOLEAN], lvl \in [read -> Levels] :
       /\ \A c \in read : ~Raises(c)
       /\ conv' = [c \in Candidates |->
                     IF c \in read
                       THEN <<[The(c) EXCEPT !.st = "REPLY_RECEIVED", !.need = need[c],
                                 !.msgs = Append(@, Reply)]>>
                       ELSE conv[c]]
       /\ level' = [c \in Candidates |-> IF c \in read THEN lvl[c] ELSE level[c]]
       /\ LET decided == {<<c, IF need[c] \/ lvl[c] = "observe" THEN "observe" ELSE "followup">> :
                            c \in {x \in read : need[x] \/ lvl[x] # "exclude"}}
          IN task' = [task EXCEPT ![t] = NextStage([@ EXCEPT !.queue = decided])]
  BY <1>3
<1>5. level' \in [Candidates -> Levels]
  BY <1>2, <1>4
<1> DEFINE more(c) == Append(The(c).msgs, Reply)
           cv2(c) == [The(c) EXCEPT !.st = "REPLY_RECEIVED", !.need = need[c], !.msgs = more(c)]
<1>6. ASSUME NEW c \in read
      PROVE  /\ c \in Candidates /\ Len(conv[c]) = 1 /\ DOMAIN conv[c] = {1} /\ The(c) = conv[c][1]
             /\ The(c) \in Conversations /\ cv2(c) \in Conversations /\ cv2(c).msgs = more(c)
  <2>1. c \in Candidates /\ \E i \in DOMAIN conv[c] : TRUE
    BY <1>3 DEF Readable
  <2>2. Len(conv[c]) \in Nat /\ DOMAIN conv[c] = 1..Len(conv[c])
    BY <1>2, <2>1, BookFields
  <2>3. Len(conv[c]) = 1
    <3>1. ~(Len(conv[c]) > 1)
      <4>1. ~Raises(c)
        BY <1>4, Zenon
      <4> QED
        BY <4>1 DEF Raises
    <3>2. Len(conv[c]) # 0
      BY <2>1, <2>2
    <3>3. \A n \in Nat : ~(n > 1) /\ n # 0 => n = 1
      OBVIOUS
    <3>4. Len(conv[c]) \in Nat
      BY <2>2, Zenon
    <3> QED
      BY <3>1, <3>2, <3>3, <3>4, Zenon
  <2>4. DOMAIN conv[c] = {1}
    BY <2>2, <2>3
  <2>5. The(c) \in Conversations /\ The(c) = conv[c][1]
    BY <1>2, <2>1, <2>4, BookFields DEF The
  <2>6. need[c] \in BOOLEAN /\ more(c) \in Seq(Messages)
    BY <1>2, <2>5, MessageAdd
  <2> HIDE DEF more
  <2>7. cv2(c) \in Conversations /\ cv2(c).msgs = more(c)
    BY <2>5, <2>6 DEF Conversations
  <2> QED
    BY <2>1, <2>3, <2>4, <2>5, <2>7
<1>7. conv' = [c \in Candidates |-> IF c \in read THEN <<cv2(c)>> ELSE conv[c]]
  BY <1>4
<1> HIDE DEF cv2
<1>8. conv' \in Book
  <2>1. \A c \in Candidates : (IF c \in read THEN <<cv2(c)>> ELSE conv[c]) \in Seq(Conversations)
    BY <1>2, <1>6 DEF Book
  <2> QED
    BY <1>7, <2>1 DEF Book
<1>9. ASSUME NEW c \in read
      PROVE  /\ DOMAIN conv'[c] = DOMAIN conv[c] /\ conv'[c][1] = cv2(c)
             /\ conv'[c][1].msgs = Append(conv[c][1].msgs, Reply)
             /\ \A k \in DOMAIN conv[c][1].msgs :
                  k \in DOMAIN conv'[c][1].msgs /\ conv'[c][1].msgs[k].by = conv[c][1].msgs[k].by
  <2>1. conv'[c] = <<cv2(c)>>
    BY <1>6, <1>7
  <2>2. DOMAIN conv'[c] = {1} /\ conv'[c][1] = cv2(c)
    BY <2>1
  <2>3. conv'[c][1].msgs = Append(conv[c][1].msgs, Reply)
    BY <1>6, <2>2
  <2> QED
    BY <1>2, <1>6, <2>2, <2>3, MessageAdd
<1>10. \A c \in Candidates : c \notin read => conv'[c] = conv[c]
  BY <1>7
<1>11. Grows(conv, conv')
  BY <1>6, <1>9, <1>10 DEF Grows
<1>12. \E new : Result(t, new) /\ Rests(new) /\ (new = Idle \/ Ended(new))
  <2> DEFINE decided == {<<c, IF need[c] \/ lvl[c] = "observe" THEN "observe" ELSE "followup">> :
                            c \in {x \in read : need[x] \/ lvl[x] # "exclude"}}
             old == [task[t] EXCEPT !.queue = decided]
             new == NextStage(old)
  <2>1. decided \in SUBSET Queued /\ decided \subseteq Candidates \X Decisions
    BY <1>6 DEF Queued, Decisions, Levels
  <2>2. Becomes(t, new)
    BY <1>4 DEF Becomes
  <2> HIDE DEF decided
  <2>3. /\ old \in TaskRecords /\ old.kind = task[t].kind /\ old.pc = task[t].pc /\ old.items = task[t].items
        /\ old.plan = task[t].plan /\ old.left = task[t].left /\ old.oks = task[t].oks /\ old.queue = decided
    BY <1>2, <2>1 DEF TaskRecords
  <2> HIDE DEF old
  <2>4. TaskFits(old)
    BY <1>1, <1>2, <2>1, <2>3 DEF TaskFits, ByMessage
  <2>5. new \in TaskRecords /\ Rests(new) /\ TaskFits(new) /\ (new = Idle \/ Ended(new))
    BY <2>3, <2>4, Continues DEF Ended
  <2>6. TaskValid(conv', new)
    BY <2>5, RestsValid
  <2> HIDE DEF new
  <2> QED
    BY <2>2, <2>5, <2>6 DEF Result
<1> QED
  BY <1>1, <1>5, <1>6, <1>8, <1>9, <1>10, <1>11, <1>12
-----------------------------------------------------------------------------
(* Types, and what tasks hold, in every state                              *)

(* The other tasks are as they were.                                       *)
LEMMA TaskBecomes ==
  ASSUME OutreachInv, NEW t \in Tasks, NEW new, Result(t, new)
  PROVE  /\ \A u \in Tasks : task'[u] = IF u = t THEN new ELSE task[u]
         /\ new \in TaskRecords /\ TaskFits(new) /\ TaskValid(conv', new)
  BY OutreachState DEF Result, Becomes

(* A step of one task that is of the right form keeps the invariant.       *)
LEMMA OutreachStays ==
  ASSUME OutreachInv, conv' \in Book, Grows(conv, conv'), NEW t \in Tasks, NEW new, Result(t, new),
         chat' \in [Candidates -> {"none", "new", "prior"}], level' \in [Candidates -> Levels],
         imLock' \in Tasks \union {nobody}, {review', hrActed', lost', everOff'} \subseteq BOOLEAN
  PROVE  OutreachInv'
<1>1. new \in TaskRecords /\ Becomes(t, new) /\ TaskFits(new) /\ TaskValid(conv', new)
  BY DEF Result
<1>2. task' \in [Tasks -> TaskRecords] /\ TasksInv'
  BY <1>1, OneTaskSteps
<1> QED
  BY <1>2 DEF OutreachInv, TypeOK, Book

(* What the invariant says of the other variables.                         *)
LEMMA OutreachTypes ==
  ASSUME OutreachInv
  PROVE  /\ chat \in [Candidates -> {"none", "new", "prior"}] /\ level \in [Candidates -> Levels]
         /\ imLock \in Tasks \union {nobody}
         /\ review \in BOOLEAN /\ hrActed \in BOOLEAN /\ lost \in BOOLEAN /\ everOff \in BOOLEAN
  BY DEF OutreachInv, TypeOK

(* Every step keeps the invariant.                                         *)
LEMMA OutreachSteps ==
  OutreachInv /\ [Next]_vars => OutreachInv'
<1> SUFFICES ASSUME OutreachInv, [Next]_vars
             PROVE  OutreachInv'
  OBVIOUS
<1>0. conv \in Book /\ Grows(conv, conv)
  BY OutreachState
<1> USE OutreachTypes
<1>1. ASSUME NEW t \in Tasks, Read(t)
      PROVE  OutreachInv'
  <2>1. PICK new : ReadFacts(t, new)
    BY <1>1, ReadForm
  <2>2. Result(t, new)
    BY <2>1 DEF ReadFacts
  <2>3. UNCHANGED <<conv, chat, level, review, hist>> /\ Frees(t)
    BY <1>1, ReadForm
  <2> QED
    BY <1>0, <2>2, <2>3, OutreachStays DEF Frees, hist
<1>2. ASSUME NEW t \in Tasks, Acquire(t)
      PROVE  OutreachInv'
  <2>1. PICK new : AcquireFacts(t, new)
    BY <1>2, AcquireForm
  <2>2. Result(t, new)
    BY <2>1 DEF AcquireFacts
  <2>3. UNCHANGED <<conv, chat, level, review, hist>> /\ imLock' = t
    BY <1>2, AcquireForm
  <2> QED
    BY <1>0, <2>2, <2>3, OutreachStays DEF hist
<1>3. ASSUME NEW t \in Tasks, Prepare(t)
      PROVE  OutreachInv'
  <2>1. PICK new : PrepareFacts(t, new)
    BY <1>3, PrepareForm
  <2>2. Result(t, new)
    BY <2>1 DEF PrepareFacts
  <2>3. UNCHANGED <<conv, chat, level, review, imLock, hist>>
    BY <1>3, PrepareForm
  <2> QED
    BY <1>0, <2>2, <2>3, OutreachStays DEF hist
<1>4. ASSUME NEW t \in Tasks, Save(t)
      PROVE  OutreachInv'
  <2>0. PICK c \in Candidates, i \in Nat, d \in Decisions \union {"answer"}, k \in Nat :
               \E new : SaveFacts(t, new, c, i, d, k)
    BY <1>4, SaveForm
  <2>1. \E new : Result(t, new)
    BY <2>0 DEF SaveFacts
  <2>2. UNCHANGED <<chat, level, review, imLock, hist>> /\ conv' \in Book /\ Grows(conv, conv')
    BY <1>4, SaveForm
  <2> QED
    BY <2>1, <2>2, OutreachStays DEF hist
<1>5. ASSUME NEW t \in Tasks, Prepared(t)
      PROVE  OutreachInv'
  <2>1. PICK new : PreparedFacts(t, new)
    BY <1>5, PreparedForm
  <2>2. Result(t, new) /\ imLock' \in Tasks \union {nobody}
    BY <2>1 DEF PreparedFacts, Frees
  <2>3. UNCHANGED <<conv, chat, level, review, hist>>
    BY <1>5, PreparedForm
  <2> QED
    BY <1>0, <2>2, <2>3, OutreachStays DEF hist
<1>6. ASSUME NEW t \in Tasks, Deliver(t)
      PROVE  OutreachInv'
  <2>1. \E new : Result(t, new)
    BY <1>6, DeliverForm DEF DeliverFacts
  <2>2. /\ UNCHANGED <<chat, level, review, imLock, hrActed, everOff>> /\ lost' \in BOOLEAN
        /\ conv' \in Book /\ Grows(conv, conv')
    BY <1>6, DeliverForm
  <2> QED
    BY <2>1, <2>2, OutreachStays
<1>7. ASSUME NEW t \in Tasks, Mark(t)
      PROVE  OutreachInv'
  <2>1. \E new : Result(t, new)
    BY <1>7, MarkForm
  <2>2. UNCHANGED <<chat, level, review, hist>> /\ Frees(t) /\ conv' \in Book /\ Grows(conv, conv')
    BY <1>7, MarkForm
  <2> QED
    BY <2>1, <2>2, OutreachStays DEF Frees, hist
<1>8. ASSUME NEW t \in Tasks, Store(t)
      PROVE  OutreachInv'
  <2>1. \E new : Result(t, new)
    BY <1>8, StoreForm
  <2>2. /\ UNCHANGED <<chat, review, imLock, hist>> /\ level' \in [Candidates -> Levels]
        /\ conv' \in Book /\ Grows(conv, conv')
    BY <1>8, StoreForm
  <2> QED
    BY <2>1, <2>2, OutreachStays DEF hist
<1>9. ASSUME NEW t \in Tasks, NextOutreach(t)
      PROVE  OutreachInv'
  <2>1. PICK new : NextFacts(t, new)
    BY <1>9, NextOutreachForm
  <2>2. Result(t, new)
    BY <2>1 DEF NextFacts
  <2>3. UNCHANGED <<conv, chat, level, review, imLock, hist>>
    BY <1>9, NextOutreachForm
  <2> QED
    BY <1>0, <2>2, <2>3, OutreachStays DEF hist
<1>10. ASSUME NEW t \in Tasks, Request(t)
       PROVE  OutreachInv'
  <2>1. /\ UNCHANGED <<conv, level, review, imLock, lost, everOff>>
        /\ chat' \in [Candidates -> {"none", "new", "prior"}] /\ hrActed' \in BOOLEAN
    BY <1>10, RequestForm
  <2>2. CASE UNCHANGED <<task, hrActed>>
    BY <2>1, <2>2 DEF OutreachInv, TypeOK, TasksInv
  <2>3. CASE \E new : RequestFacts(t, new)
    BY <1>0, <2>1, <2>3, OutreachStays DEF RequestFacts
  <2> QED
    BY <1>10, <2>2, <2>3, RequestForm
<1>11. ASSUME NEW t \in Tasks, Abort(t)
       PROVE  OutreachInv'
  <2>1. /\ UNCHANGED <<conv, chat, level, review, hrActed, everOff>> /\ Frees(t) /\ lost' \in BOOLEAN
        /\ Result(t, Idle)
    BY <1>11, AbortForm
  <2> QED
    BY <1>0, <2>1, OutreachStays DEF Frees
<1>12. ASSUME Edit
       PROVE  OutreachInv'
  <2>1. /\ UNCHANGED <<chat, level, review, imLock, task, lost, everOff>> /\ hrActed'
        /\ conv' \in Book /\ Grows(conv, conv')
    BY <1>12, EditForm
  <2>2. \A t \in Tasks : TaskValid(conv', task[t])
    BY <1>0, <2>1, OutreachState, ValidStays
  <2> QED
    BY <2>1, <2>2 DEF OutreachInv, TypeOK, TasksInv, Book
<1>13. ASSUME SetReview
       PROVE  OutreachInv'
  BY <1>13 DEF SetReview, data, OutreachInv, TypeOK, TasksInv
<1>14. CASE UNCHANGED vars
  BY <1>14 DEF vars, data, hist, OutreachInv, TypeOK, TasksInv
<1> QED
  BY <1>1, <1>2, <1>3, <1>4, <1>5, <1>6, <1>7, <1>8, <1>9, <1>10, <1>11, <1>12, <1>13, <1>14
  DEF Next, TaskStep

(* Nothing is there at first.                                              *)
LEMMA OutreachStarts ==
  Init => OutreachInv
<1> SUFFICES ASSUME Init
             PROVE  OutreachInv
  OBVIOUS
<1>1. task = [t \in Tasks |-> Idle] /\ conv = [c \in Candidates |-> <<>>]
  BY DEF Init
<1>2. TypeOK
  <2>1. conv \in [Candidates -> Seq(Conversations)] /\ task \in [Tasks -> TaskRecords]
    BY <1>1, IdleFields
  <2>2. chat \in [Candidates -> {"none", "new", "prior"}] /\ level \in [Candidates -> Levels]
    BY DEF Init, Levels
  <2>3. {review, hrActed, lost, everOff} \subseteq BOOLEAN
    BY Zenon DEF Init
  <2> QED
    BY <2>1, <2>2, <2>3 DEF Init, TypeOK
<1>3. TaskFits(Idle) /\ TaskValid(conv, Idle)
  BY IdleFields, RestsValid DEF TaskFits, Rests
<1> QED
  BY <1>1, <1>2, <1>3 DEF OutreachInv, TasksInv

(* Whatever the tasks, the buttons and the settings do, in any order: rows *)
(* and tasks have their types, a task holds what belongs to the await it   *)
(* stands at, and what it holds is there.                                  *)
THEOREM OutreachHolds == Spec => []OutreachInv
<1> QED
  BY OutreachStarts, OutreachSteps, PTL DEF Spec

(* A row never comes to hold what it has no column for, and a task is     *)
(* always at one of its awaits.                                            *)
THEOREM OutreachTypeCorrect == Spec => []TypeOK
<1>1. OutreachInv => TypeOK
  BY DEF OutreachInv
<1> QED
  BY <1>1, OutreachHolds, PTL

-----------------------------------------------------------------------------
(* What only a delivery changes                                            *)

(* Every message was there, with what is known of its deliveries, or is new*)
(* and has not left.                                                       *)
Old(m, m2) == m2.by = m.by /\ m2.out = m.out /\ (m2.auto <=> m.auto)

Keeps(cs, cs2) ==
  \A c \in Candidates : \A i \in DOMAIN cs2[c] : \A k \in DOMAIN cs2[c][i].msgs :
    \/ i \in DOMAIN cs[c] /\ k \in DOMAIN cs[c][i].msgs /\ Old(cs[c][i].msgs[k], cs2[c][i].msgs[k])
    \/ /\ i \in DOMAIN cs[c] => k \notin DOMAIN cs[c][i].msgs
       /\ cs2[c][i].msgs[k].out = 0 /\ ~cs2[c][i].msgs[k].auto

(* A conversation that keeps its deliveries is put in the place of         *)
(* another.                                                                *)
LEMMA ReplacedKeeps ==
  ASSUME NEW cs \in Book, NEW cs2, NEW c \in Candidates, NEW i \in DOMAIN cs[c], NEW cv,
         Replaced(cs, cs2, c, i, cv),
         \A k \in DOMAIN cv.msgs :
           \/ k \in DOMAIN cs[c][i].msgs /\ Old(cs[c][i].msgs[k], cv.msgs[k])
           \/ k \notin DOMAIN cs[c][i].msgs /\ cv.msgs[k].out = 0 /\ ~cv.msgs[k].auto
  PROVE  Keeps(cs, cs2)
<1> SUFFICES ASSUME NEW d \in Candidates, NEW j \in DOMAIN cs2[d], NEW k \in DOMAIN cs2[d][j].msgs
             PROVE  \/ /\ j \in DOMAIN cs[d] /\ k \in DOMAIN cs[d][j].msgs
                       /\ Old(cs[d][j].msgs[k], cs2[d][j].msgs[k])
                    \/ /\ j \in DOMAIN cs[d] => k \notin DOMAIN cs[d][j].msgs
                       /\ cs2[d][j].msgs[k].out = 0 /\ ~cs2[d][j].msgs[k].auto
  BY DEF Keeps
<1>1. j \in DOMAIN cs[d] /\ cs2[d][j] = IF d = c /\ j = i THEN cv ELSE cs[d][j]
  BY DEF Replaced
<1> QED
  BY <1>1 DEF Old

(* An edit delivers nothing.                                               *)
LEMMA EditKeeps ==
  ASSUME OutreachInv, Edit
  PROVE  Keeps(conv, conv')
<1>0. conv \in Book
  BY OutreachState
<1>1. PICK c \in Candidates : \E i \in DOMAIN conv[c] : \E k \in Pending(conv[c][i]) :
             \E cv2 \in Conversations :
               /\ Replaced(conv, conv', c, i, cv2)
               /\ Rewritten(conv[c][i], cv2, k, [conv[c][i].msgs[k] EXCEPT !.st = "drafted"])
  BY EditForm
<1>1a. PICK i \in DOMAIN conv[c] : \E k \in Pending(conv[c][i]) : \E cv2 \in Conversations :
               /\ Replaced(conv, conv', c, i, cv2)
               /\ Rewritten(conv[c][i], cv2, k, [conv[c][i].msgs[k] EXCEPT !.st = "drafted"])
  BY <1>1
<1>2. PICK k \in Pending(conv[c][i]), cv2 \in Conversations :
               /\ Replaced(conv, conv', c, i, cv2)
               /\ Rewritten(conv[c][i], cv2, k, [conv[c][i].msgs[k] EXCEPT !.st = "drafted"])
  BY <1>1a
<1>3. conv[c][i] \in Conversations
  BY <1>0, BookFields
<1>4. k \in DOMAIN conv[c][i].msgs /\ conv[c][i].msgs[k] \in Messages
  BY <1>3, ConversationFields DEF Pending, Outbound
<1>5. Old(conv[c][i].msgs[k], [conv[c][i].msgs[k] EXCEPT !.st = "drafted"])
  BY <1>4 DEF Old, Messages
<1>6. \A j \in DOMAIN cv2.msgs : j \in DOMAIN conv[c][i].msgs /\ Old(conv[c][i].msgs[j], cv2.msgs[j])
  <2> DEFINE m == [conv[c][i].msgs[k] EXCEPT !.st = "drafted"]
  <2> HIDE DEF m
  <2>1. Rewritten(conv[c][i], cv2, k, m) /\ Old(conv[c][i].msgs[k], m)
    BY <1>2, <1>5 DEF m
  <2> QED
    BY <2>1 DEF Rewritten, Old
<1> QED
  BY <1>0, <1>2, <1>6, ReplacedKeeps

(* Neither does a draft that is saved,                                     *)
LEMMA SaveKeeps ==
  ASSUME OutreachInv, NEW t \in Tasks, Save(t)
  PROVE  Keeps(conv, conv')
<1>0. conv \in Book
  BY OutreachState
<1>1. PICK c \in Candidates, i \in Nat, d \in Decisions \union {"answer"}, k \in Nat :
           \E new : SaveFacts(t, new, c, i, d, k)
  BY SaveForm
<1>2. PICK new : SaveFacts(t, new, c, i, d, k)
  BY <1>1
<1>3. CASE \E cv2 \in Conversations :
             i \in DOMAIN conv[c] /\ Replaced(conv, conv', c, i, cv2) /\ cv2.msgs = conv[c][i].msgs
  BY <1>0, <1>3, ReplacedKeeps DEF Old
<1>4. CASE \E free \in BOOLEAN, cv2 \in Conversations :
             /\ i \in DOMAIN conv[c] /\ Replaced(conv, conv', c, i, cv2)
             /\ cv2.msgs = Append(conv[c][i].msgs, Draft(d, k, free))
  <2>1. PICK free \in BOOLEAN, cv2 \in Conversations :
             /\ i \in DOMAIN conv[c] /\ Replaced(conv, conv', c, i, cv2)
             /\ cv2.msgs = Append(conv[c][i].msgs, Draft(d, k, free))
    BY <1>4
  <2>2. conv[c][i] \in Conversations /\ Draft(d, k, free) \in Messages
        /\ Draft(d, k, free).out = 0 /\ ~Draft(d, k, free).auto
    BY <1>0, <2>1, BookFields, DraftFields
  <2>3. \A j \in DOMAIN cv2.msgs :
          \/ j \in DOMAIN conv[c][i].msgs /\ Old(conv[c][i].msgs[j], cv2.msgs[j])
          \/ j \notin DOMAIN conv[c][i].msgs /\ cv2.msgs[j].out = 0 /\ ~cv2.msgs[j].auto
    BY <2>1, <2>2, MessageAdd DEF Old
  <2> QED
    BY <1>0, <2>1, <2>3, ReplacedKeeps
<1>5. CASE \E free \in BOOLEAN, cv2 \in Conversations :
             Added(conv, conv', c, cv2) /\ cv2.msgs = <<Draft(d, k, free)>>
  <2>1. PICK free \in BOOLEAN, cv2 \in Conversations :
             Added(conv, conv', c, cv2) /\ cv2.msgs = <<Draft(d, k, free)>>
    BY <1>5
  <2>2. Draft(d, k, free).out = 0 /\ ~Draft(d, k, free).auto
    BY DraftFields
  <2>3. \A j \in DOMAIN cv2.msgs : cv2.msgs[j].out = 0 /\ ~cv2.msgs[j].auto
    BY <2>1, <2>2
  <2>4. Len(conv[c]) \in Nat /\ Len(conv[c]) + 1 \notin DOMAIN conv[c]
    BY <1>0, BookFields
  <2> QED
    BY <2>1, <2>3, <2>4 DEF Added, Keeps, Old
<1> QED
  BY <1>2, <1>3, <1>4, <1>5 DEF SaveFacts

(* nor a record: a message that is marked                                  *)
LEMMA MarksIs ==
  ASSUME OutreachInv, NEW t \in Tasks, NEW c \in Candidates, NEW i \in DOMAIN conv[c]
  PROVE  Relabelled(conv[c][i], Marks(t, c, i))
  BY OutreachState, BookFields, RecordedIs, RecordedByIdIs DEF Marks

(* keeps its deliveries,                                                   *)
LEMMA MarkKeeps ==
  ASSUME OutreachInv, NEW t \in Tasks, Mark(t)
  PROVE  Keeps(conv, conv')
<1> SUFFICES ASSUME NEW c \in Candidates, NEW i \in DOMAIN conv'[c], NEW k \in DOMAIN conv'[c][i].msgs
             PROVE  /\ i \in DOMAIN conv[c] /\ k \in DOMAIN conv[c][i].msgs
                    /\ Old(conv[c][i].msgs[k], conv'[c][i].msgs[k])
  BY DEF Keeps
<1>1. i \in DOMAIN conv[c] /\ (conv'[c][i] = Marks(t, c, i) \/ conv'[c][i] = conv[c][i])
  BY MarkForm
<1>2. Relabelled(conv[c][i], Marks(t, c, i))
  BY <1>1, MarksIs
<1> QED
  BY <1>1, <1>2 DEF Relabelled, Old

(* nor a reply that is stored.                                             *)
LEMMA StoreKeeps ==
  ASSUME OutreachInv, NEW t \in Tasks, Store(t)
  PROVE  Keeps(conv, conv')
<1>0. conv \in Book
  BY OutreachState
<1> SUFFICES ASSUME NEW c \in Candidates, NEW i \in DOMAIN conv'[c], NEW k \in DOMAIN conv'[c][i].msgs
             PROVE  \/ /\ i \in DOMAIN conv[c] /\ k \in DOMAIN conv[c][i].msgs
                       /\ Old(conv[c][i].msgs[k], conv'[c][i].msgs[k])
                    \/ /\ i \in DOMAIN conv[c] => k \notin DOMAIN conv[c][i].msgs
                       /\ conv'[c][i].msgs[k].out = 0 /\ ~conv'[c][i].msgs[k].auto
  BY DEF Keeps
<1>1. i \in DOMAIN conv[c]
  BY StoreForm
<1>2. CASE conv'[c] = conv[c]
  BY <1>1, <1>2 DEF Old
<1>3. CASE /\ 1 \in DOMAIN conv[c] /\ DOMAIN conv[c] = {1}
           /\ conv'[c][1].msgs = Append(conv[c][1].msgs, Reply)
  <2>1. conv[c][1] \in Conversations
    BY <1>0, <1>3, BookFields
  <2>2. Reply \in Messages /\ Reply.out = 0 /\ Reply.auto = FALSE
    BY DEF Reply, Messages
  <2> QED
    BY <1>1, <1>3, <2>1, <2>2, MessageAdd DEF Old
<1> QED
  BY <1>2, <1>3, StoreForm

-----------------------------------------------------------------------------
(* IM review                                                               *)

Unassisted(cs) ==
  \A c \in Candidates : \A i \in DOMAIN cs[c] : \A k \in DOMAIN cs[c][i].msgs : ~cs[c][i].msgs[k].auto

(* With review on, a task of the automation does not come to send; the     *)
(* dialogue looked at the setting when it began.                           *)
Reviewed(tk) ==
  /\ tk.pc = "send" => tk.kind \notin Automatic
  /\ tk.kind = "dialogue" => tk.left = {} /\ (tk.pc # "read" => tk.review)

ReviewInv ==
  ~everOff => review /\ Unassisted(conv) /\ \A t \in Tasks : Reviewed(task[t])

(* One task steps, with the setting as it was.                             *)
LEMMA ReviewKept ==
  ASSUME OutreachInv, NEW t \in Tasks, NEW new, Result(t, new), UNCHANGED <<review, everOff>>,
         ReviewInv, ~everOff => Reviewed(new), ~everOff => Unassisted(conv')
  PROVE  ReviewInv'
  BY TaskBecomes DEF ReviewInv

(* A task that holds nothing sends nothing.                                *)
LEMMA RestsReviewed ==
  ASSUME NEW tk, Rests(tk), tk = Idle \/ Ended(tk)
  PROVE  Reviewed(tk)
  BY IdleFields DEF Rests, Ended, Reviewed

(* Every step keeps the review.                                            *)
LEMMA ReviewSteps ==
  OutreachInv /\ ReviewInv /\ [Next]_vars => ReviewInv'
<1> SUFFICES ASSUME OutreachInv, ReviewInv, [Next]_vars
             PROVE  ReviewInv'
  OBVIOUS
<1>0. conv \in Book /\ (~everOff => review /\ Unassisted(conv) /\ \A t \in Tasks : Reviewed(task[t]))
  BY OutreachState DEF ReviewInv
<1>1. ASSUME NEW t \in Tasks, Read(t)
      PROVE  ReviewInv'
  <2>1. PICK new : ReadFacts(t, new)
    BY <1>1, ReadForm
  <2>2. UNCHANGED <<conv, review, everOff>>
    BY <1>1, ReadForm DEF hist
  <2>3. ~everOff => Reviewed(new)
    BY <1>0, <2>1, RestsReviewed DEF ReadFacts, Reviewed, Automatic
  <2> QED
    BY <1>0, <2>1, <2>2, <2>3, ReviewKept DEF ReadFacts
<1>2. ASSUME NEW t \in Tasks, Acquire(t)
      PROVE  ReviewInv'
  <2>1. PICK new : AcquireFacts(t, new)
    BY <1>2, AcquireForm
  <2>2. UNCHANGED <<conv, review, everOff>>
    BY <1>2, AcquireForm DEF hist
  <2>3. Reviewed(new)
    BY <2>1 DEF AcquireFacts, Reviewed, Locked
  <2> QED
    BY <1>0, <2>1, <2>2, <2>3, ReviewKept DEF AcquireFacts
<1>3. ASSUME NEW t \in Tasks, Prepare(t)
      PROVE  ReviewInv'
  <2>1. PICK new : PrepareFacts(t, new)
    BY <1>3, PrepareForm
  <2>2. UNCHANGED <<conv, review, everOff>> /\ task[t].pc = "prep"
    BY <1>3, PrepareForm DEF hist
  <2>3. ~everOff => Reviewed(new)
    BY <1>0, <2>1, <2>2 DEF PrepareFacts, SameTask, Reviewed, Answers
  <2> QED
    BY <1>0, <2>1, <2>2, <2>3, ReviewKept DEF PrepareFacts
<1>4. ASSUME NEW t \in Tasks, Save(t)
      PROVE  ReviewInv'
  <2>1. UNCHANGED <<review, everOff>> /\ conv' \in Book /\ task[t].pc = "prep"
    BY <1>4, SaveForm DEF hist
  <2>2. PICK c \in Candidates, i \in Nat, d \in Decisions \union {"answer"}, k \in Nat :
             \E new : SaveFacts(t, new, c, i, d, k)
    BY <1>4, SaveForm
  <2>3. PICK new : SaveFacts(t, new, c, i, d, k)
    BY <2>2
  <2>4. ~everOff => Reviewed(new)
    <3>1. ~everOff /\ task[t].kind = "dialogue" => ~Sends(task[t], TRUE) /\ ~Sends(task[t], FALSE)
      BY <1>0, <2>1 DEF Reviewed, Sends
    <3> QED
      BY <1>0, <2>1, <2>3, <3>1 DEF SaveFacts, SameTask, Reviewed
  <2>5. Unassisted(conv) => Unassisted(conv')
    BY <1>4, SaveKeeps DEF Keeps, Old, Unassisted
  <2> QED
    BY <2>1, <2>3, <1>0, <2>4, <2>5, ReviewKept DEF SaveFacts
<1>5. ASSUME NEW t \in Tasks, Prepared(t)
      PROVE  ReviewInv'
  <2>1. PICK new : PreparedFacts(t, new)
    BY <1>5, PreparedForm
  <2>2. UNCHANGED <<conv, review, everOff>> /\ task[t].pc = "prep" /\ task[t].kind \in Drafters
    BY <1>5, PreparedForm DEF hist
  <2>3. ~everOff => Reviewed(new)
    <3>1. CASE Rests(new) /\ (new = Idle \/ Ended(new))
      BY <3>1, RestsReviewed
    <3>2. CASE SameTask(task[t], new) /\ new.left = task[t].left /\ new.left # {} /\ ~HeldForReview(t)
      BY <1>0, <2>2, <3>2 DEF SameTask, Reviewed, HeldForReview, Automatic, Locked
    <3> QED
      BY <2>1, <3>1, <3>2 DEF PreparedFacts
  <2> QED
    BY <1>0, <2>1, <2>2, <2>3, ReviewKept DEF PreparedFacts
<1>6. ASSUME NEW t \in Tasks, Deliver(t)
      PROVE  ReviewInv'
  <2>1. UNCHANGED <<review, everOff>> /\ conv' \in Book /\ task[t].pc = "send"
    BY <1>6, DeliverForm
  <2>a. PICK tg \in task[t].left : \E new : DeliverFacts(t, tg, new)
    BY <1>6, DeliverForm
  <2>2. PICK new : DeliverFacts(t, tg, new)
    BY <2>a
  <2>3. ~everOff => Reviewed(new)
    BY <1>0, <2>1, <2>2 DEF DeliverFacts, SameTask, Reviewed
  <2>4. ~everOff => Unassisted(conv')
    <3>1. CASE conv' = conv
      BY <1>0, <3>1
    <3>2. CASE conv' # conv
      <4>1. /\ tg[1] \in Candidates /\ tg[2] \in DOMAIN conv[tg[1]]
            /\ tg[3] \in DOMAIN conv[tg[1]][tg[2]].msgs
        BY OutreachState DEF TaskValid, Exists, TaskRecords, Targets
      <4> DEFINE m == conv[tg[1]][tg[2]].msgs[tg[3]]
                 gone == Gone(m, task[t].kind)
      <4>2. PICK cv2 \in Conversations :
                 Replaced(conv, conv', tg[1], tg[2], cv2) /\ Rewritten(conv[tg[1]][tg[2]], cv2, tg[3], gone)
        BY <2>2, <3>2 DEF DeliverFacts
      <4>3. m \in Messages
        BY <1>0, <4>1, BookFields, ConversationFields
      <4>4. gone.auto <=> m.auto \/ task[t].kind \in Automatic
        BY <4>3, GoneFields
      <4>5. ~everOff => task[t].kind \notin Automatic
        BY <1>0, <2>1 DEF Reviewed
      <4>6. \A d \in Candidates : \A j \in DOMAIN conv'[d] : \A k \in DOMAIN conv'[d][j].msgs :
              /\ j \in DOMAIN conv[d] /\ k \in DOMAIN conv[d][j].msgs
              /\ conv'[d][j].msgs[k] = conv[d][j].msgs[k]
                 \/ (d = tg[1] /\ j = tg[2] /\ k = tg[3] /\ conv'[d][j].msgs[k] = gone)
        <5> HIDE DEF gone
        <5> SUFFICES ASSUME NEW d \in Candidates, NEW j \in DOMAIN conv'[d], NEW k \in DOMAIN conv'[d][j].msgs
                     PROVE  /\ j \in DOMAIN conv[d] /\ k \in DOMAIN conv[d][j].msgs
                            /\ conv'[d][j].msgs[k] = conv[d][j].msgs[k]
                               \/ (d = tg[1] /\ j = tg[2] /\ k = tg[3] /\ conv'[d][j].msgs[k] = gone)
          OBVIOUS
        <5>1. j \in DOMAIN conv[d] /\ conv'[d][j] = IF d = tg[1] /\ j = tg[2] THEN cv2 ELSE conv[d][j]
          BY <4>2 DEF Replaced
        <5>2. CASE d = tg[1] /\ j = tg[2]
          <6>1. conv'[d][j] = cv2 /\ conv[d][j] = conv[tg[1]][tg[2]]
            BY <5>1, <5>2
          <6>2. k \in DOMAIN conv[d][j].msgs /\ cv2.msgs[k] = IF k = tg[3] THEN gone ELSE conv[d][j].msgs[k]
            BY <4>2, <6>1 DEF Rewritten
          <6> QED
            BY <5>1, <5>2, <6>1, <6>2
        <5>3. CASE ~(d = tg[1] /\ j = tg[2])
          BY <5>1, <5>3
        <5> QED
          BY <5>2, <5>3
      <4> HIDE DEF gone
      <4> QED
        BY <1>0, <4>1, <4>4, <4>5, <4>6 DEF Unassisted
    <3> QED
      BY <3>1, <3>2
  <2> QED
    BY <1>0, <2>1, <2>2, <2>3, <2>4, ReviewKept DEF DeliverFacts
<1>7. ASSUME NEW t \in Tasks, Mark(t)
      PROVE  ReviewInv'
  <2>1. PICK new : Result(t, new) /\ Rests(new) /\ (new = Idle \/ Ended(new))
    BY <1>7, MarkForm
  <2>2. UNCHANGED <<review, everOff>> /\ conv' \in Book
    BY <1>7, MarkForm DEF hist
  <2>3. Unassisted(conv) => Unassisted(conv')
    BY <1>7, MarkKeeps DEF Keeps, Old, Unassisted
  <2> QED
    BY <1>0, <2>1, <2>2, <2>3, RestsReviewed, ReviewKept
<1>8. ASSUME NEW t \in Tasks, Store(t)
      PROVE  ReviewInv'
  <2>1. PICK new : Result(t, new) /\ Rests(new) /\ (new = Idle \/ Ended(new))
    BY <1>8, StoreForm
  <2>2. UNCHANGED <<review, everOff>> /\ conv' \in Book
    BY <1>8, StoreForm DEF hist
  <2>3. Unassisted(conv) => Unassisted(conv')
    BY <1>8, StoreKeeps DEF Keeps, Old, Unassisted
  <2> QED
    BY <1>0, <2>1, <2>2, <2>3, RestsReviewed, ReviewKept
<1>9. ASSUME NEW t \in Tasks, NextOutreach(t)
      PROVE  ReviewInv'
  <2>1. PICK new : NextFacts(t, new)
    BY <1>9, NextOutreachForm
  <2>2. UNCHANGED <<conv, review, everOff>>
    BY <1>9, NextOutreachForm DEF hist
  <2>3. Reviewed(new)
    BY <2>1 DEF NextFacts, Reviewed
  <2> QED
    BY <1>0, <2>1, <2>2, <2>3, ReviewKept DEF NextFacts
<1>10. ASSUME NEW t \in Tasks, Request(t)
       PROVE  ReviewInv'
  <2>1. UNCHANGED <<conv, review, everOff>>
    BY <1>10, RequestForm
  <2>2. CASE UNCHANGED <<task, hrActed>>
    BY <2>1, <2>2 DEF ReviewInv
  <2>3. CASE \E new : RequestFacts(t, new)
    <3>1. PICK new : RequestFacts(t, new)
      BY <2>3
    <3>2. Reviewed(new)
      BY <3>1 DEF RequestFacts, Reviewed, Buttons, Automatic
    <3> QED
      BY <1>0, <2>1, <3>1, <3>2, ReviewKept DEF RequestFacts
  <2> QED
    BY <1>10, <2>2, <2>3, RequestForm
<1>11. ASSUME NEW t \in Tasks, Abort(t)
       PROVE  ReviewInv'
  <2>1. UNCHANGED <<conv, review, everOff>> /\ Result(t, Idle)
    BY <1>11, AbortForm
  <2> QED
    BY <1>0, <2>1, IdleFields, RestsReviewed, ReviewKept
<1>12. ASSUME Edit
       PROVE  ReviewInv'
  <2>1. UNCHANGED <<review, task, everOff>> /\ conv' \in Book
    BY <1>12, EditForm
  <2>2. Unassisted(conv) => Unassisted(conv')
    BY <1>12, EditKeeps DEF Keeps, Old, Unassisted
  <2> QED
    BY <2>1, <2>2 DEF ReviewInv
<1>13. ASSUME SetReview
       PROVE  ReviewInv'
  BY <1>0, <1>13, OutreachTypes DEF SetReview, ReviewInv
<1>14. CASE UNCHANGED vars
  BY <1>14 DEF vars, data, hist, ReviewInv
<1> QED
  BY <1>1, <1>2, <1>3, <1>4, <1>5, <1>6, <1>7, <1>8, <1>9, <1>10, <1>11, <1>12, <1>13, <1>14
  DEF Next, TaskStep

(* Nothing leaves but by HR's own sends while review has been required:    *)
(* the tasks that send by themselves are stopped before.                   *)
THEOREM ReviewIsKept == Spec => []ReviewHolds
<1>1. Init => ReviewInv
  <2> SUFFICES ASSUME Init
               PROVE  ReviewInv
    OBVIOUS
  <2>1. task = [t \in Tasks |-> Idle] /\ conv = [c \in Candidates |-> <<>>] /\ (~everOff => review)
    BY Zenon DEF Init
  <2>2. Unassisted(conv)
    BY <2>1 DEF Unassisted
  <2>3. \A t \in Tasks : Reviewed(task[t])
    BY <2>1, IdleFields DEF Reviewed, Rests
  <2> QED
    BY <2>1, <2>2, <2>3 DEF ReviewInv
<1>2. ReviewInv => ReviewHolds
  <2> SUFFICES ASSUME ReviewInv, ~everOff, NEW id \in ConvIds, NEW k \in Outbound(ConvOf(id))
               PROVE  ~ConvOf(id).msgs[k].auto
    BY DEF ReviewHolds
  <2> QED
    BY ConvIdIs DEF ReviewInv, Unassisted, ConvOf, Outbound
<1> QED
  BY <1>1, <1>2, OutreachHolds, ReviewSteps, PTL DEF Spec

-----------------------------------------------------------------------------
(* The record and the deliveries                                           *)

(* Every delivery of a conversation, and the ones its senders have yet to  *)
(* record.                                                                 *)
Departures(cv) == UNION {{k} \X (1..cv.msgs[k].out) : k \in DOMAIN cv.msgs}

Credit(cs, ts, c, i) ==
  {p \in Tasks \X DOMAIN cs[c][i].msgs : <<c, i, p[2]>> \in ts[p[1]].oks}

Covered(cs, ts, c, i) ==
  Cardinality(Sent(cs[c][i])) + Cardinality(Credit(cs, ts, c, i)) <= Deliveries(cs[c][i])

RecordInv == \A c \in Candidates : \A i \in DOMAIN conv[c] : Covered(conv, task, c, i)

(* Numbers up to a number are finitely many.                               *)
LEMMA UpToFinite ==
  ASSUME NEW n \in Nat
  PROVE  IsFiniteSet(1..n)
<1>1. n \in Int /\ 1 \in Int
  OBVIOUS
<1> QED
  BY <1>1, FS_Interval, Zenon

(* The deliveries of a conversation are finitely many, and counted.        *)
LEMMA DeparturesAre ==
  ASSUME NEW cv \in Conversations
  PROVE  /\ IsFiniteSet(Departures(cv))
         /\ Deliveries(cv) = Cardinality(Departures(cv)) /\ Deliveries(cv) \in Nat
         /\ \A x : x \in Departures(cv) <=>
                     \E k \in DOMAIN cv.msgs : \E n \in 1..cv.msgs[k].out : x = <<k, n>>
<1>1. DOMAIN cv.msgs = 1..Len(cv.msgs) /\ Len(cv.msgs) \in Nat /\ IsFiniteSet(DOMAIN cv.msgs)
  BY ConversationFields, FS_Interval
<1>2. \A k \in DOMAIN cv.msgs : cv.msgs[k].out \in Nat
  BY ConversationFields DEF Messages
<1> DEFINE F == [k \in DOMAIN cv.msgs |-> {k} \X (1..cv.msgs[k].out)]
           T == {{k} \X (1..cv.msgs[k].out) : k \in DOMAIN cv.msgs}
<1>3. F \in Surjection(DOMAIN cv.msgs, T)
  BY DEF Surjection
<1>4. IsFiniteSet(T)
  <2> HIDE DEF F, T
  <2> QED
    BY <1>1, <1>3, FS_Surjection
<1>5. ASSUME NEW k \in DOMAIN cv.msgs
      PROVE  IsFiniteSet({k} \X (1..cv.msgs[k].out))
  <2>1. IsFiniteSet({k}) /\ IsFiniteSet(1..cv.msgs[k].out)
    BY <1>2, FS_Singleton, UpToFinite
  <2> QED
    BY <2>1, FS_Product
<1>6. IsFiniteSet(UNION T)
  <2>1. \A K \in T : IsFiniteSet(K)
    BY <1>5
  <2> HIDE DEF T
  <2> QED
    BY <1>4, <2>1, FS_UNION
<1>7. Departures(cv) = UNION T /\ Deliveries(cv) = Cardinality(Departures(cv))
  BY DEF Departures, Deliveries
<1>8. \A x : x \in Departures(cv) <=>
               \E k \in DOMAIN cv.msgs : \E n \in 1..cv.msgs[k].out : x = <<k, n>>
  BY DEF Departures
<1> QED
  BY <1>6, <1>7, <1>8, FS_CardinalityType

(* So are the messages that are recorded as sent.                          *)
LEMMA SentIs ==
  ASSUME NEW cv \in Conversations
  PROVE  IsFiniteSet(Sent(cv)) /\ Sent(cv) \subseteq DOMAIN cv.msgs
<1>1. Sent(cv) \in SUBSET (1..Len(cv.msgs)) /\ Len(cv.msgs) \in Nat /\ DOMAIN cv.msgs = 1..Len(cv.msgs)
  BY ConversationFields
<1>2. IsFiniteSet(1..Len(cv.msgs))
  BY <1>1, UpToFinite
<1> QED
  BY <1>1, <1>2, FS_Subset

(* So is what the senders have yet to record.                              *)
LEMMA CreditIs ==
  ASSUME NEW cs \in Book, NEW ts \in [Tasks -> TaskRecords], \A u \in Tasks : TaskValid(cs, ts[u]),
         NEW c \in Candidates, NEW i \in DOMAIN cs[c]
  PROVE  /\ IsFiniteSet(Credit(cs, ts, c, i))
         /\ \A p : p \in Credit(cs, ts, c, i) <=> p \in Tasks \X Nat /\ <<c, i, p[2]>> \in ts[p[1]].oks
<1>1. /\ DOMAIN cs[c][i].msgs = 1..Len(cs[c][i].msgs) /\ Len(cs[c][i].msgs) \in Nat
  BY BookFields, ConversationFields
<1>2. IsFiniteSet(Tasks \X DOMAIN cs[c][i].msgs)
  <2>1. IsFiniteSet(DOMAIN cs[c][i].msgs)
    BY <1>1, UpToFinite
  <2> QED
    BY <2>1, TasksAssumption, FS_Product
<1>3. Credit(cs, ts, c, i) \in SUBSET (Tasks \X DOMAIN cs[c][i].msgs)
  BY DEF Credit
<1>4. \A u \in Tasks : \A k : <<c, i, k>> \in ts[u].oks => k \in DOMAIN cs[c][i].msgs
  BY DEF TaskValid, Exists
<1>5. IsFiniteSet(Credit(cs, ts, c, i))
  BY <1>2, <1>3, FS_Subset
<1>6. \A k \in DOMAIN cs[c][i].msgs : k \in Nat
  BY <1>1
<1>7. ASSUME NEW p
      PROVE  p \in Credit(cs, ts, c, i) <=> p \in Tasks \X Nat /\ <<c, i, p[2]>> \in ts[p[1]].oks
  <2>1. p \in Credit(cs, ts, c, i) => p \in Tasks \X Nat /\ <<c, i, p[2]>> \in ts[p[1]].oks
    BY <1>6 DEF Credit
  <2>2. ASSUME p \in Tasks \X Nat, <<c, i, p[2]>> \in ts[p[1]].oks
        PROVE  p \in Credit(cs, ts, c, i)
    <3>1. p[1] \in Tasks /\ p[2] \in DOMAIN cs[c][i].msgs /\ p = <<p[1], p[2]>>
      BY <1>4, <2>2
    <3> QED
      BY <2>2, <3>1 DEF Credit
  <2> QED
    BY <2>1, <2>2
<1> QED
  BY <1>5, <1>7

(* What is recorded was credit before.                                     *)
LEMMA CountsMove ==
  ASSUME NEW S, NEW C, NEW E, NEW S2, NEW C2, NEW R \in SUBSET C,
         IsFiniteSet(S), IsFiniteSet(C), IsFiniteSet(E), Cardinality(E) <= Cardinality(R),
         S2 \subseteq S \union E, C2 \subseteq C \ R
  PROVE  Cardinality(S2) + Cardinality(C2) <= Cardinality(S) + Cardinality(C)
<1>1. IsFiniteSet(R) /\ IsFiniteSet(C \ R) /\ IsFiniteSet(S \union E) /\ IsFiniteSet(S \intersect E)
  BY FS_Subset, FS_Difference, FS_Union, FS_Intersection
<1>2. IsFiniteSet(S2) /\ IsFiniteSet(C2)
  BY <1>1, FS_Subset
<1>3. /\ Cardinality(S2) \in Nat /\ Cardinality(C2) \in Nat /\ Cardinality(S) \in Nat
      /\ Cardinality(C) \in Nat /\ Cardinality(E) \in Nat /\ Cardinality(R) \in Nat
      /\ Cardinality(S \intersect E) \in Nat
  BY <1>1, <1>2, FS_CardinalityType
<1>4. Cardinality(S \union E) = Cardinality(S) + Cardinality(E) - Cardinality(S \intersect E)
  BY FS_Union
<1>5. Cardinality(C \ R) = Cardinality(C) - Cardinality(R)
  <2>1. C \intersect R = R
    OBVIOUS
  <2> QED
    BY <2>1, FS_Difference
<1>6. Cardinality(S2) <= Cardinality(S \union E) /\ Cardinality(C2) <= Cardinality(C \ R)
  BY <1>1, FS_Subset
<1> QED
  BY <1>3, <1>4, <1>5, <1>6

(* What is covered stays covered when the sums move like this.             *)
LEMMA CoveredMoves ==
  ASSUME NEW cs \in Book, NEW ts \in [Tasks -> TaskRecords], \A u \in Tasks : TaskValid(cs, ts[u]),
         NEW cs2 \in Book, NEW ts2 \in [Tasks -> TaskRecords], \A u \in Tasks : TaskValid(cs2, ts2[u]),
         NEW c \in Candidates, NEW i \in DOMAIN cs[c], i \in DOMAIN cs2[c], Covered(cs, ts, c, i),
         NEW E, IsFiniteSet(E), NEW R \in SUBSET Credit(cs, ts, c, i), Cardinality(E) <= Cardinality(R),
         Sent(cs2[c][i]) \subseteq Sent(cs[c][i]) \union E,
         Credit(cs2, ts2, c, i) \subseteq Credit(cs, ts, c, i) \ R,
         Deliveries(cs2[c][i]) >= Deliveries(cs[c][i])
  PROVE  Covered(cs2, ts2, c, i)
<1>1. IsFiniteSet(Sent(cs[c][i])) /\ IsFiniteSet(Credit(cs, ts, c, i))
      /\ IsFiniteSet(Sent(cs2[c][i])) /\ IsFiniteSet(Credit(cs2, ts2, c, i))
  BY BookFields, SentIs, CreditIs
<1>2. Deliveries(cs[c][i]) \in Nat /\ Deliveries(cs2[c][i]) \in Nat
  BY BookFields, DeparturesAre
<1>3. Cardinality(Sent(cs2[c][i])) + Cardinality(Credit(cs2, ts2, c, i))
        <= Cardinality(Sent(cs[c][i])) + Cardinality(Credit(cs, ts, c, i))
  BY <1>1, CountsMove
<1>4. /\ Cardinality(Sent(cs[c][i])) \in Nat /\ Cardinality(Credit(cs, ts, c, i)) \in Nat
      /\ Cardinality(Sent(cs2[c][i])) \in Nat /\ Cardinality(Credit(cs2, ts2, c, i)) \in Nat
  BY <1>1, FS_CardinalityType
<1> QED
  BY <1>2, <1>3, <1>4 DEF Covered

(* Nothing more is recorded, and nothing more is owed.                     *)
LEMMA CoveredStays ==
  ASSUME NEW cs \in Book, NEW ts \in [Tasks -> TaskRecords], \A u \in Tasks : TaskValid(cs, ts[u]),
         NEW cs2 \in Book, NEW ts2 \in [Tasks -> TaskRecords], \A u \in Tasks : TaskValid(cs2, ts2[u]),
         NEW c \in Candidates, NEW i \in DOMAIN cs[c], i \in DOMAIN cs2[c], Covered(cs, ts, c, i),
         Sent(cs2[c][i]) \subseteq Sent(cs[c][i]), Credit(cs2, ts2, c, i) \subseteq Credit(cs, ts, c, i),
         Deliveries(cs2[c][i]) >= Deliveries(cs[c][i])
  PROVE  Covered(cs2, ts2, c, i)
<1>2. IsFiniteSet({}) /\ Cardinality({}) <= Cardinality({})
  BY FS_EmptySet
<1>3. /\ {} \in SUBSET Credit(cs, ts, c, i) /\ Sent(cs2[c][i]) \subseteq Sent(cs[c][i]) \union {}
      /\ Credit(cs2, ts2, c, i) \subseteq Credit(cs, ts, c, i) \ {}
  OBVIOUS
<1> QED
  BY <1>2, <1>3, CoveredMoves

(* Deliveries are no fewer when no message loses any.                      *)
LEMMA DeliveriesKept ==
  ASSUME NEW cs \in Book, NEW cs2 \in Book, Grows(cs, cs2), Keeps(cs, cs2),
         NEW c \in Candidates, NEW i \in DOMAIN cs[c]
  PROVE  i \in DOMAIN cs2[c] /\ Deliveries(cs2[c][i]) = Deliveries(cs[c][i])
<1>1. i \in DOMAIN cs2[c]
  BY DEF Grows
<1>2. cs[c][i] \in Conversations /\ cs2[c][i] \in Conversations
  BY <1>1, BookFields
<1>3. \A k \in DOMAIN cs[c][i].msgs : k \in DOMAIN cs2[c][i].msgs /\ cs2[c][i].msgs[k].out = cs[c][i].msgs[k].out
  BY <1>1 DEF Grows, Keeps, Old
<1>4. \A k \in DOMAIN cs2[c][i].msgs :
        k \in DOMAIN cs[c][i].msgs \/ (k \notin DOMAIN cs[c][i].msgs /\ 1..cs2[c][i].msgs[k].out = {})
  <2> SUFFICES ASSUME NEW k \in DOMAIN cs2[c][i].msgs, k \notin DOMAIN cs[c][i].msgs
               PROVE  1..cs2[c][i].msgs[k].out = {}
    OBVIOUS
  <2>1. cs2[c][i].msgs[k].out = 0
    BY <1>1 DEF Keeps
  <2> QED
    BY <2>1
<1>5. \A x : x \in Departures(cs[c][i]) <=> x \in Departures(cs2[c][i])
  BY <1>2, <1>3, <1>4, DeparturesAre
<1>6. Departures(cs[c][i]) = Departures(cs2[c][i])
  BY <1>5
<1> QED
  BY <1>1, <1>2, <1>6, DeparturesAre

(* What the invariant says of the next state.                              *)
LEMMA OutreachNext ==
  ASSUME OutreachInv'
  PROVE  /\ conv' \in Book /\ task' \in [Tasks -> TaskRecords]
         /\ \A u \in Tasks : TaskValid(conv', task'[u])
  BY DEF OutreachInv, TypeOK, TasksInv, Book

(* Nothing comes to be recorded as sent.                                   *)
NoneSent(cs, cs2) ==
  \A c \in Candidates : \A i \in DOMAIN cs2[c] : \A k \in Sent(cs2[c][i]) :
    i \in DOMAIN cs[c] /\ k \in Sent(cs[c][i])

(* A step that records and delivers nothing keeps the record,              *)
LEMMA RecordKept ==
  ASSUME OutreachInv, OutreachInv', RecordInv, Grows(conv, conv'), Keeps(conv, conv'),
         NoneSent(conv, conv'), \A u \in Tasks : task'[u].oks \subseteq task[u].oks
  PROVE  RecordInv'
<1> SUFFICES ASSUME NEW c \in Candidates, NEW i \in DOMAIN conv'[c]
             PROVE  Covered(conv', task', c, i)
  BY DEF RecordInv
<1>1. /\ conv \in Book /\ task \in [Tasks -> TaskRecords] /\ \A u \in Tasks : TaskValid(conv, task[u])
      /\ conv' \in Book /\ task' \in [Tasks -> TaskRecords] /\ \A u \in Tasks : TaskValid(conv', task'[u])
  BY OutreachState, OutreachNext
<1>2. CASE i \in DOMAIN conv[c]
  <2>1. Deliveries(conv'[c][i]) = Deliveries(conv[c][i])
    BY <1>1, <1>2, DeliveriesKept
  <2>2. Deliveries(conv[c][i]) \in Nat
    BY <1>1, <1>2, BookFields, DeparturesAre
  <2>3. Deliveries(conv'[c][i]) >= Deliveries(conv[c][i])
    BY <2>1, <2>2
  <2>4. Covered(conv, task, c, i)
    BY <1>2 DEF RecordInv
  <2>5. Sent(conv'[c][i]) \subseteq Sent(conv[c][i])
    BY DEF NoneSent
  <2>6. Credit(conv', task', c, i) \subseteq Credit(conv, task, c, i)
    BY <1>1, <1>2, CreditIs
  <2> QED
    BY <1>1, <1>2, <2>3, <2>4, <2>5, <2>6, CoveredStays
<1>3. CASE i \notin DOMAIN conv[c]
  <2>1. Sent(conv'[c][i]) = {}
    BY <1>3 DEF NoneSent
  <2>2. \A p : p \notin Credit(conv', task', c, i)
    BY <1>1, <1>3 DEF Credit, TaskValid, Exists
  <2>3. Credit(conv', task', c, i) = {}
    BY <2>2
  <2>4. Deliveries(conv'[c][i]) \in Nat
    BY <1>1, BookFields, DeparturesAre
  <2> QED
    BY <2>1, <2>3, <2>4, FS_EmptySet DEF Covered
<1> QED
  BY <1>2, <1>3

(* and so does one that moves a task only.                                 *)
LEMMA RecordTask ==
  ASSUME OutreachInv, OutreachInv', RecordInv, conv' = conv, NEW t \in Tasks, NEW new, Result(t, new),
         new.oks \subseteq task[t].oks
  PROVE  RecordInv'
<1>1. Grows(conv, conv') /\ Keeps(conv, conv') /\ NoneSent(conv, conv')
  BY OutreachState DEF Keeps, Old, NoneSent
<1>2. \A u \in Tasks : task'[u].oks \subseteq task[u].oks
  BY TaskBecomes
<1> QED
  BY <1>1, <1>2, RecordKept

(* A conversation that is replaced by one with no more messages sent.      *)
LEMMA ReplacedNoneSent ==
  ASSUME NEW cs \in Book, NEW cs2, NEW c \in Candidates, NEW i \in DOMAIN cs[c], NEW cv,
         Replaced(cs, cs2, c, i, cv), Sent(cv) \subseteq Sent(cs[c][i])
  PROVE  NoneSent(cs, cs2)
<1> SUFFICES ASSUME NEW d \in Candidates, NEW j \in DOMAIN cs2[d], NEW k \in Sent(cs2[d][j])
             PROVE  j \in DOMAIN cs[d] /\ k \in Sent(cs[d][j])
  BY DEF NoneSent
<1>1. j \in DOMAIN cs[d] /\ cs2[d][j] = IF d = c /\ j = i THEN cv ELSE cs[d][j]
  BY DEF Replaced
<1> QED
  BY <1>1

(* Saving a draft records nothing,                                         *)
LEMMA SaveNoneSent ==
  ASSUME OutreachInv, NEW t \in Tasks, Save(t)
  PROVE  NoneSent(conv, conv')
<1>0. conv \in Book
  BY OutreachState
<1>1. PICK c \in Candidates, i \in Nat, d \in Decisions \union {"answer"}, k \in Nat :
           \E new : SaveFacts(t, new, c, i, d, k)
  BY SaveForm
<1>2. PICK new : SaveFacts(t, new, c, i, d, k)
  BY <1>1
<1>3. CASE \E cv2 \in Conversations :
             i \in DOMAIN conv[c] /\ Replaced(conv, conv', c, i, cv2) /\ cv2.msgs = conv[c][i].msgs
  <2>1. PICK cv2 \in Conversations :
             i \in DOMAIN conv[c] /\ Replaced(conv, conv', c, i, cv2) /\ cv2.msgs = conv[c][i].msgs
    BY <1>3
  <2>2. Sent(cv2) \subseteq Sent(conv[c][i])
    BY <2>1 DEF Sent, Outbound
  <2> QED
    BY <1>0, <2>1, <2>2, ReplacedNoneSent
<1>4. CASE \E free \in BOOLEAN, cv2 \in Conversations :
             /\ i \in DOMAIN conv[c] /\ Replaced(conv, conv', c, i, cv2)
             /\ cv2.msgs = Append(conv[c][i].msgs, Draft(d, k, free))
  <2>1. PICK free \in BOOLEAN, cv2 \in Conversations :
             /\ i \in DOMAIN conv[c] /\ Replaced(conv, conv', c, i, cv2)
             /\ cv2.msgs = Append(conv[c][i].msgs, Draft(d, k, free))
    BY <1>4
  <2>2. conv[c][i] \in Conversations /\ Draft(d, k, free) \in Messages /\ Draft(d, k, free).st = "drafted"
    BY <1>0, <2>1, BookFields, DraftFields
  <2>3. \A j \in DOMAIN cv2.msgs : cv2.msgs[j].st = "sent" =>
          j \in DOMAIN conv[c][i].msgs /\ cv2.msgs[j] = conv[c][i].msgs[j]
    BY <2>1, <2>2, MessageAdd
  <2>4. Sent(cv2) \subseteq Sent(conv[c][i])
    BY <2>3 DEF Sent, Outbound
  <2> QED
    BY <1>0, <2>1, <2>4, ReplacedNoneSent
<1>5. CASE \E free \in BOOLEAN, cv2 \in Conversations :
             Added(conv, conv', c, cv2) /\ cv2.msgs = <<Draft(d, k, free)>>
  <2>1. PICK free \in BOOLEAN, cv2 \in Conversations :
             Added(conv, conv', c, cv2) /\ cv2.msgs = <<Draft(d, k, free)>>
    BY <1>5
  <2>2. \A j \in DOMAIN cv2.msgs : cv2.msgs[j].st # "sent"
    <3>1. Draft(d, k, free).st = "drafted"
      BY DraftFields
    <3> QED
      BY <2>1, <3>1
  <2>3. Sent(cv2) = {}
    BY <2>2 DEF Sent, Outbound
  <2> QED
    BY <2>1, <2>3 DEF Added, NoneSent
<1> QED
  BY <1>2, <1>3, <1>4, <1>5 DEF SaveFacts

(* storing a reply neither,                                                *)
LEMMA StoreNoneSent ==
  ASSUME OutreachInv, NEW t \in Tasks, Store(t)
  PROVE  NoneSent(conv, conv')
<1> SUFFICES ASSUME NEW c \in Candidates, NEW i \in DOMAIN conv'[c], NEW k \in Sent(conv'[c][i])
             PROVE  i \in DOMAIN conv[c] /\ k \in Sent(conv[c][i])
  BY DEF NoneSent
<1>0. conv \in Book
  BY OutreachState
<1>1. i \in DOMAIN conv[c]
  BY StoreForm
<1>2. CASE conv'[c] = conv[c]
  BY <1>1, <1>2
<1>3. CASE /\ 1 \in DOMAIN conv[c] /\ DOMAIN conv[c] = {1}
           /\ conv'[c][1].msgs = Append(conv[c][1].msgs, Reply)
  <2>1. conv[c][1] \in Conversations
    BY <1>0, <1>3, BookFields
  <2>2. Reply \in Messages /\ Reply.by = "candidate"
    BY DEF Reply, Messages
  <2>3. i = 1 /\ k \in DOMAIN conv'[c][1].msgs /\ conv'[c][1].msgs[k].by # "candidate"
        /\ conv'[c][1].msgs[k].st = "sent"
    BY <1>1, <1>3 DEF Sent, Outbound
  <2>4. k \in DOMAIN conv[c][1].msgs /\ conv'[c][1].msgs[k] = conv[c][1].msgs[k]
    BY <1>3, <2>1, <2>2, <2>3, MessageAdd
  <2> QED
    BY <1>1, <2>3, <2>4 DEF Sent, Outbound
<1> QED
  BY <1>2, <1>3, StoreForm

(* nor an edit.                                                            *)
LEMMA EditNoneSent ==
  ASSUME OutreachInv, Edit
  PROVE  NoneSent(conv, conv')
<1>0. conv \in Book
  BY OutreachState
<1>1. PICK c \in Candidates : \E i \in DOMAIN conv[c] : \E k \in Pending(conv[c][i]) :
             \E cv2 \in Conversations :
               /\ Replaced(conv, conv', c, i, cv2)
               /\ Rewritten(conv[c][i], cv2, k, [conv[c][i].msgs[k] EXCEPT !.st = "drafted"])
  BY EditForm
<1>2. PICK i \in DOMAIN conv[c] : \E k \in Pending(conv[c][i]) : \E cv2 \in Conversations :
               /\ Replaced(conv, conv', c, i, cv2)
               /\ Rewritten(conv[c][i], cv2, k, [conv[c][i].msgs[k] EXCEPT !.st = "drafted"])
  BY <1>1
<1>3. PICK k \in Pending(conv[c][i]), cv2 \in Conversations :
               /\ Replaced(conv, conv', c, i, cv2)
               /\ Rewritten(conv[c][i], cv2, k, [conv[c][i].msgs[k] EXCEPT !.st = "drafted"])
  BY <1>2
<1>4. conv[c][i].msgs[k] \in Messages
  BY <1>0, BookFields, ConversationFields DEF Pending, Outbound
<1> DEFINE m == [conv[c][i].msgs[k] EXCEPT !.st = "drafted"]
<1>5. m.st = "drafted"
  BY <1>4 DEF Messages
<1>6. Rewritten(conv[c][i], cv2, k, m)
  BY <1>3
<1> HIDE DEF m
<1>7. Sent(cv2) \subseteq Sent(conv[c][i])
  BY <1>5, <1>6 DEF Rewritten, Sent, Outbound
<1> QED
  BY <1>0, <1>3, <1>7, ReplacedNoneSent

(* A message that leaves counts once more.                                 *)
LEMMA GoneCounts ==
  ASSUME NEW cv \in Conversations, NEW cv2 \in Conversations, NEW k \in DOMAIN cv.msgs, NEW kind,
         Rewritten(cv, cv2, k, Gone(cv.msgs[k], kind))
  PROVE  Deliveries(cv2) = Deliveries(cv) + 1 /\ Sent(cv2) = Sent(cv)
<1> DEFINE n == cv.msgs[k].out
<1>1. cv.msgs[k] \in Messages /\ n \in Nat
  BY ConversationFields DEF Messages
<1>2. DOMAIN cv2.msgs = DOMAIN cv.msgs /\ cv2.msgs[k].out = n + 1
  BY <1>1, GoneFields DEF Rewritten
<1>3. \A j \in DOMAIN cv.msgs : /\ cv2.msgs[j].by = cv.msgs[j].by /\ cv2.msgs[j].st = cv.msgs[j].st
                                /\ j # k => cv2.msgs[j].out = cv.msgs[j].out
  BY <1>1, GoneFields DEF Rewritten
<1>4. Sent(cv2) = Sent(cv)
  BY <1>2, <1>3 DEF Sent, Outbound
<1>5. 1..(n + 1) = (1..n) \union {n + 1} /\ n + 1 \notin 1..n
  BY <1>1
<1> HIDE DEF n
<1>6. \A x : x \in Departures(cv2) <=> x \in Departures(cv) \/ x = <<k, n + 1>>
  <2>1. ASSUME NEW x, x \in Departures(cv2)
        PROVE  x \in Departures(cv) \/ x = <<k, n + 1>>
    <3>1. PICK j \in DOMAIN cv2.msgs : \E m \in 1..cv2.msgs[j].out : x = <<j, m>>
      BY <2>1, DeparturesAre
    <3>2. CASE j = k
      <4>1. \E m \in 1..(n + 1) : x = <<k, m>>
        BY <1>2, <3>1, <3>2
      <4>2. (\E m \in 1..n : x = <<k, m>>) \/ x = <<k, n + 1>>
        BY <1>5, <4>1
      <4> QED
        BY <4>2, DeparturesAre DEF n
    <3>3. CASE j # k
      BY <1>2, <1>3, <3>1, <3>3, DeparturesAre
    <3> QED
      BY <3>2, <3>3
  <2>2. ASSUME NEW x, x \in Departures(cv)
        PROVE  x \in Departures(cv2)
    <3>1. PICK j \in DOMAIN cv.msgs : \E m \in 1..cv.msgs[j].out : x = <<j, m>>
      BY <2>2, DeparturesAre
    <3>2. CASE j = k
      <4>1. \E m \in 1..(n + 1) : x = <<k, m>>
        BY <1>5, <3>1, <3>2 DEF n
      <4> QED
        BY <1>2, <4>1, DeparturesAre
    <3>3. CASE j # k
      BY <1>2, <1>3, <3>1, <3>3, DeparturesAre
    <3> QED
      BY <3>2, <3>3
  <2>3. <<k, n + 1>> \in Departures(cv2)
    <3>1. n + 1 \in 1..cv2.msgs[k].out
      BY <1>2, <1>5
    <3> QED
      BY <1>2, <3>1, DeparturesAre
  <2> QED
    BY <2>1, <2>2, <2>3
<1>7. Departures(cv2) = Departures(cv) \union {<<k, n + 1>>}
  BY <1>6
<1>8. <<k, n + 1>> \notin Departures(cv)
  <2> SUFFICES ASSUME <<k, n + 1>> \in Departures(cv)
               PROVE  FALSE
    OBVIOUS
  <2>1. PICK j \in DOMAIN cv.msgs : \E m \in 1..cv.msgs[j].out : <<k, n + 1>> = <<j, m>>
    BY DeparturesAre
  <2>2. n + 1 \in 1..n
    BY <2>1 DEF n
  <2> QED
    BY <1>5, <2>2
<1>9. Cardinality(Departures(cv2)) = Cardinality(Departures(cv)) + 1
  <2>1. IsFiniteSet(Departures(cv))
    BY DeparturesAre
  <2> QED
    BY <1>7, <1>8, <2>1, FS_AddElement
<1> QED
  BY <1>4, <1>9, DeparturesAre

(* A delivery that its sender sees becomes credit.                         *)
LEMMA DeliverRecord ==
  ASSUME OutreachInv, OutreachInv', RecordInv, NEW t \in Tasks, Deliver(t)
  PROVE  RecordInv'
<1>0. /\ conv \in Book /\ task \in [Tasks -> TaskRecords]
      /\ \A u \in Tasks : TaskValid(conv, task[u])
      /\ conv' \in Book /\ task' \in [Tasks -> TaskRecords] /\ \A u \in Tasks : TaskValid(conv', task'[u])
  BY OutreachState, OutreachNext
<1>1. PICK tg \in task[t].left : \E new : DeliverFacts(t, tg, new)
  BY DeliverForm
<1>2. PICK new : DeliverFacts(t, tg, new)
  BY <1>1
<1>3. \A u \in Tasks : task'[u] = IF u = t THEN new ELSE task[u]
  BY <1>2, TaskBecomes DEF DeliverFacts
<1>4. /\ tg \in Targets /\ tg[1] \in Candidates /\ tg[2] \in DOMAIN conv[tg[1]]
      /\ tg[3] \in DOMAIN conv[tg[1]][tg[2]].msgs /\ tg = <<tg[1], tg[2], tg[3]>>
  BY <1>0 DEF TaskValid, Exists, TaskRecords, Targets
<1>5. CASE conv' = conv /\ new.oks = task[t].oks
  BY <1>2, <1>5, RecordTask DEF DeliverFacts
<1>6. ASSUME NEW cv2 \in Conversations, Replaced(conv, conv', tg[1], tg[2], cv2),
             Rewritten(conv[tg[1]][tg[2]], cv2, tg[3], Gone(conv[tg[1]][tg[2]].msgs[tg[3]], task[t].kind)),
             new.oks \in {task[t].oks, task[t].oks \union {tg}}
      PROVE  RecordInv'
  <2> SUFFICES ASSUME NEW c \in Candidates, NEW i \in DOMAIN conv'[c]
               PROVE  Covered(conv', task', c, i)
    BY DEF RecordInv
  <2>1. i \in DOMAIN conv[c] /\ conv'[c][i] = IF c = tg[1] /\ i = tg[2] THEN cv2 ELSE conv[c][i]
    BY <1>6 DEF Replaced
  <2>2. Covered(conv, task, c, i)
    BY <2>1 DEF RecordInv
  <2>3. CASE c = tg[1] /\ i = tg[2]
    <3>1. conv[c][i] \in Conversations /\ conv'[c][i] = cv2
      BY <1>0, <2>1, <2>3, BookFields
    <3>2. Deliveries(cv2) = Deliveries(conv[c][i]) + 1 /\ Sent(cv2) = Sent(conv[c][i])
      BY <1>4, <1>6, <2>3, <3>1, GoneCounts
    <3>3. \A p : p \in Credit(conv', task', c, i) => p \in Credit(conv, task, c, i) \union {<<t, tg[3]>>}
      <4> SUFFICES ASSUME NEW p, p \in Credit(conv', task', c, i)
                   PROVE  p \in Credit(conv, task, c, i) \union {<<t, tg[3]>>}
        OBVIOUS
      <4>1. p \in Tasks \X Nat /\ <<c, i, p[2]>> \in task'[p[1]].oks
        BY <1>0, CreditIs
      <4>2. p[1] \in Tasks /\ p = <<p[1], p[2]>>
        BY <4>1
      <4>3. <<c, i, p[2]>> \in task[p[1]].oks \/ (p[1] = t /\ <<c, i, p[2]>> = tg)
        BY <1>3, <1>6, <4>1, <4>2
      <4>4. <<c, i, p[2]>> = tg => p[2] = tg[3]
        BY <1>4
      <4> QED
        BY <1>0, <2>1, <4>1, <4>2, <4>3, <4>4, CreditIs
    <3>4. IsFiniteSet(Credit(conv, task, c, i)) /\ IsFiniteSet(Credit(conv', task', c, i))
          /\ IsFiniteSet(Sent(conv[c][i]))
      BY <1>0, <2>1, <3>1, CreditIs, SentIs
    <3> DEFINE C == Credit(conv, task, c, i)
               C2 == Credit(conv', task', c, i)
               x == <<t, tg[3]>>
    <3>5. C2 \subseteq C \union {x} /\ IsFiniteSet(C) /\ IsFiniteSet(C2)
      BY <3>3, <3>4
    <3> HIDE DEF C, C2, x
    <3>6. Cardinality(C2) <= Cardinality(C) + 1 /\ Cardinality(C) \in Nat /\ Cardinality(C2) \in Nat
      <4>1. IsFiniteSet(C \union {x}) /\ Cardinality(C \union {x}) <= Cardinality(C) + 1
        <5>1. Cardinality(C) \in Nat
          BY <3>5, FS_CardinalityType
        <5>2. IsFiniteSet(C \union {x})
              /\ Cardinality(C \union {x}) = IF x \in C THEN Cardinality(C) ELSE Cardinality(C) + 1
          BY <3>5, FS_AddElement
        <5> QED
          BY <5>1, <5>2
      <4>2. Cardinality(C2) <= Cardinality(C \union {x})
        BY <3>5, <4>1, FS_Subset
      <4> QED
        BY <3>5, <4>1, <4>2, FS_CardinalityType
    <3>7. Deliveries(conv[c][i]) \in Nat /\ Cardinality(Sent(conv[c][i])) \in Nat
      BY <3>1, <3>4, DeparturesAre, FS_CardinalityType
    <3> QED
      BY <2>2, <3>1, <3>2, <3>6, <3>7 DEF Covered, C, C2
  <2>4. CASE ~(c = tg[1] /\ i = tg[2])
    <3>1. conv'[c][i] = conv[c][i]
      BY <2>1, <2>4
    <3>2. Deliveries(conv'[c][i]) >= Deliveries(conv[c][i])
      BY <1>0, <2>1, <3>1, BookFields, DeparturesAre
    <3>3. \A p : p \in Credit(conv', task', c, i) => p \in Credit(conv, task, c, i)
      <4> SUFFICES ASSUME NEW p, p \in Credit(conv', task', c, i)
                   PROVE  p \in Credit(conv, task, c, i)
        OBVIOUS
      <4>1. p \in Tasks \X Nat /\ <<c, i, p[2]>> \in task'[p[1]].oks
        BY <1>0, CreditIs
      <4>2. p[1] \in Tasks /\ <<c, i, p[2]>> # tg
        BY <1>4, <2>4, <4>1
      <4>3. <<c, i, p[2]>> \in task[p[1]].oks
        BY <1>3, <1>6, <4>1, <4>2
      <4> QED
        BY <1>0, <2>1, <4>1, <4>3, CreditIs
    <3>4. /\ Sent(conv'[c][i]) \subseteq Sent(conv[c][i])
          /\ Credit(conv', task', c, i) \subseteq Credit(conv, task, c, i)
      BY <3>1, <3>3
    <3> QED
      BY <1>0, <2>1, <2>2, <3>2, <3>4, CoveredStays
  <2> QED
    BY <2>3, <2>4
<1> QED
  BY <1>2, <1>5, <1>6 DEF DeliverFacts

(* Whoever marks whichever draft spends the credit of its own deliveries.  *)
LEMMA MarkRecord ==
  ASSUME OutreachInv, OutreachInv', RecordInv, NEW t \in Tasks, Mark(t)
  PROVE  RecordInv'
<1>0. /\ conv \in Book /\ task \in [Tasks -> TaskRecords]
      /\ \A u \in Tasks : TaskValid(conv, task[u])
      /\ conv' \in Book /\ task' \in [Tasks -> TaskRecords] /\ \A u \in Tasks : TaskValid(conv', task'[u])
  BY OutreachState, OutreachNext
<1>1. Grows(conv, conv') /\ Keeps(conv, conv')
  BY MarkForm, MarkKeeps
<1>2. \A u \in Tasks : task'[u].oks = IF u = t THEN {} ELSE task[u].oks
  <2>1. PICK new : Result(t, new) /\ Rests(new)
    BY MarkForm
  <2>2. \A u \in Tasks : task'[u] = IF u = t THEN new ELSE task[u]
    BY <2>1, TaskBecomes
  <2> QED
    BY <2>1, <2>2 DEF Rests
<1> SUFFICES ASSUME NEW c \in Candidates, NEW i \in DOMAIN conv'[c]
             PROVE  Covered(conv', task', c, i)
  BY DEF RecordInv
<1>3. /\ i \in DOMAIN conv[c]
      /\ conv'[c][i] = IF <<c, i>> \in Touched(t) THEN Marks(t, c, i) ELSE conv[c][i]
  BY MarkForm
<1>4. conv[c][i] \in Conversations /\ conv'[c][i] \in Conversations /\ Covered(conv, task, c, i)
  BY <1>0, <1>3, BookFields DEF RecordInv
<1>5. Deliveries(conv'[c][i]) >= Deliveries(conv[c][i])
  <2>1. Deliveries(conv'[c][i]) = Deliveries(conv[c][i])
    BY <1>0, <1>1, <1>3, DeliveriesKept
  <2>2. Deliveries(conv[c][i]) \in Nat
    BY <1>4, DeparturesAre
  <2> QED
    BY <2>1, <2>2
<1>6. \A p : p \in Credit(conv', task', c, i) => p \in Credit(conv, task, c, i) /\ p[1] # t
  <2> SUFFICES ASSUME NEW p, p \in Credit(conv', task', c, i)
               PROVE  p \in Credit(conv, task, c, i) /\ p[1] # t
    OBVIOUS
  <2>1. p \in Tasks \X Nat /\ <<c, i, p[2]>> \in task'[p[1]].oks
    BY <1>0, CreditIs
  <2>2. p[1] \in Tasks /\ p[1] # t /\ <<c, i, p[2]>> \in task[p[1]].oks
    BY <1>2, <2>1
  <2> QED
    BY <1>0, <1>3, <2>1, <2>2, CreditIs
<1>7. CASE <<c, i>> \notin Touched(t)
  <2>1. /\ Sent(conv'[c][i]) \subseteq Sent(conv[c][i])
        /\ Credit(conv', task', c, i) \subseteq Credit(conv, task, c, i)
    BY <1>3, <1>6, <1>7
  <2> QED
    BY <1>0, <1>3, <1>4, <1>5, <2>1, CoveredStays
<1>8. CASE <<c, i>> \in Touched(t) /\ task[t].kind \notin ByMessage
  <2>1. PICK tg \in task[t].oks : <<c, i>> = <<tg[1], tg[2]>>
    BY <1>8 DEF Touched
  <2>2. tg \in Targets /\ tg = <<c, i, tg[3]>> /\ tg[3] \in Nat
    BY <1>0, <2>1 DEF TaskRecords, Targets
  <2> DEFINE last == Latest(Drafted(conv[c][i]))
             p == <<t, tg[3]>>
  <2>3. {p} \in SUBSET Credit(conv, task, c, i)
    BY <1>0, <1>3, <2>1, <2>2, CreditIs
  <2>4. conv'[c][i] = Recorded(conv[c][i])
    BY <1>3, <1>8 DEF Marks
  <2>5. Sent(conv'[c][i]) \subseteq Sent(conv[c][i]) \union {last}
    BY <1>4, <2>4, RecordedIs DEF Relabelled, Sent, Outbound
  <2>6. Credit(conv', task', c, i) \subseteq Credit(conv, task, c, i) \ {p}
    BY <1>6
  <2>7. IsFiniteSet({last}) /\ Cardinality({last}) <= Cardinality({p})
    <3>1. IsFiniteSet({last}) /\ Cardinality({last}) = 1 /\ Cardinality({p}) = 1
      BY FS_Singleton
    <3> QED
      BY <3>1
  <2> HIDE DEF last, p
  <2> QED
    BY <1>0, <1>3, <1>4, <1>5, <2>3, <2>5, <2>6, <2>7, CoveredMoves
<1>9. CASE <<c, i>> \in Touched(t) /\ task[t].kind \in ByMessage
  <2> DEFINE E == OksOf(t, <<c, i>>, conv[c][i])
             R == {t} \X E
  <2>1. E \subseteq DOMAIN conv[c][i].msgs /\ \A k \in E : <<c, i, k>> \in task[t].oks /\ k \in Nat
    BY <1>4, ConversationFields DEF OksOf
  <2>2. R \in SUBSET Credit(conv, task, c, i)
    <3>1. \A p \in R : p \in Tasks \X Nat /\ <<c, i, p[2]>> \in task[p[1]].oks
      BY <2>1
    <3> HIDE DEF R
    <3> QED
      BY <1>0, <1>3, <3>1, CreditIs
  <2>3. conv'[c][i] = RecordedById(t, <<c, i>>, conv[c][i])
    BY <1>3, <1>9 DEF Marks
  <2>4. Sent(conv'[c][i]) \subseteq Sent(conv[c][i]) \union E
    BY <1>4, <2>3, RecordedByIdIs DEF Relabelled, Sent, Outbound
  <2>5. Credit(conv', task', c, i) \subseteq Credit(conv, task, c, i) \ R
    <3>1. \A p \in R : p[1] = t
      OBVIOUS
    <3> HIDE DEF R
    <3> QED
      BY <1>6, <3>1
  <2>6. IsFiniteSet(E)
    <3>1. DOMAIN conv[c][i].msgs = 1..Len(conv[c][i].msgs) /\ Len(conv[c][i].msgs) \in Nat
      BY <1>4, ConversationFields
    <3>2. IsFiniteSet(DOMAIN conv[c][i].msgs)
      BY <3>1, UpToFinite
    <3> HIDE DEF E
    <3> QED
      BY <2>1, <3>2, FS_Subset
  <2>7. Cardinality(E) <= Cardinality(R)
    <3> HIDE DEF E
    <3>1. IsFiniteSet({t}) /\ Cardinality({t}) = 1
      BY FS_Singleton
    <3>2. Cardinality(R) = Cardinality({t}) * Cardinality(E)
      BY <2>6, <3>1, FS_Product
    <3>3. Cardinality(E) \in Nat
      BY <2>6, FS_CardinalityType
    <3> QED
      BY <3>1, <3>2, <3>3
  <2> HIDE DEF E, R
  <2> QED
    BY <1>0, <1>3, <1>4, <1>5, <2>2, <2>4, <2>5, <2>6, <2>7, CoveredMoves
<1> QED
  BY <1>7, <1>8, <1>9

(* Every step keeps the record covered.                                    *)
LEMMA RecordSteps ==
  OutreachInv /\ OutreachInv' /\ RecordInv /\ [Next]_vars => RecordInv'
<1> SUFFICES ASSUME OutreachInv, OutreachInv', RecordInv, [Next]_vars
             PROVE  RecordInv'
  OBVIOUS
<1>0. /\ conv \in Book /\ task \in [Tasks -> TaskRecords]
      /\ \A t \in Tasks : task[t] \in TaskRecords /\ TaskFits(task[t]) /\ TaskValid(conv, task[t])
      /\ conv' \in Book /\ task' \in [Tasks -> TaskRecords] /\ \A u \in Tasks : TaskValid(conv', task'[u])
  BY OutreachState, OutreachNext
<1>1. ASSUME NEW t \in Tasks, Read(t)
      PROVE  RecordInv'
  BY <1>1, ReadForm, RecordTask DEF ReadFacts
<1>2. ASSUME NEW t \in Tasks, Acquire(t)
      PROVE  RecordInv'
  BY <1>2, AcquireForm, RecordTask DEF AcquireFacts
<1>3. ASSUME NEW t \in Tasks, Prepare(t)
      PROVE  RecordInv'
  BY <1>3, PrepareForm, RecordTask DEF PrepareFacts
<1>4. ASSUME NEW t \in Tasks, Save(t)
      PROVE  RecordInv'
  <2>1. Grows(conv, conv') /\ Keeps(conv, conv')
    BY <1>4, SaveForm, SaveKeeps
  <2>2. PICK c \in Candidates, i \in Nat, d \in Decisions \union {"answer"}, k \in Nat :
             \E new : SaveFacts(t, new, c, i, d, k)
    BY <1>4, SaveForm
  <2>3. PICK new : SaveFacts(t, new, c, i, d, k)
    BY <2>2
  <2>4. \A u \in Tasks : task'[u].oks \subseteq task[u].oks
    BY <2>3, TaskBecomes DEF SaveFacts
  <2>5. NoneSent(conv, conv')
    BY <1>4, SaveNoneSent
  <2> QED
    BY <2>1, <2>4, <2>5, RecordKept
<1>5. ASSUME NEW t \in Tasks, Prepared(t)
      PROVE  RecordInv'
  BY <1>5, PreparedForm, RecordTask DEF PreparedFacts, Rests
<1>6. ASSUME NEW t \in Tasks, Deliver(t)
      PROVE  RecordInv'
  BY <1>6, DeliverRecord
<1>7. ASSUME NEW t \in Tasks, Mark(t)
      PROVE  RecordInv'
  BY <1>7, MarkRecord
<1>8. ASSUME NEW t \in Tasks, Store(t)
      PROVE  RecordInv'
  <2>1. Grows(conv, conv') /\ Keeps(conv, conv')
    BY <1>8, StoreForm, StoreKeeps
  <2>2. \A u \in Tasks : task'[u].oks \subseteq task[u].oks
    BY <1>8, StoreForm, TaskBecomes DEF Rests
  <2>3. NoneSent(conv, conv')
    BY <1>8, StoreNoneSent
  <2> QED
    BY <2>1, <2>2, <2>3, RecordKept
<1>9. ASSUME NEW t \in Tasks, NextOutreach(t)
      PROVE  RecordInv'
  BY <1>9, NextOutreachForm, RecordTask DEF NextFacts
<1>10. ASSUME NEW t \in Tasks, Request(t)
       PROVE  RecordInv'
  <2>1. conv' = conv
    BY <1>10, RequestForm
  <2>2. CASE UNCHANGED <<task, hrActed>>
    BY <2>1, <2>2 DEF RecordInv
  <2>3. CASE \E new : RequestFacts(t, new)
    BY <2>1, <2>3, RecordTask DEF RequestFacts
  <2> QED
    BY <1>10, <2>2, <2>3, RequestForm
<1>11. ASSUME NEW t \in Tasks, Abort(t)
       PROVE  RecordInv'
  BY <1>11, AbortForm, RecordTask, IdleFields DEF Rests
<1>12. ASSUME Edit
       PROVE  RecordInv'
  <2>1. Grows(conv, conv') /\ Keeps(conv, conv') /\ task' = task
    BY <1>12, EditForm, EditKeeps
  <2>2. NoneSent(conv, conv')
    BY <1>12, EditNoneSent
  <2> QED
    BY <2>1, <2>2, RecordKept
<1>13. ASSUME SetReview
       PROVE  RecordInv'
  BY <1>13 DEF SetReview, data, RecordInv
<1>14. CASE UNCHANGED vars
  BY <1>14 DEF vars, data, RecordInv
<1> QED
  BY <1>1, <1>2, <1>3, <1>4, <1>5, <1>6, <1>7, <1>8, <1>9, <1>10, <1>11, <1>12, <1>13, <1>14
  DEF Next, TaskStep

(* The record never claims more than what left: what a sender has seen     *)
(* leave is credit until it is recorded or the sender ends.                *)
THEOREM RecordIsCovered == Spec => []NeverOverstated
<1>1. Init => RecordInv
  BY DEF Init, RecordInv
<1>2. OutreachInv /\ RecordInv => NeverOverstated
  <2> SUFFICES ASSUME OutreachInv, RecordInv, NEW id \in ConvIds
               PROVE  Cardinality(Sent(ConvOf(id))) <= Deliveries(ConvOf(id))
    BY DEF NeverOverstated
  <2> DEFINE c == id[1]
             i == id[2]
  <2>1. c \in Candidates /\ i \in DOMAIN conv[c] /\ ConvOf(id) = conv[c][i]
    BY ConvIdIs DEF ConvOf
  <2> HIDE DEF c, i
  <2>2. conv[c][i] \in Conversations /\ Covered(conv, task, c, i)
    BY <2>1, OutreachState, BookFields DEF RecordInv
  <2>3. IsFiniteSet(Sent(conv[c][i])) /\ IsFiniteSet(Credit(conv, task, c, i))
    BY <2>1, <2>2, OutreachState, SentIs, CreditIs
  <2>4. /\ Cardinality(Sent(conv[c][i])) \in Nat /\ Cardinality(Credit(conv, task, c, i)) \in Nat
        /\ Deliveries(conv[c][i]) \in Nat
    BY <2>2, <2>3, FS_CardinalityType, DeparturesAre
  <2> QED
    BY <2>1, <2>2, <2>4 DEF Covered
<1> QED
  BY <1>1, <1>2, OutreachHolds, RecordSteps, PTL DEF Spec

-----------------------------------------------------------------------------
(* The automation alone                                                    *)

(* Outreach that is written and has not been seen to leave.                *)
Open(cv) == {k \in Pending(cv) : cv.msgs[k].by = "outreach"}

(* One conversation with one open message at most, which no send has       *)
(* failed: only senders of single messages record a failure.               *)
Tidy(cs) ==
  \A c \in Candidates :
    /\ Len(cs[c]) <= 1
    /\ \A i \in DOMAIN cs[c] : /\ \A j, k \in Open(cs[c][i]) : j = k
                               /\ \A k \in Open(cs[c][i]) : cs[c][i].msgs[k].st = "drafted"

Answering(cs, tg) == Exists(cs, tg) /\ cs[tg[1]][tg[2]].msgs[tg[3]].by = "dialogue"

(* Only tasks of the automation are about; outreach is prepared and sent   *)
(* under the lock, and planned where none is open; the dialogue sends and  *)
(* records its own messages only.                                          *)
Alone(cs, lock, t, tk) ==
  /\ tk.kind \in {"none", "sync"} \union Automatic
  /\ tk.kind \in Locked /\ tk.pc \in {"prep", "send"} => lock = t
  /\ tk.kind \in Locked /\ tk.plan # <<>> =>
       /\ tk.plan[2] = Len(cs[tk.plan[1]])
       /\ \A i \in DOMAIN cs[tk.plan[1]] : Open(cs[tk.plan[1]][i]) = {}
  /\ tk.kind = "dialogue" =>
       \A tg \in tk.left \union tk.oks \union tk.queue : Answering(cs, tg)

AutoInv ==
  ~hrActed => Tidy(conv) /\ \A t \in Tasks : Alone(conv, imLock, t, task[t])

(* No outreach is opened.                                                  *)
Calm(cs, cs2) ==
  \A c \in Candidates :
    /\ DOMAIN cs2[c] = DOMAIN cs[c]
    /\ \A i \in DOMAIN cs[c] :
         /\ Open(cs2[c][i]) \subseteq Open(cs[c][i])
         /\ \A k \in Open(cs2[c][i]) : cs2[c][i].msgs[k].st = cs[c][i].msgs[k].st

(* As many places, as long a list.                                         *)
LEMMA SameLength ==
  ASSUME NEW cs \in Book, NEW cs2 \in Book, NEW c \in Candidates, DOMAIN cs2[c] = DOMAIN cs[c]
  PROVE  Len(cs2[c]) = Len(cs[c])
<1>1. /\ DOMAIN cs[c] = 1..Len(cs[c]) /\ Len(cs[c]) \in Nat
      /\ DOMAIN cs2[c] = 1..Len(cs2[c]) /\ Len(cs2[c]) \in Nat
  BY BookFields
<1>2. \A m, n \in Nat : 1..m = 1..n => m = n
  <2> SUFFICES ASSUME NEW m \in Nat, NEW n \in Nat, \A x : x \in 1..m <=> x \in 1..n
               PROVE  m = n
    BY Zenon
  <2>1. m # 0 => m <= n
    <3>1. m # 0 => m \in 1..m
      OBVIOUS
    <3> QED
      BY <3>1
  <2>2. n # 0 => n <= m
    <3>1. n # 0 => n \in 1..n
      OBVIOUS
    <3> QED
      BY <3>1
  <2> QED
    BY <2>1, <2>2
<1> QED
  BY <1>1, <1>2

(* An answer stays an answer.                                              *)
LEMMA AnsweringStays ==
  ASSUME NEW cs, NEW cs2, Grows(cs, cs2), NEW tg \in Targets, Answering(cs, tg)
  PROVE  Answering(cs2, tg)
<1>1. tg[1] \in Candidates
  BY DEF Targets
<1> QED
  BY <1>1 DEF Grows, Answering, Exists

(* What a task holds to itself it keeps while the others step.             *)
LEMMA AloneStays ==
  ASSUME NEW cs \in Book, NEW cs2 \in Book, Grows(cs, cs2), Calm(cs, cs2),
         NEW tk \in TaskRecords, TaskFits(tk), NEW u \in Tasks, NEW lock, NEW lock2,
         lock = u => lock2 = u, Alone(cs, lock, u, tk)
  PROVE  Alone(cs2, lock2, u, tk)
<1>1. ASSUME tk.kind \in Locked, tk.plan # <<>>
      PROVE  /\ tk.plan[2] = Len(cs2[tk.plan[1]])
             /\ \A i \in DOMAIN cs2[tk.plan[1]] : Open(cs2[tk.plan[1]][i]) = {}
  <2>1. tk.plan[1] \in Candidates
    BY <1>1 DEF TaskRecords, Plans
  <2>2. Len(cs2[tk.plan[1]]) = Len(cs[tk.plan[1]])
    BY <2>1, SameLength DEF Calm
  <2> QED
    BY <1>1, <2>1, <2>2 DEF Alone, Calm
<1>2. ASSUME tk.kind = "dialogue", NEW tg \in tk.left \union tk.oks \union tk.queue
      PROVE  Answering(cs2, tg)
  <2>1. tg \in Targets
    BY <1>2 DEF TaskRecords, TaskFits, ByMessage
  <2> QED
    BY <1>2, <2>1, AnsweringStays DEF Alone
<1> QED
  BY <1>1, <1>2 DEF Alone

(* No outreach is opened: the one that was open is alone still.            *)
LEMMA TidyStays ==
  ASSUME NEW cs \in Book, NEW cs2 \in Book, Calm(cs, cs2), Tidy(cs)
  PROVE  Tidy(cs2)
<1> SUFFICES ASSUME NEW c \in Candidates
             PROVE  /\ Len(cs2[c]) <= 1
                    /\ \A i \in DOMAIN cs2[c] : /\ \A j, k \in Open(cs2[c][i]) : j = k
                                                /\ \A k \in Open(cs2[c][i]) : cs2[c][i].msgs[k].st = "drafted"
  BY DEF Tidy
<1>1. Len(cs2[c]) <= 1
  BY SameLength DEF Calm, Tidy
<1>2. ASSUME NEW i \in DOMAIN cs2[c]
      PROVE  /\ \A j, k \in Open(cs2[c][i]) : j = k
             /\ \A k \in Open(cs2[c][i]) : cs2[c][i].msgs[k].st = "drafted"
  <2>1. /\ i \in DOMAIN cs[c] /\ Open(cs2[c][i]) \subseteq Open(cs[c][i])
        /\ \A k \in Open(cs2[c][i]) : cs2[c][i].msgs[k].st = cs[c][i].msgs[k].st
    BY DEF Calm
  <2>2. /\ \A j, k \in Open(cs[c][i]) : j = k
        /\ \A k \in Open(cs[c][i]) : cs[c][i].msgs[k].st = "drafted"
    BY <2>1 DEF Tidy
  <2> QED
    BY <2>1, <2>2
<1> QED
  BY <1>1, <1>2

(* A step of the automation that is of the right form keeps it alone.      *)
LEMMA AutoKept ==
  ASSUME OutreachInv, AutoInv, ~hrActed, conv' \in Book, Grows(conv, conv'), Calm(conv, conv'),
         NEW t \in Tasks, NEW new, Result(t, new), Alone(conv', imLock', t, new),
         imLock' = imLock \/ imLock \in {t, nobody}
  PROVE  AutoInv'
<1>1. conv \in Book /\ \A u \in Tasks : task[u] \in TaskRecords /\ TaskFits(task[u])
  BY OutreachState
<1>2. Tidy(conv) /\ \A u \in Tasks : Alone(conv, imLock, u, task[u])
  BY DEF AutoInv
<1>3. Tidy(conv')
  BY <1>1, <1>2, TidyStays
<1>4. ASSUME NEW u \in Tasks
      PROVE  Alone(conv', imLock', u, task'[u])
  <2>1. CASE u = t
    BY <2>1, TaskBecomes
  <2>2. CASE u # t
    <3>1. task'[u] = task[u] /\ (imLock = u => imLock' = u)
      BY <2>2, TaskBecomes, TasksAssumption
    <3>2. Alone(conv, imLock, u, task[u])
      BY <1>2
    <3> QED
      BY <1>1, <3>1, <3>2, AloneStays
  <2> QED
    BY <2>1, <2>2
<1> QED
  BY <1>3, <1>4 DEF AutoInv

(* A task that holds nothing disturbs nobody.                              *)
LEMMA RestsAlone ==
  ASSUME NEW tk, Rests(tk), tk = Idle \/ Ended(tk), NEW cs, NEW lock, NEW t
  PROVE  Alone(cs, lock, t, tk)
  BY IdleFields DEF Rests, Ended, Alone, Automatic, Locked

(* Rows that stay open nothing.                                            *)
LEMMA SameIsCalm ==
  ASSUME OutreachInv, conv' = conv
  PROVE  conv' \in Book /\ Grows(conv, conv') /\ Calm(conv, conv')
  BY OutreachState DEF Calm

(* Neither does a conversation that is replaced by one with no more open.  *)
LEMMA ReplacedCalm ==
  ASSUME NEW cs \in Book, NEW cs2, NEW c \in Candidates, NEW i \in DOMAIN cs[c], NEW cv,
         Replaced(cs, cs2, c, i, cv), Open(cv) \subseteq Open(cs[c][i]),
         \A k \in Open(cv) : cv.msgs[k].st = cs[c][i].msgs[k].st
  PROVE  Calm(cs, cs2)
<1> SUFFICES ASSUME NEW d \in Candidates, NEW j \in DOMAIN cs[d]
             PROVE  /\ Open(cs2[d][j]) \subseteq Open(cs[d][j])
                    /\ \A k \in Open(cs2[d][j]) : cs2[d][j].msgs[k].st = cs[d][j].msgs[k].st
  BY DEF Calm, Replaced
<1>1. cs2[d][j] = IF d = c /\ j = i THEN cv ELSE cs[d][j]
  BY DEF Replaced
<1> QED
  BY <1>1

(* A delivery of the automation keeps it alone,                            *)
LEMMA DeliverAuto ==
  ASSUME OutreachInv, AutoInv, NEW t \in Tasks, Deliver(t), ~hrActed'
  PROVE  AutoInv'
<1>0. /\ conv \in Book /\ \A u \in Tasks : task[u] \in TaskRecords /\ TaskFits(task[u]) /\ TaskValid(conv, task[u])
  BY OutreachState
<1>1. PICK tg \in task[t].left : \E new : DeliverFacts(t, tg, new)
  BY DeliverForm
<1>2. PICK new : DeliverFacts(t, tg, new)
  BY <1>1
<1>3. ~hrActed /\ imLock' = imLock /\ task[t].pc = "send" /\ conv' \in Book /\ Grows(conv, conv')
  BY DeliverForm
<1>4. Alone(conv, imLock, t, task[t])
  BY <1>3 DEF AutoInv
<1>5. /\ tg[1] \in Candidates /\ tg[2] \in DOMAIN conv[tg[1]]
      /\ tg[3] \in DOMAIN conv[tg[1]][tg[2]].msgs
  BY <1>0 DEF TaskValid, Exists, TaskRecords, Targets
<1>6. Calm(conv, conv')
  <2>1. CASE conv' = conv
    BY <2>1, SameIsCalm
  <2>2. CASE conv' # conv
    <3> DEFINE cv == conv[tg[1]][tg[2]]
               m == cv.msgs[tg[3]]
    <3>1. PICK cv2 \in Conversations : /\ Replaced(conv, conv', tg[1], tg[2], cv2)
                                       /\ Rewritten(cv, cv2, tg[3], Gone(m, task[t].kind))
      BY <1>2, <2>2 DEF DeliverFacts
    <3>2. m \in Messages
      BY <1>0, <1>5, BookFields, ConversationFields
    <3>3. Gone(m, task[t].kind).by = m.by /\ Gone(m, task[t].kind).st = m.st
      BY <3>2, GoneFields
    <3>4. DOMAIN cv2.msgs = DOMAIN cv.msgs
          /\ \A k \in DOMAIN cv.msgs : cv2.msgs[k].by = cv.msgs[k].by /\ cv2.msgs[k].st = cv.msgs[k].st
      <4> HIDE DEF cv
      <4> QED
        BY <3>1, <3>3 DEF Rewritten
    <3>5. Open(cv2) \subseteq Open(cv) /\ \A k \in Open(cv2) : cv2.msgs[k].st = cv.msgs[k].st
      <4> HIDE DEF cv
      <4> QED
        BY <3>4 DEF Open, Pending, Outbound
    <3> QED
      BY <1>0, <1>5, <3>1, <3>5, ReplacedCalm
  <2> QED
    BY <2>1, <2>2
<1>7. Alone(conv, imLock, t, new)
  <2>1. /\ new.kind = task[t].kind /\ new.pc = "send" /\ new.plan = <<>>
        /\ new.left \union new.oks \union new.queue
             \subseteq task[t].left \union task[t].oks \union task[t].queue
    BY <1>2 DEF DeliverFacts, SameTask
  <2> QED
    BY <1>3, <1>4, <2>1 DEF Alone
<1>8. Alone(conv', imLock', t, new)
  <2>1. new \in TaskRecords /\ TaskFits(new)
    BY <1>2, TaskBecomes DEF DeliverFacts
  <2> QED
    BY <1>0, <1>3, <1>6, <1>7, <2>1, AloneStays
<1> QED
  BY <1>2, <1>3, <1>6, <1>8, AutoKept DEF DeliverFacts

(* so does its record,                                                     *)
LEMMA MarkAuto ==
  ASSUME OutreachInv, AutoInv, NEW t \in Tasks, Mark(t), ~hrActed'
  PROVE  AutoInv'
<1>0. conv \in Book /\ task[t] \in TaskRecords
  BY OutreachState
<1>1. PICK new : Result(t, new) /\ Rests(new) /\ (new = Idle \/ Ended(new))
  BY MarkForm
<1>2. ~hrActed /\ (imLock' = imLock \/ imLock = t) /\ conv' \in Book /\ Grows(conv, conv')
  BY MarkForm DEF hist, Frees
<1>3. Alone(conv, imLock, t, task[t])
  BY <1>2 DEF AutoInv
<1>4. ASSUME NEW c \in Candidates, NEW i \in DOMAIN conv[c]
      PROVE  /\ Open(conv'[c][i]) \subseteq Open(conv[c][i])
             /\ \A k \in Open(conv'[c][i]) : conv'[c][i].msgs[k].st = conv[c][i].msgs[k].st
  <2>1. conv'[c][i] = IF <<c, i>> \in Touched(t) THEN Marks(t, c, i) ELSE conv[c][i]
    BY MarkForm
  <2>2. conv[c][i] \in Conversations
    BY <1>0, BookFields
  <2>3. CASE <<c, i>> \notin Touched(t)
    BY <2>1, <2>3
  <2>4. CASE <<c, i>> \in Touched(t) /\ task[t].kind \notin ByMessage
    <3>1. conv'[c][i] = Recorded(conv[c][i])
      BY <2>1, <2>4 DEF Marks
    <3>2. /\ DOMAIN conv'[c][i].msgs = DOMAIN conv[c][i].msgs
          /\ \A k \in DOMAIN conv[c][i].msgs :
               /\ conv'[c][i].msgs[k].by = conv[c][i].msgs[k].by
               /\ conv'[c][i].msgs[k].st \in {"sent", conv[c][i].msgs[k].st}
      BY <2>2, <3>1, RecordedIs DEF Relabelled
    <3> QED
      BY <3>2 DEF Open, Pending, Outbound
  <2>5. CASE <<c, i>> \in Touched(t) /\ task[t].kind \in ByMessage
    <3>1. conv'[c][i] = RecordedById(t, <<c, i>>, conv[c][i])
      BY <2>1, <2>5 DEF Marks
    <3>2. /\ DOMAIN conv'[c][i].msgs = DOMAIN conv[c][i].msgs
          /\ \A k \in DOMAIN conv[c][i].msgs :
               /\ conv'[c][i].msgs[k].by = conv[c][i].msgs[k].by
               /\ \/ k \in OksOf(t, <<c, i>>, conv[c][i]) \union BadOf(t, <<c, i>>, conv[c][i])
                  \/ conv'[c][i].msgs[k].st = conv[c][i].msgs[k].st
      BY <2>2, <3>1, RecordedByIdIs DEF Relabelled
    <3>3. task[t].kind = "dialogue"
      BY <1>3, <2>5 DEF Alone, ByMessage, Automatic
    <3>4. \A k \in OksOf(t, <<c, i>>, conv[c][i]) \union BadOf(t, <<c, i>>, conv[c][i]) :
            conv[c][i].msgs[k].by = "dialogue"
      <4>1. \A k : <<c, i, k>> \in task[t].oks \union task[t].queue => conv[c][i].msgs[k].by = "dialogue"
        BY <1>3, <3>3 DEF Alone, Answering
      <4> QED
        BY <4>1 DEF OksOf, BadOf
    <3> QED
      BY <3>2, <3>4 DEF Open, Pending, Outbound
  <2> QED
    BY <2>3, <2>4, <2>5
<1>5. Calm(conv, conv')
  BY <1>4, MarkForm DEF Calm
<1> QED
  BY <1>1, <1>2, <1>5, RestsAlone, AutoKept

(* and so does a reply that is stored.                                     *)
LEMMA StoreAuto ==
  ASSUME OutreachInv, AutoInv, NEW t \in Tasks, Store(t), ~hrActed'
  PROVE  AutoInv'
<1>0. conv \in Book
  BY OutreachState
<1>1. PICK new : Result(t, new) /\ Rests(new) /\ (new = Idle \/ Ended(new))
  BY StoreForm
<1>2. ~hrActed /\ imLock' = imLock /\ conv' \in Book /\ Grows(conv, conv')
  BY StoreForm DEF hist
<1>3. ASSUME NEW c \in Candidates, NEW i \in DOMAIN conv[c]
      PROVE  /\ Open(conv'[c][i]) \subseteq Open(conv[c][i])
             /\ \A k \in Open(conv'[c][i]) : conv'[c][i].msgs[k].st = conv[c][i].msgs[k].st
  <2>1. CASE conv'[c] = conv[c]
    BY <2>1
  <2>2. CASE /\ 1 \in DOMAIN conv[c] /\ DOMAIN conv[c] = {1}
             /\ conv'[c][1].msgs = Append(conv[c][1].msgs, Reply)
    <3>1. conv[c][1] \in Conversations /\ i = 1
      BY <1>0, <2>2, BookFields
    <3>2. Reply \in Messages /\ Reply.by = "candidate"
      BY DEF Reply, Messages
    <3>3. \A k \in DOMAIN conv'[c][1].msgs : conv'[c][1].msgs[k].by # "candidate" =>
            k \in DOMAIN conv[c][1].msgs /\ conv'[c][1].msgs[k] = conv[c][1].msgs[k]
      BY <2>2, <3>1, <3>2, MessageAdd
    <3> QED
      BY <3>1, <3>3 DEF Open, Pending, Outbound
  <2> QED
    BY <2>1, <2>2, StoreForm
<1>4. Calm(conv, conv')
  BY <1>3, StoreForm DEF Calm
<1> QED
  BY <1>1, <1>2, <1>4, RestsAlone, AutoKept

(* The dialogue adds an answer, or finds that none is called for.          *)
LEMMA SaveAnswer ==
  ASSUME OutreachInv, AutoInv, NEW t \in Tasks, Save(t), ~hrActed', task[t].kind = "dialogue"
  PROVE  AutoInv'
<1>0. conv \in Book /\ task[t] \in TaskRecords /\ TaskFits(task[t])
  BY OutreachState
<1>1. PICK c \in Candidates, i \in Nat, d \in Decisions \union {"answer"}, k \in Nat :
           /\ task[t].plan = <<c, i, d, k>> /\ (d = "answer" <=> task[t].kind \in Answers)
           /\ \E new : SaveFacts(t, new, c, i, d, k)
  BY SaveForm
<1>2. PICK new : SaveFacts(t, new, c, i, d, k)
  BY <1>1
<1>3. ~hrActed /\ imLock' = imLock /\ conv' \in Book /\ Grows(conv, conv') /\ task[t].pc = "prep"
  BY SaveForm DEF hist
<1>4. Alone(conv, imLock, t, task[t]) /\ d = "answer"
  BY <1>1, <1>3 DEF AutoInv, Answers
<1>5. /\ new.kind = "dialogue" /\ new.queue = task[t].queue /\ new.oks = task[t].oks
  BY <1>2 DEF SaveFacts, SameTask
<1>6. \A tg \in task[t].left \union task[t].oks \union task[t].queue : Answering(conv', tg)
  <2> SUFFICES ASSUME NEW tg \in task[t].left \union task[t].oks \union task[t].queue
               PROVE  Answering(conv', tg)
    OBVIOUS
  <2>1. tg \in Targets /\ Answering(conv, tg)
    BY <1>0, <1>4 DEF TaskRecords, TaskFits, ByMessage, Alone
  <2> QED
    BY <1>3, <2>1, AnsweringStays
<1>7. CASE \E cv2 \in Conversations : /\ i \in DOMAIN conv[c] /\ new.left = task[t].left
                                      /\ Replaced(conv, conv', c, i, cv2) /\ cv2.msgs = conv[c][i].msgs
  <2>1. PICK cv2 \in Conversations : /\ i \in DOMAIN conv[c] /\ new.left = task[t].left
                                     /\ Replaced(conv, conv', c, i, cv2) /\ cv2.msgs = conv[c][i].msgs
    BY <1>7
  <2>2. Open(cv2) = Open(conv[c][i])
    BY <2>1 DEF Open, Pending, Outbound
  <2>3. Calm(conv, conv')
    BY <1>0, <2>1, <2>2, ReplacedCalm
  <2>4. Alone(conv', imLock', t, new)
    BY <1>5, <1>6, <2>1 DEF Alone, Automatic, Locked
  <2> QED
    BY <1>2, <1>3, <2>3, <2>4, AutoKept DEF SaveFacts
<1>8. CASE \E free \in BOOLEAN, cv2 \in Conversations :
             /\ i \in DOMAIN conv[c] /\ Replaced(conv, conv', c, i, cv2)
             /\ cv2.msgs = Append(conv[c][i].msgs, Draft(d, k, free))
             /\ new.left = IF Sends(task[t], free)
                             THEN task[t].left \union {<<c, i, Len(conv[c][i].msgs) + 1>>} ELSE task[t].left
  <2>1. PICK free \in BOOLEAN, cv2 \in Conversations :
             /\ i \in DOMAIN conv[c] /\ Replaced(conv, conv', c, i, cv2)
             /\ cv2.msgs = Append(conv[c][i].msgs, Draft(d, k, free))
             /\ new.left = IF Sends(task[t], free)
                             THEN task[t].left \union {<<c, i, Len(conv[c][i].msgs) + 1>>} ELSE task[t].left
    BY <1>8
  <2>2. /\ conv[c][i] \in Conversations /\ Draft(d, k, free) \in Messages /\ Draft(d, k, free).by = "dialogue"
    BY <1>0, <1>4, <2>1, BookFields, DraftFields
  <2> DEFINE n == Len(conv[c][i].msgs) + 1
  <2>3. /\ n \in DOMAIN cv2.msgs /\ cv2.msgs[n].by = "dialogue"
        /\ \A j \in DOMAIN cv2.msgs : j # n => j \in DOMAIN conv[c][i].msgs /\ cv2.msgs[j] = conv[c][i].msgs[j]
    BY <2>1, <2>2, MessageAdd
  <2> HIDE DEF n
  <2>4. Open(cv2) \subseteq Open(conv[c][i]) /\ \A j \in Open(cv2) : cv2.msgs[j].st = conv[c][i].msgs[j].st
    BY <2>3 DEF Open, Pending, Outbound
  <2>5. Calm(conv, conv')
    <3>1. conv \in Book /\ i \in DOMAIN conv[c] /\ Replaced(conv, conv', c, i, cv2)
      BY <1>0, <2>1
    <3> QED
      BY <2>4, <3>1, ReplacedCalm
  <2>6. Answering(conv', <<c, i, n>>)
    BY <2>1, <2>3 DEF Answering, Exists, Replaced
  <2>7. new.left \subseteq task[t].left \union {<<c, i, n>>}
    BY <2>1 DEF n
  <2>8. Alone(conv', imLock', t, new)
    BY <1>5, <1>6, <2>6, <2>7 DEF Alone, Automatic, Locked
  <2> QED
    BY <1>2, <1>3, <2>5, <2>8, AutoKept DEF SaveFacts
<1> QED
  BY <1>2, <1>4, <1>7, <1>8 DEF SaveFacts

(* A holder of the lock adds the one open message.                         *)
LEMMA SaveOutreach ==
  ASSUME OutreachInv, AutoInv, NEW t \in Tasks, Save(t), ~hrActed', task[t].kind \in Locked
  PROVE  AutoInv'
<1>0. conv \in Book /\ \A u \in Tasks : task[u] \in TaskRecords /\ TaskFits(task[u])
  BY OutreachState
<1>1. PICK c \in Candidates, i \in Nat, d \in Decisions \union {"answer"}, k \in Nat :
           /\ task[t].plan = <<c, i, d, k>> /\ (d = "answer" <=> task[t].kind \in Answers)
           /\ \E new : SaveFacts(t, new, c, i, d, k)
  BY SaveForm
<1>2. PICK new : SaveFacts(t, new, c, i, d, k)
  BY <1>1
<1>3. ~hrActed /\ imLock' = imLock /\ conv' \in Book /\ Grows(conv, conv') /\ task[t].pc = "prep"
  BY SaveForm DEF hist
<1>4. Tidy(conv) /\ \A u \in Tasks : Alone(conv, imLock, u, task[u])
  BY <1>3 DEF AutoInv
<1>5. /\ task[t].kind \notin Answers /\ d # "answer" /\ imLock = t /\ i = Len(conv[c])
      /\ \A j \in DOMAIN conv[c] : Open(conv[c][j]) = {}
  <2>1. task[t].kind \notin Answers
    BY DEF Locked, Answers
  <2>2. task[t].plan # <<>> /\ task[t].plan[1] = c /\ task[t].plan[2] = i
    BY <1>1
  <2>3. Alone(conv, imLock, t, task[t])
    BY <1>4
  <2> QED
    BY <1>1, <1>3, <2>1, <2>2, <2>3 DEF Alone
<1>6. \A u \in Tasks : task'[u] = IF u = t THEN new ELSE task[u]
  BY <1>2, TaskBecomes DEF SaveFacts
<1>7. ASSUME NEW u \in Tasks
      PROVE  Alone(conv', imLock', u, task'[u])
  <2>1. CASE u = t
    <3>1. new.kind = task[t].kind /\ new.plan = <<>> /\ task'[u] = new
      BY <1>2, <1>6, <2>1 DEF SaveFacts, SameTask
    <3> QED
      BY <1>3, <1>5, <2>1, <3>1 DEF Alone, Automatic, Locked
  <2>2. CASE u # t
    <3>1. task'[u] = task[u] /\ Alone(conv, imLock, u, task[u])
      BY <1>4, <1>6, <2>2
    <3>2. task[u].kind \in Locked => task[u].plan = <<>>
      BY <1>0, <1>5, <2>2, <3>1 DEF Alone, TaskFits
    <3>3. task[u].kind = "dialogue" =>
            \A tg \in task[u].left \union task[u].oks \union task[u].queue : Answering(conv', tg)
      <4> SUFFICES ASSUME task[u].kind = "dialogue",
                          NEW tg \in task[u].left \union task[u].oks \union task[u].queue
                   PROVE  Answering(conv', tg)
        OBVIOUS
      <4>1. tg \in Targets /\ Answering(conv, tg)
        BY <1>0, <3>1 DEF TaskRecords, TaskFits, ByMessage, Alone
      <4> QED
        BY <1>3, <4>1, AnsweringStays
    <3> QED
      BY <1>3, <3>1, <3>2, <3>3 DEF Alone
  <2> QED
    BY <2>1, <2>2
<1>8. ASSUME NEW free \in BOOLEAN
      PROVE  Draft(d, k, free) \in Messages /\ Draft(d, k, free).st = "drafted"
  BY DraftFields
<1>9. CASE \E free \in BOOLEAN, cv2 \in Conversations :
             /\ i \in DOMAIN conv[c] /\ Replaced(conv, conv', c, i, cv2)
             /\ cv2.msgs = Append(conv[c][i].msgs, Draft(d, k, free))
  <2>1. PICK free \in BOOLEAN, cv2 \in Conversations :
             /\ i \in DOMAIN conv[c] /\ Replaced(conv, conv', c, i, cv2)
             /\ cv2.msgs = Append(conv[c][i].msgs, Draft(d, k, free))
    BY <1>9
  <2>2. conv[c][i] \in Conversations /\ Open(conv[c][i]) = {}
    BY <1>0, <1>5, <2>1, BookFields
  <2> DEFINE n == Len(conv[c][i].msgs) + 1
  <2>3. /\ n \in DOMAIN cv2.msgs /\ cv2.msgs[n].st = "drafted"
        /\ \A j \in DOMAIN cv2.msgs : j # n => j \in DOMAIN conv[c][i].msgs /\ cv2.msgs[j] = conv[c][i].msgs[j]
    BY <1>8, <2>1, <2>2, MessageAdd
  <2> HIDE DEF n
  <2>4. Open(cv2) \subseteq {n} /\ \A j \in Open(cv2) : cv2.msgs[j].st = "drafted"
    BY <2>2, <2>3 DEF Open, Pending, Outbound
  <2>5. Tidy(conv')
    <3> SUFFICES ASSUME NEW e \in Candidates
                 PROVE  /\ Len(conv'[e]) <= 1
                        /\ \A j \in DOMAIN conv'[e] : /\ \A x, y \in Open(conv'[e][j]) : x = y
                                                      /\ \A x \in Open(conv'[e][j]) : conv'[e][j].msgs[x].st = "drafted"
      BY DEF Tidy
    <3>1. DOMAIN conv'[e] = DOMAIN conv[e]
          /\ \A j \in DOMAIN conv[e] : conv'[e][j] = IF e = c /\ j = i THEN cv2 ELSE conv[e][j]
      BY <2>1 DEF Replaced
    <3>2. Len(conv'[e]) <= 1
      BY <1>0, <1>3, <1>4, <3>1, SameLength DEF Tidy
    <3>3. ASSUME NEW j \in DOMAIN conv'[e]
          PROVE  /\ \A x, y \in Open(conv'[e][j]) : x = y
                 /\ \A x \in Open(conv'[e][j]) : conv'[e][j].msgs[x].st = "drafted"
      <4>1. CASE e = c /\ j = i
        <5>1. conv'[e][j] = cv2
          BY <3>1, <4>1
        <5> QED
          BY <2>4, <5>1
      <4>2. CASE ~(e = c /\ j = i)
        <5>1. conv'[e][j] = conv[e][j] /\ j \in DOMAIN conv[e]
          BY <3>1, <4>2
        <5> QED
          BY <1>4, <5>1 DEF Tidy
      <4> QED
        BY <4>1, <4>2
    <3> QED
      BY <3>2, <3>3
  <2> QED
    BY <1>7, <2>5 DEF AutoInv
<1>10. CASE \E free \in BOOLEAN, cv2 \in Conversations :
              i = 0 /\ Added(conv, conv', c, cv2) /\ cv2.msgs = <<Draft(d, k, free)>>
  <2>1. PICK free \in BOOLEAN, cv2 \in Conversations :
              i = 0 /\ Added(conv, conv', c, cv2) /\ cv2.msgs = <<Draft(d, k, free)>>
    BY <1>10
  <2>2. Len(conv[c]) = 0 /\ DOMAIN conv[c] = {}
    <3>1. DOMAIN conv[c] = 1..Len(conv[c]) /\ Len(conv[c]) = 0
      BY <1>0, <1>5, <2>1, BookFields
    <3> QED
      BY <3>1
  <2>3. Open(cv2) \subseteq {1} /\ \A j \in Open(cv2) : cv2.msgs[j].st = "drafted"
    BY <1>8, <2>1 DEF Open, Pending, Outbound
  <2>4. Tidy(conv')
    <3> SUFFICES ASSUME NEW e \in Candidates
                 PROVE  /\ Len(conv'[e]) <= 1
                        /\ \A j \in DOMAIN conv'[e] : /\ \A x, y \in Open(conv'[e][j]) : x = y
                                                      /\ \A x \in Open(conv'[e][j]) : conv'[e][j].msgs[x].st = "drafted"
      BY DEF Tidy
    <3>1. CASE e = c
      <4>1. DOMAIN conv'[c] = {1} /\ conv'[c][1] = cv2
        BY <2>1, <2>2 DEF Added
      <4>2. Len(conv'[c]) <= 1
        <5>1. Len(conv'[c]) \in Nat /\ 1..Len(conv'[c]) = {1}
          BY <1>3, <4>1, BookFields
        <5>2. \A n \in Nat : 1..n = {1} => n <= 1
          <6> SUFFICES ASSUME NEW n \in Nat, 1..n = {1}, n > 1
                       PROVE  FALSE
            OBVIOUS
          <6>1. n \in 1..n /\ n # 1
            OBVIOUS
          <6> QED
            BY <6>1
        <5> QED
          BY <5>1, <5>2
      <4> QED
        BY <2>3, <3>1, <4>1, <4>2
    <3>2. CASE e # c
      <4>1. DOMAIN conv'[e] = DOMAIN conv[e] /\ \A j \in DOMAIN conv[e] : conv'[e][j] = conv[e][j]
        BY <2>1, <3>2 DEF Added
      <4>2. Len(conv'[e]) <= 1
        BY <1>0, <1>3, <1>4, <4>1, SameLength DEF Tidy
      <4> QED
        BY <1>4, <4>1, <4>2 DEF Tidy
    <3> QED
      BY <3>1, <3>2
  <2> QED
    BY <1>7, <2>4 DEF AutoInv
<1> QED
  BY <1>2, <1>5, <1>9, <1>10 DEF SaveFacts

(* Every step of the automation keeps it alone.                            *)
LEMMA AutoSteps ==
  OutreachInv /\ AutoInv /\ [Next]_vars => AutoInv'
<1> SUFFICES ASSUME OutreachInv, AutoInv, [Next]_vars, ~hrActed'
             PROVE  AutoInv'
  BY DEF AutoInv
<1>0. /\ conv \in Book /\ \A t \in Tasks : task[t] \in TaskRecords /\ TaskFits(task[t]) /\ TaskValid(conv, task[t])
      /\ imLock \in Tasks \union {nobody}
  BY OutreachState, OutreachTypes
<1>1. ASSUME NEW t \in Tasks, ~hrActed
      PROVE  Alone(conv, imLock, t, task[t])
  BY <1>1 DEF AutoInv
<1>2. ASSUME NEW t \in Tasks, Read(t)
      PROVE  AutoInv'
  <2>1. PICK new : ReadFacts(t, new)
    BY <1>2, ReadForm
  <2>2. conv' = conv /\ ~hrActed /\ (imLock' = imLock \/ imLock = t) /\ task[t].pc = "read"
    BY <1>2, ReadForm DEF hist, Frees
  <2>3. Alone(conv', imLock', t, new)
    <3>1. CASE Ended(new) /\ Rests(new)
      BY <3>1, RestsAlone
    <3>2. CASE /\ new.kind = task[t].kind
               /\ new.pc = "send" => new.kind = "confirm"
               /\ new.pc = "prep" => new.kind \notin Locked
               /\ new.kind = "dialogue" =>
                    new.left = {} /\ new.review = review /\ new.queue = task[t].queue
      BY <1>1, <2>1, <2>2, <3>2 DEF ReadFacts, Alone, Automatic, Locked
    <3> QED
      BY <2>1, <3>1, <3>2 DEF ReadFacts
  <2> QED
    BY <2>1, <2>2, <2>3, SameIsCalm, AutoKept DEF ReadFacts
<1>3. ASSUME NEW t \in Tasks, Acquire(t)
      PROVE  AutoInv'
  <2>1. PICK new : AcquireFacts(t, new)
    BY <1>3, AcquireForm
  <2>2. conv' = conv /\ ~hrActed /\ imLock = nobody /\ imLock' = t
    BY <1>3, AcquireForm DEF hist
  <2>3. Alone(conv', imLock', t, new)
    BY <2>1, <2>2 DEF AcquireFacts, Alone, Automatic, Locked
  <2> QED
    BY <2>1, <2>2, <2>3, SameIsCalm, AutoKept DEF AcquireFacts
<1>4. ASSUME NEW t \in Tasks, Prepare(t)
      PROVE  AutoInv'
  <2>1. PICK new : PrepareFacts(t, new)
    BY <1>4, PrepareForm
  <2>2. conv' = conv /\ ~hrActed /\ imLock' = imLock /\ task[t].pc = "prep" /\ task[t].plan = <<>>
    BY <1>4, PrepareForm DEF hist
  <2>3. Alone(conv, imLock, t, task[t])
    BY <1>1, <2>2
  <2>4. /\ new.kind = task[t].kind /\ new.pc = "prep" /\ new.queue = task[t].queue /\ new.oks = task[t].oks
    BY <2>1 DEF PrepareFacts, SameTask
  <2>5. ASSUME new.plan = <<>>, new.left = task[t].left \/ task[t].kind \notin Answers
        PROVE  Alone(conv, imLock, t, new)
    <3>1. task[t].kind = "dialogue" => new.left = task[t].left
      BY <2>5 DEF Answers
    <3> QED
      BY <2>2, <2>3, <2>4, <2>5, <3>1 DEF Alone
  <2>6. ASSUME \E c \in Candidates, d \in Decisions :
                 /\ Len(conv[c]) <= 1 /\ ~HasPending(c) /\ task[t].kind \notin Answers
                 /\ new.plan = <<c, Len(conv[c]), d, 0>> /\ new.left = task[t].left
        PROVE  Alone(conv, imLock, t, new)
    <3>1. PICK c \in Candidates, d \in Decisions :
               /\ Len(conv[c]) <= 1 /\ ~HasPending(c) /\ task[t].kind \notin Answers
               /\ new.plan = <<c, Len(conv[c]), d, 0>> /\ new.left = task[t].left
      BY <2>6
    <3>2. \A i \in DOMAIN conv[c] : Open(conv[c][i]) = {}
      <4> SUFFICES ASSUME NEW i \in DOMAIN conv[c]
                   PROVE  Open(conv[c][i]) = {}
        OBVIOUS
      <4>1. Len(conv[c]) \in Nat /\ i \in 1..Len(conv[c])
        BY <1>0, BookFields
      <4>2. Len(conv[c]) = 1 /\ i = 1
        <5>1. \A n \in Nat : \A j \in 1..n : n <= 1 => n = 1 /\ j = 1
          OBVIOUS
        <5> QED
          BY <3>1, <4>1, <5>1, Zenon
      <4> QED
        BY <3>1, <4>2 DEF HasPending, Has, The, Open
    <3>3. new.plan[1] = c /\ new.plan[2] = Len(conv[c])
      BY <3>1
    <3>4. task[t].kind # "dialogue"
      BY <3>1 DEF Answers
    <3> QED
      BY <2>2, <2>3, <2>4, <3>2, <3>3, <3>4 DEF Alone
  <2>7. ASSUME task[t].kind \in Answers, new.left = task[t].left
        PROVE  Alone(conv, imLock, t, new)
    <3>1. task[t].kind \notin Locked
      BY <2>7 DEF Answers, Locked
    <3> QED
      BY <2>2, <2>3, <2>4, <2>7, <3>1 DEF Alone
  <2>8. Alone(conv', imLock', t, new)
    <3>1. Alone(conv, imLock, t, new)
      BY <2>1, <2>5, <2>6, <2>7 DEF PrepareFacts
    <3> QED
      BY <2>2, <3>1
  <2> QED
    BY <2>1, <2>2, <2>8, SameIsCalm, AutoKept DEF PrepareFacts
<1>5. ASSUME NEW t \in Tasks, Save(t)
      PROVE  AutoInv'
  <2>1. ~hrActed /\ task[t].pc = "prep"
    BY <1>5, SaveForm DEF hist
  <2>2. task[t].kind \in Locked \union {"dialogue"}
    BY <1>0, <1>1, <2>1 DEF Alone, TaskFits, Drafters, Automatic, Locked
  <2> QED
    BY <1>5, <2>2, SaveAnswer, SaveOutreach
<1>6. ASSUME NEW t \in Tasks, Prepared(t)
      PROVE  AutoInv'
  <2>1. PICK new : PreparedFacts(t, new)
    BY <1>6, PreparedForm
  <2>2. conv' = conv /\ ~hrActed /\ task[t].pc = "prep"
    BY <1>6, PreparedForm DEF hist
  <2>3. Alone(conv, imLock, t, task[t])
    BY <1>1, <2>2
  <2>4. CASE /\ Frees(t) /\ imLock' # t /\ Rests(new)
             /\ new = Idle \/ Ended(new)
    <3>1. imLock' = imLock \/ imLock = t
      BY <2>4 DEF Frees
    <3>2. Alone(conv', imLock', t, new)
      BY <2>4, RestsAlone
    <3> QED
      BY <2>1, <2>2, <3>1, <3>2, SameIsCalm, AutoKept DEF PreparedFacts
  <2>5. CASE /\ UNCHANGED imLock /\ SameTask(task[t], new) /\ new.queue = task[t].queue /\ new.plan = <<>>
             /\ new.left = task[t].left /\ new.oks = task[t].oks
    <3>1. Alone(conv', imLock', t, new)
      BY <2>2, <2>3, <2>5 DEF SameTask, Alone
    <3> QED
      BY <2>1, <2>2, <2>5, <3>1, SameIsCalm, AutoKept DEF PreparedFacts
  <2> QED
    BY <2>1, <2>4, <2>5 DEF PreparedFacts
<1>7. ASSUME NEW t \in Tasks, Deliver(t)
      PROVE  AutoInv'
  BY <1>7, DeliverAuto
<1>8. ASSUME NEW t \in Tasks, Mark(t)
      PROVE  AutoInv'
  BY <1>8, MarkAuto
<1>9. ASSUME NEW t \in Tasks, Store(t)
      PROVE  AutoInv'
  BY <1>9, StoreAuto
<1>10. ASSUME NEW t \in Tasks, NextOutreach(t)
       PROVE  AutoInv'
  <2>1. PICK new : NextFacts(t, new)
    BY <1>10, NextOutreachForm
  <2>2. conv' = conv /\ ~hrActed /\ imLock' = imLock
    BY <1>10, NextOutreachForm DEF hist
  <2>3. Alone(conv', imLock', t, new)
    BY <2>1 DEF NextFacts, Alone, Automatic, Locked
  <2> QED
    BY <2>1, <2>2, <2>3, SameIsCalm, AutoKept DEF NextFacts
<1>11. ASSUME NEW t \in Tasks, Request(t)
       PROVE  AutoInv'
  <2>1. conv' = conv /\ imLock' = imLock /\ hrActed' \in {hrActed, TRUE}
    BY <1>11, RequestForm
  <2>2. CASE UNCHANGED <<task, hrActed>>
    BY <2>1, <2>2 DEF AutoInv
  <2>3. CASE \E new : RequestFacts(t, new)
    <3>1. PICK new : RequestFacts(t, new)
      BY <2>3
    <3>2. new.kind \in {"card", "catchup"} /\ new.pc \in {"lock", "read"} /\ new.plan = <<>> /\ ~hrActed
      BY <3>1 DEF RequestFacts
    <3>3. Alone(conv', imLock', t, new)
      BY <3>2 DEF Alone, Automatic, Locked
    <3> QED
      BY <2>1, <3>1, <3>2, <3>3, SameIsCalm, AutoKept DEF RequestFacts
  <2> QED
    BY <1>11, <2>2, <2>3, RequestForm
<1>12. ASSUME NEW t \in Tasks, Abort(t)
       PROVE  AutoInv'
  <2>1. conv' = conv /\ ~hrActed /\ (imLock' = imLock \/ imLock = t) /\ Result(t, Idle)
    BY <1>12, AbortForm DEF Frees
  <2>2. Alone(conv', imLock', t, Idle)
    BY IdleFields, RestsAlone
  <2> QED
    BY <2>1, <2>2, SameIsCalm, AutoKept
<1>13. ASSUME Edit
       PROVE  AutoInv'
  BY <1>13, EditForm
<1>14. ASSUME SetReview
       PROVE  AutoInv'
  BY <1>14 DEF SetReview, data, AutoInv
<1>15. CASE UNCHANGED vars
  BY <1>15 DEF vars, data, hist, AutoInv
<1> QED
  BY <1>2, <1>3, <1>4, <1>5, <1>6, <1>7, <1>8, <1>9, <1>10, <1>11, <1>12, <1>13, <1>14, <1>15
  DEF Next, TaskStep

(* The automation is alone throughout, while HR keeps away.                *)
LEMMA AutoHolds == Spec => []AutoInv
<1>1. Init => AutoInv
  <2> SUFFICES ASSUME Init
               PROVE  AutoInv
    OBVIOUS
  <2>1. task = [t \in Tasks |-> Idle] /\ conv = [c \in Candidates |-> <<>>]
    BY DEF Init
  <2>2. Tidy(conv)
    BY <2>1 DEF Tidy
  <2>3. \A t \in Tasks : Alone(conv, imLock, t, task[t])
    BY <2>1, IdleFields, RestsAlone
  <2> QED
    BY <2>2, <2>3 DEF AutoInv
<1> QED
  BY <1>1, OutreachHolds, AutoSteps, PTL DEF Spec

(* Whatever of the automation fails or is cancelled, it opens one          *)
(* conversation with a candidate and has one unsent outreach in it.        *)
THEOREM OneConversationOpened == Spec => []OneConversation
<1>1. OutreachInv /\ AutoInv => OneConversation
  <2> SUFFICES ASSUME OutreachInv, AutoInv, ~hrActed, NEW c \in Candidates
               PROVE  /\ ~Raises(c)
                      /\ Has(c) => Cardinality({k \in Pending(The(c)) : The(c).msgs[k].by = "outreach"}) <= 1
    BY DEF OneConversation
  <2>1. conv \in Book /\ Tidy(conv)
    BY OutreachState DEF AutoInv
  <2>2. Len(conv[c]) \in Nat /\ Len(conv[c]) <= 1 /\ DOMAIN conv[c] = 1..Len(conv[c])
    BY <2>1, BookFields DEF Tidy
  <2>3. ~Raises(c)
    BY <2>2 DEF Raises
  <2>4. ASSUME Has(c)
        PROVE  Cardinality({k \in Pending(The(c)) : The(c).msgs[k].by = "outreach"}) <= 1
    <3>1. 1 \in DOMAIN conv[c]
      BY <2>2, <2>4 DEF Has
    <3>2. Open(The(c)) = {k \in Pending(The(c)) : The(c).msgs[k].by = "outreach"}
          /\ \A j, k \in Open(The(c)) : j = k
      BY <2>1, <3>1 DEF Open, Tidy, The
    <3>3. CASE Open(The(c)) = {}
      BY <3>2, <3>3, FS_EmptySet
    <3>4. CASE Open(The(c)) # {}
      <4>1. PICK k : Open(The(c)) = {k}
        BY <3>2, <3>4
      <4>2. Cardinality({k}) = 1
        BY FS_Singleton
      <4>3. Cardinality(Open(The(c))) = 1
        BY <4>1, <4>2
      <4>4. Cardinality({j \in Pending(The(c)) : The(c).msgs[j].by = "outreach"}) = 1
        BY <3>2, <4>3, Zenon
      <4> QED
        BY <4>4
    <3> QED
      BY <3>3, <3>4
  <2> QED
    BY <2>3, <2>4
<1> QED
  BY <1>1, OutreachHolds, AutoHolds, PTL

-----------------------------------------------------------------------------
(* The first contact                                                       *)

(* Until a reply is stored there is only outreach, no message of it has    *)
(* left twice, and one that left and is not recorded is with its sender.   *)
Once(cs, ts) ==
  \A c \in Candidates : \A i \in DOMAIN cs[c] : Inbound(cs[c][i]) = {} =>
    \A k \in DOMAIN cs[c][i].msgs :
      /\ cs[c][i].msgs[k].by = "outreach" /\ cs[c][i].msgs[k].out <= 1
      /\ cs[c][i].msgs[k].out # 0 /\ k \in Pending(cs[c][i]) =>
           \E u \in Tasks : ts[u].kind \in Locked /\ <<c, i, k>> \in ts[u].oks

(* What a task is about to send has not left; an answer answers something. *)
Unsent(cs, tk) ==
  /\ tk.kind \in Locked =>
       \A tg \in tk.left \union tk.oks : Inbound(cs[tg[1]][tg[2]]) = {} =>
         /\ tg[3] \in Pending(cs[tg[1]][tg[2]])
         /\ tg \in tk.left => cs[tg[1]][tg[2]].msgs[tg[3]].out = 0
  /\ tk.kind = "dialogue" /\ tk.plan # <<>> => Inbound(cs[tk.plan[1]][tk.plan[2]]) # {}

FirstInv ==
  ~hrActed /\ ~lost => Once(conv, task) /\ \A t \in Tasks : Unsent(conv, task[t])

(* What is there stays as it is; a message more is outreach that has not   *)
(* left, or is in a conversation with a reply.                             *)
Extended(cs, cs2) ==
  /\ \A c \in Candidates : \A i \in DOMAIN cs[c] :
       /\ i \in DOMAIN cs2[c]
       /\ \A k \in DOMAIN cs[c][i].msgs :
            k \in DOMAIN cs2[c][i].msgs /\ cs2[c][i].msgs[k] = cs[c][i].msgs[k]
  /\ \A c \in Candidates : \A i \in DOMAIN cs2[c] : Inbound(cs2[c][i]) = {} =>
       \A k \in DOMAIN cs2[c][i].msgs :
         \/ i \in DOMAIN cs[c] /\ k \in DOMAIN cs[c][i].msgs
         \/ cs2[c][i].msgs[k].by = "outreach" /\ cs2[c][i].msgs[k].out = 0

(* A reply that is stored stays.                                           *)
LEMMA InboundStays ==
  ASSUME NEW cs, NEW cs2, Grows(cs, cs2), NEW c \in Candidates, NEW i \in DOMAIN cs[c]
  PROVE  i \in DOMAIN cs2[c] /\ Inbound(cs[c][i]) \subseteq Inbound(cs2[c][i])
  BY DEF Grows, Inbound

(* The conversation of a plan is there,                                    *)
LEMMA PlanThere ==
  ASSUME OutreachInv, NEW u \in Tasks, task[u].kind = "dialogue", task[u].plan # <<>>
  PROVE  task[u].plan[1] \in Candidates /\ task[u].plan[2] \in DOMAIN conv[task[u].plan[1]]
<1>1. conv \in Book /\ task[u] \in TaskRecords /\ TaskValid(conv, task[u])
  BY OutreachState
<1>2. task[u].plan[1] \in Candidates
  BY <1>1 DEF TaskRecords, Plans
<1>3. /\ DOMAIN conv[task[u].plan[1]] = 1..Len(conv[task[u].plan[1]]) /\ Len(conv[task[u].plan[1]]) \in Nat
  BY <1>1, <1>2, BookFields
<1>4. task[u].plan[2] \in 0..Len(conv[task[u].plan[1]]) /\ task[u].plan[2] # 0
  BY <1>1 DEF TaskValid, Answers
<1> QED
  BY <1>2, <1>3, <1>4

(* and so is the message of a target.                                      *)
LEMMA TargetThere ==
  ASSUME OutreachInv, NEW u \in Tasks, NEW tg \in task[u].left \union task[u].oks
  PROVE  /\ tg \in Targets /\ tg = <<tg[1], tg[2], tg[3]>> /\ tg[1] \in Candidates
         /\ tg[2] \in DOMAIN conv[tg[1]] /\ tg[3] \in DOMAIN conv[tg[1]][tg[2]].msgs
<1>1. task[u] \in TaskRecords /\ TaskValid(conv, task[u])
  BY OutreachState
<1> QED
  BY <1>1 DEF TaskRecords, TaskValid, Exists, Targets

(* Of the tasks of the lock only its holder has messages.                  *)
LEMMA LockHolder ==
  ASSUME OutreachInv, AutoInv, ~hrActed, NEW u \in Tasks, task[u].kind \in Locked,
         NEW tg \in task[u].left \union task[u].oks
  PROVE  imLock = u
<1>1. TaskFits(task[u]) /\ Alone(conv, imLock, u, task[u])
  BY OutreachState DEF AutoInv
<1> QED
  BY <1>1 DEF TaskFits, Alone

(* What another task is about to send has not left, either.                *)
LEMMA UnsentStays ==
  ASSUME OutreachInv, Grows(conv, conv'), Extended(conv, conv'), NEW u \in Tasks, Unsent(conv, task[u])
  PROVE  Unsent(conv', task[u])
<1>1. ASSUME task[u].kind \in Locked, NEW tg \in task[u].left \union task[u].oks,
             Inbound(conv'[tg[1]][tg[2]]) = {}
      PROVE  /\ tg[3] \in Pending(conv'[tg[1]][tg[2]])
             /\ tg \in task[u].left => conv'[tg[1]][tg[2]].msgs[tg[3]].out = 0
  <2>1. /\ tg[1] \in Candidates /\ tg[2] \in DOMAIN conv[tg[1]] /\ tg[3] \in DOMAIN conv[tg[1]][tg[2]].msgs
    BY TargetThere
  <2>2. Inbound(conv[tg[1]][tg[2]]) = {}
    BY <1>1, <2>1, InboundStays
  <2>3. /\ tg[3] \in Pending(conv[tg[1]][tg[2]])
        /\ tg \in task[u].left => conv[tg[1]][tg[2]].msgs[tg[3]].out = 0
    BY <1>1, <2>2 DEF Unsent
  <2>4. /\ tg[3] \in DOMAIN conv'[tg[1]][tg[2]].msgs
        /\ conv'[tg[1]][tg[2]].msgs[tg[3]] = conv[tg[1]][tg[2]].msgs[tg[3]]
    BY <2>1 DEF Extended
  <2> QED
    BY <2>3, <2>4 DEF Pending, Outbound
<1>2. ASSUME task[u].kind = "dialogue", task[u].plan # <<>>
      PROVE  Inbound(conv'[task[u].plan[1]][task[u].plan[2]]) # {}
  BY <1>2, PlanThere, InboundStays DEF Unsent
<1> QED
  BY <1>1, <1>2 DEF Unsent

(* A step that delivers and records nothing keeps first contacts single.   *)
LEMMA FirstKept ==
  ASSUME OutreachInv, FirstInv, ~hrActed, ~lost, Grows(conv, conv'), Extended(conv, conv'),
         NEW t \in Tasks, NEW new, Result(t, new), Unsent(conv', new),
         task[t].oks = {} \/ (new.kind = task[t].kind /\ task[t].oks \subseteq new.oks)
  PROVE  FirstInv'
<1>1. \A u \in Tasks : task'[u] = IF u = t THEN new ELSE task[u]
  BY TaskBecomes
<1>2. Once(conv, task) /\ \A u \in Tasks : Unsent(conv, task[u])
  BY DEF FirstInv
<1>3. \A u \in Tasks : Unsent(conv', task'[u])
  <2> SUFFICES ASSUME NEW u \in Tasks
               PROVE  Unsent(conv', task'[u])
    OBVIOUS
  <2>1. CASE u = t
    BY <1>1, <2>1
  <2>2. CASE u # t
    <3>1. task'[u] = task[u] /\ Unsent(conv, task[u])
      BY <1>1, <1>2, <2>2
    <3> QED
      BY <3>1, UnsentStays
  <2> QED
    BY <2>1, <2>2
<1>4. ASSUME NEW c \in Candidates, NEW i \in DOMAIN conv'[c], Inbound(conv'[c][i]) = {},
             NEW k \in DOMAIN conv'[c][i].msgs
      PROVE  /\ conv'[c][i].msgs[k].by = "outreach" /\ conv'[c][i].msgs[k].out <= 1
             /\ conv'[c][i].msgs[k].out # 0 /\ k \in Pending(conv'[c][i]) =>
                  \E u \in Tasks : task'[u].kind \in Locked /\ <<c, i, k>> \in task'[u].oks
  <2>1. CASE i \in DOMAIN conv[c] /\ k \in DOMAIN conv[c][i].msgs
    <3>1. conv'[c][i].msgs[k] = conv[c][i].msgs[k] /\ Inbound(conv[c][i]) = {}
      BY <1>4, <2>1, InboundStays DEF Extended
    <3>2. /\ conv[c][i].msgs[k].by = "outreach" /\ conv[c][i].msgs[k].out <= 1
          /\ conv[c][i].msgs[k].out # 0 /\ k \in Pending(conv[c][i]) =>
               \E u \in Tasks : task[u].kind \in Locked /\ <<c, i, k>> \in task[u].oks
      BY <1>2, <2>1, <3>1 DEF Once
    <3>3. k \in Pending(conv'[c][i]) => k \in Pending(conv[c][i])
      BY <2>1, <3>1 DEF Pending, Outbound
    <3>4. \A u \in Tasks : task[u].kind \in Locked /\ <<c, i, k>> \in task[u].oks =>
                             task'[u].kind \in Locked /\ <<c, i, k>> \in task'[u].oks
      BY <1>1
    <3> QED
      BY <3>1, <3>2, <3>3, <3>4
  <2>2. CASE ~(i \in DOMAIN conv[c] /\ k \in DOMAIN conv[c][i].msgs)
    <3>1. conv'[c][i].msgs[k].by = "outreach" /\ conv'[c][i].msgs[k].out = 0
      BY <1>4, <2>2 DEF Extended
    <3> QED
      BY <3>1
  <2> QED
    BY <2>1, <2>2
<1> QED
  BY <1>3, <1>4 DEF FirstInv, Once

(* Rows that stay are extended by nothing.                                 *)
LEMMA SameExtended ==
  ASSUME OutreachInv, conv' = conv
  PROVE  Grows(conv, conv') /\ Extended(conv, conv')
  BY OutreachState DEF Extended

(* A task without targets has none that left.                              *)
LEMMA EmptyUnsent ==
  ASSUME NEW tk, tk.plan = <<>>, tk.kind \in Locked => tk.left = {} /\ tk.oks = {}, NEW cs
  PROVE  Unsent(cs, tk)
  BY DEF Unsent

(* Preparing chooses messages that have not left.                          *)
LEMMA PrepareFirst ==
  ASSUME OutreachInv, AutoInv, FirstInv, NEW t \in Tasks, Prepare(t), ~hrActed, ~lost
  PROVE  FirstInv'
<1>1. PICK new : PrepareFacts(t, new)
  BY PrepareForm
<1>2. conv' = conv /\ imLock' = imLock /\ task[t].pc = "prep" /\ task[t].plan = <<>>
  BY PrepareForm
<1>3. conv \in Book /\ TaskFits(task[t]) /\ Alone(conv, imLock, t, task[t])
      /\ Once(conv, task) /\ Unsent(conv, task[t])
  BY OutreachState DEF AutoInv, FirstInv
<1>4. /\ new.kind = task[t].kind /\ new.pc = "prep" /\ new.queue = task[t].queue /\ new.oks = task[t].oks
      /\ task[t].oks = {}
  BY <1>1, <1>2, <1>3 DEF PrepareFacts, SameTask, TaskFits
<1>5. ASSUME new.plan = <<>>, new.left = task[t].left
      PROVE  Unsent(conv, new)
  BY <1>3, <1>4, <1>5 DEF Unsent
<1>6. ASSUME NEW c \in Candidates, Len(conv[c]) = 1, Pending(conv[c][1]) # {}, new.plan = <<>>,
             new.left = task[t].left \union {<<c, 1, Latest(Pending(conv[c][1]))>>},
             task[t].kind \notin Answers
      PROVE  Unsent(conv, new)
  <2> DEFINE k == Latest(Pending(conv[c][1]))
             x == <<c, 1, k>>
  <2>1. 1 \in DOMAIN conv[c] /\ conv[c][1] \in Conversations
    BY <1>3, <1>6, BookFields
  <2>2. Pending(conv[c][1]) \in SUBSET (1..Len(conv[c][1].msgs))
    BY <2>1, ConversationFields
  <2>3. k \in Pending(conv[c][1])
    BY <1>6, <2>1, <2>2, LatestMessage
  <2> HIDE DEF k
  <2>4. ASSUME task[t].kind \in Locked, Inbound(conv[c][1]) = {}
        PROVE  conv[c][1].msgs[k].out = 0
    <3>1. imLock = t
      BY <1>2, <1>3, <2>4 DEF Alone
    <3>2. k \in DOMAIN conv[c][1].msgs
      BY <2>3 DEF Pending, Outbound
    <3>3. conv[c][1].msgs[k].out # 0 =>
            \E u \in Tasks : task[u].kind \in Locked /\ <<c, 1, k>> \in task[u].oks
      BY <1>3, <2>1, <2>3, <2>4, <3>2 DEF Once
    <3>4. ASSUME NEW u \in Tasks, task[u].kind \in Locked, <<c, 1, k>> \in task[u].oks
          PROVE  FALSE
      <4>1. imLock = u
        BY <3>4, LockHolder
      <4> QED
        BY <1>4, <3>1, <3>4, <4>1
    <3> QED
      BY <3>3, <3>4
  <2>5. ASSUME task[t].kind \in Locked, NEW tg \in new.left, Inbound(conv[tg[1]][tg[2]]) = {}
        PROVE  tg[3] \in Pending(conv[tg[1]][tg[2]]) /\ conv[tg[1]][tg[2]].msgs[tg[3]].out = 0
    <3>1. CASE tg \in task[t].left
      BY <1>3, <2>5, <3>1 DEF Unsent
    <3>2. CASE tg = x
      <4>1. tg[1] = c /\ tg[2] = 1 /\ tg[3] = k
        BY <3>2
      <4> QED
        BY <2>3, <2>4, <2>5, <4>1
    <3> QED
      BY <1>6, <2>5, <3>1, <3>2 DEF k
  <2> QED
    BY <1>4, <1>6, <2>5 DEF Unsent
<1>7. ASSUME task[t].kind \notin Answers, new.left = task[t].left
      PROVE  Unsent(conv, new)
  BY <1>3, <1>4, <1>7 DEF Unsent, Answers
<1>8. ASSUME NEW c \in Candidates, NEW i \in DOMAIN conv[c], NEW k \in Inbound(conv[c][i]),
             new.plan = <<c, i, "answer", k>>, new.left = task[t].left
      PROVE  Unsent(conv, new)
  <2>1. new.plan[1] = c /\ new.plan[2] = i
    BY <1>8
  <2> QED
    BY <1>3, <1>4, <1>8, <2>1 DEF Unsent
<1>9. Unsent(conv', new)
  <2>1. Unsent(conv, new)
    BY <1>1, <1>5, <1>6, <1>7, <1>8 DEF PrepareFacts
  <2> QED
    BY <1>2, <2>1
<1> QED
  BY <1>1, <1>2, <1>4, <1>9, SameExtended, FirstKept DEF PrepareFacts

(* A conversation with a message more is an extension,                     *)
LEMMA ReplacedExtended ==
  ASSUME NEW cs \in Book, NEW cs2, NEW c \in Candidates, NEW i \in DOMAIN cs[c], NEW cv,
         Replaced(cs, cs2, c, i, cv),
         \A k \in DOMAIN cs[c][i].msgs : k \in DOMAIN cv.msgs /\ cv.msgs[k] = cs[c][i].msgs[k],
         Inbound(cv) = {} => \A k \in DOMAIN cv.msgs :
           k \in DOMAIN cs[c][i].msgs \/ (cv.msgs[k].by = "outreach" /\ cv.msgs[k].out = 0)
  PROVE  Extended(cs, cs2)
<1>1. ASSUME NEW d \in Candidates, NEW j \in DOMAIN cs[d]
      PROVE  /\ j \in DOMAIN cs2[d]
             /\ \A k \in DOMAIN cs[d][j].msgs : k \in DOMAIN cs2[d][j].msgs /\ cs2[d][j].msgs[k] = cs[d][j].msgs[k]
  <2>1. j \in DOMAIN cs2[d] /\ cs2[d][j] = IF d = c /\ j = i THEN cv ELSE cs[d][j]
    BY DEF Replaced
  <2> QED
    BY <2>1
<1>2. ASSUME NEW d \in Candidates, NEW j \in DOMAIN cs2[d], Inbound(cs2[d][j]) = {},
             NEW k \in DOMAIN cs2[d][j].msgs
      PROVE  \/ j \in DOMAIN cs[d] /\ k \in DOMAIN cs[d][j].msgs
             \/ cs2[d][j].msgs[k].by = "outreach" /\ cs2[d][j].msgs[k].out = 0
  <2>1. j \in DOMAIN cs[d] /\ cs2[d][j] = IF d = c /\ j = i THEN cv ELSE cs[d][j]
    BY DEF Replaced
  <2> QED
    BY <1>2, <2>1
<1> QED
  BY <1>1, <1>2 DEF Extended

(* and so is one with a reply.                                             *)
LEMMA StoreExtended ==
  ASSUME OutreachInv, NEW t \in Tasks, Store(t)
  PROVE  Extended(conv, conv')
<1>0. conv \in Book
  BY OutreachState
<1>1. ASSUME NEW c \in Candidates, NEW i \in DOMAIN conv[c]
      PROVE  /\ \A k \in DOMAIN conv[c][i].msgs :
                  k \in DOMAIN conv'[c][i].msgs /\ conv'[c][i].msgs[k] = conv[c][i].msgs[k]
             /\ conv'[c][i] = conv[c][i] \/ Inbound(conv'[c][i]) # {}
  <2>1. CASE conv'[c] = conv[c]
    BY <2>1
  <2>2. CASE /\ 1 \in DOMAIN conv[c] /\ DOMAIN conv[c] = {1}
             /\ conv'[c][1].msgs = Append(conv[c][1].msgs, Reply)
    <3>1. conv[c][1] \in Conversations /\ i = 1
      BY <1>0, <2>2, BookFields
    <3>2. Reply \in Messages /\ Reply.by = "candidate"
      BY DEF Reply, Messages
    <3> DEFINE n == Len(conv[c][1].msgs) + 1
    <3>3. n \in DOMAIN conv'[c][1].msgs /\ conv'[c][1].msgs[n].by = "candidate"
          /\ \A k \in DOMAIN conv[c][1].msgs :
               k \in DOMAIN conv'[c][1].msgs /\ conv'[c][1].msgs[k] = conv[c][1].msgs[k]
      BY <2>2, <3>1, <3>2, MessageAdd
    <3> HIDE DEF n
    <3>4. n \in Inbound(conv'[c][1])
      BY <3>3 DEF Inbound
    <3> QED
      BY <3>1, <3>3, <3>4
  <2> QED
    BY <2>1, <2>2, StoreForm
<1>2. \A c \in Candidates : DOMAIN conv'[c] = DOMAIN conv[c]
  BY StoreForm
<1> QED
  BY <1>1, <1>2 DEF Extended

(* A draft that is saved has not left.                                     *)
LEMMA SaveFirst ==
  ASSUME OutreachInv, AutoInv, FirstInv, NEW t \in Tasks, Save(t), ~hrActed, ~lost,
         task[t].kind \in Locked \union {"dialogue"}
  PROVE  FirstInv'
<1>0. conv \in Book /\ TaskFits(task[t])
  BY OutreachState
<1>1. PICK c \in Candidates, i \in Nat, d \in Decisions \union {"answer"}, k \in Nat :
           /\ task[t].plan = <<c, i, d, k>> /\ (d = "answer" <=> task[t].kind \in Answers)
           /\ \E new : SaveFacts(t, new, c, i, d, k)
  BY SaveForm
<1>2. PICK new : SaveFacts(t, new, c, i, d, k)
  BY <1>1
<1>3. conv' \in Book /\ Grows(conv, conv') /\ task[t].pc = "prep" /\ imLock' = imLock
  BY SaveForm
<1>4. /\ Alone(conv, imLock, t, task[t]) /\ Once(conv, task) /\ Unsent(conv, task[t])
      /\ task[t].oks = {} /\ new.oks = {} /\ new.kind = task[t].kind /\ new.plan = <<>>
  BY <1>0, <1>2, <1>3 DEF AutoInv, FirstInv, TaskFits, SaveFacts, SameTask
<1>5. task[t].kind = "dialogue" => i \in DOMAIN conv[c] /\ Inbound(conv[c][i]) # {} /\ d = "answer"
  <2>1. task[t].plan[1] = c /\ task[t].plan[2] = i /\ task[t].plan # <<>>
    BY <1>1
  <2> QED
    BY <1>1, <1>4, <2>1, PlanThere DEF Unsent, Answers
<1>6. task[t].kind \in Locked => d # "answer"
  BY <1>1 DEF Locked, Answers
<1>7. CASE \E cv2 \in Conversations : /\ d = "answer" /\ i \in DOMAIN conv[c] /\ new.left = task[t].left
                                      /\ Replaced(conv, conv', c, i, cv2) /\ cv2.msgs = conv[c][i].msgs
  <2>1. Extended(conv, conv')
    BY <1>0, <1>7, ReplacedExtended
  <2>2. task[t].kind = "dialogue"
    BY <1>6, <1>7
  <2>3. Unsent(conv', new)
    BY <1>4, <2>2, EmptyUnsent DEF Locked
  <2> QED
    BY <1>2, <1>3, <1>4, <2>1, <2>3, FirstKept DEF SaveFacts
<1>8. CASE \E free \in BOOLEAN, cv2 \in Conversations :
             /\ i \in DOMAIN conv[c] /\ Replaced(conv, conv', c, i, cv2)
             /\ cv2.msgs = Append(conv[c][i].msgs, Draft(d, k, free))
             /\ new.left = IF Sends(task[t], free)
                             THEN task[t].left \union {<<c, i, Len(conv[c][i].msgs) + 1>>} ELSE task[t].left
  <2>1. PICK free \in BOOLEAN, cv2 \in Conversations :
             /\ i \in DOMAIN conv[c] /\ Replaced(conv, conv', c, i, cv2)
             /\ cv2.msgs = Append(conv[c][i].msgs, Draft(d, k, free))
             /\ new.left = IF Sends(task[t], free)
                             THEN task[t].left \union {<<c, i, Len(conv[c][i].msgs) + 1>>} ELSE task[t].left
    BY <1>8
  <2>2. /\ conv[c][i] \in Conversations /\ Draft(d, k, free) \in Messages
        /\ Draft(d, k, free).by = (IF d = "answer" THEN "dialogue" ELSE "outreach")
        /\ Draft(d, k, free).out = 0 /\ Draft(d, k, free).st = "drafted"
    BY <1>0, <2>1, BookFields, DraftFields
  <2> DEFINE n == Len(conv[c][i].msgs) + 1
  <2>3. /\ n \in DOMAIN cv2.msgs /\ cv2.msgs[n] = Draft(d, k, free)
        /\ \A j \in DOMAIN conv[c][i].msgs : j \in DOMAIN cv2.msgs /\ cv2.msgs[j] = conv[c][i].msgs[j]
        /\ \A j \in DOMAIN cv2.msgs : j # n => j \in DOMAIN conv[c][i].msgs
    BY <2>1, <2>2, MessageAdd
  <2>4. new.left \subseteq task[t].left \union {<<c, i, n>>}
    BY <2>1
  <2> HIDE DEF n
  <2>5. Inbound(conv[c][i]) \subseteq Inbound(cv2)
    BY <2>3 DEF Inbound
  <2>6. Extended(conv, conv')
    <3>1. task[t].kind \in Locked => cv2.msgs[n].by = "outreach" /\ cv2.msgs[n].out = 0
      BY <1>6, <2>2, <2>3
    <3>2. task[t].kind \notin Locked => Inbound(cv2) # {}
      BY <1>5, <2>5
    <3>3. Inbound(cv2) = {} => \A j \in DOMAIN cv2.msgs :
            j \in DOMAIN conv[c][i].msgs \/ (cv2.msgs[j].by = "outreach" /\ cv2.msgs[j].out = 0)
      BY <2>3, <3>1, <3>2
    <3> QED
      BY <1>0, <2>1, <2>3, <3>3, ReplacedExtended
  <2>7. Unsent(conv', new)
    <3>1. Unsent(conv', task[t])
      BY <1>3, <1>4, <2>6, UnsentStays
    <3>2. task[t].kind \in Locked =>
            n \in Pending(conv'[c][i]) /\ conv'[c][i].msgs[n].out = 0
      <4>1. conv'[c][i] = cv2
        BY <2>1 DEF Replaced
      <4> QED
        BY <1>6, <2>2, <2>3, <4>1 DEF Pending, Outbound
    <3>3. ASSUME task[t].kind \in Locked, NEW tg \in new.left, Inbound(conv'[tg[1]][tg[2]]) = {}
          PROVE  tg[3] \in Pending(conv'[tg[1]][tg[2]]) /\ conv'[tg[1]][tg[2]].msgs[tg[3]].out = 0
      <4>1. CASE tg \in task[t].left
        BY <3>1, <3>3, <4>1 DEF Unsent
      <4>2. CASE tg = <<c, i, n>>
        BY <3>2, <3>3, <4>2
      <4> QED
        BY <2>4, <3>3, <4>1, <4>2
    <3> QED
      BY <1>4, <3>3 DEF Unsent
  <2> QED
    BY <1>2, <1>3, <1>4, <2>6, <2>7, FirstKept DEF SaveFacts
<1>9. CASE \E free \in BOOLEAN, cv2 \in Conversations :
             /\ i = 0 /\ d # "answer" /\ Added(conv, conv', c, cv2) /\ cv2.msgs = <<Draft(d, k, free)>>
             /\ new.left = IF Sends(task[t], free)
                             THEN task[t].left \union {<<c, Len(conv[c]) + 1, 1>>} ELSE task[t].left
  <2>1. PICK free \in BOOLEAN, cv2 \in Conversations :
             /\ i = 0 /\ d # "answer" /\ Added(conv, conv', c, cv2) /\ cv2.msgs = <<Draft(d, k, free)>>
             /\ new.left = IF Sends(task[t], free)
                             THEN task[t].left \union {<<c, Len(conv[c]) + 1, 1>>} ELSE task[t].left
    BY <1>9
  <2>2. /\ Draft(d, k, free).by = "outreach" /\ Draft(d, k, free).out = 0 /\ Draft(d, k, free).st = "drafted"
    BY <2>1, DraftFields
  <2> DEFINE n == Len(conv[c]) + 1
  <2>3. /\ DOMAIN cv2.msgs = {1} /\ cv2.msgs[1] = Draft(d, k, free)
    BY <2>1
  <2>4. new.left \subseteq task[t].left \union {<<c, n, 1>>}
    BY <2>1
  <2>5. /\ conv'[c][n] = cv2
        /\ \A e \in Candidates : DOMAIN conv'[e] = DOMAIN conv[e] \union (IF e = c THEN {n} ELSE {})
        /\ \A e \in Candidates : \A j \in DOMAIN conv[e] : conv'[e][j] = conv[e][j]
    BY <2>1 DEF Added
  <2> HIDE DEF n
  <2>6. Extended(conv, conv')
    <3>1. ASSUME NEW e \in Candidates, NEW j \in DOMAIN conv'[e], NEW m \in DOMAIN conv'[e][j].msgs
          PROVE  \/ j \in DOMAIN conv[e] /\ m \in DOMAIN conv[e][j].msgs
                 \/ conv'[e][j].msgs[m].by = "outreach" /\ conv'[e][j].msgs[m].out = 0
      <4>1. CASE j \in DOMAIN conv[e]
        BY <2>5, <4>1
      <4>2. CASE j \notin DOMAIN conv[e]
        <5>1. e = c /\ j = n
          BY <2>5, <4>2
        <5> QED
          BY <2>2, <2>3, <2>5, <5>1
      <4> QED
        BY <4>1, <4>2
    <3> QED
      BY <2>5, <3>1 DEF Extended
  <2>7. Unsent(conv', new)
    <3>1. Unsent(conv', task[t])
      BY <1>3, <1>4, <2>6, UnsentStays
    <3>2. 1 \in Pending(conv'[c][n]) /\ conv'[c][n].msgs[1].out = 0
      BY <2>2, <2>3, <2>5 DEF Pending, Outbound
    <3>3. ASSUME task[t].kind \in Locked, NEW tg \in new.left, Inbound(conv'[tg[1]][tg[2]]) = {}
          PROVE  tg[3] \in Pending(conv'[tg[1]][tg[2]]) /\ conv'[tg[1]][tg[2]].msgs[tg[3]].out = 0
      <4>1. CASE tg \in task[t].left
        BY <3>1, <3>3, <4>1 DEF Unsent
      <4>2. CASE tg = <<c, n, 1>>
        BY <3>2, <3>3, <4>2
      <4> QED
        BY <2>4, <3>3, <4>1, <4>2
    <3> QED
      BY <1>4, <3>3 DEF Unsent
  <2> QED
    BY <1>2, <1>3, <1>4, <2>6, <2>7, FirstKept DEF SaveFacts
<1> QED
  BY <1>2, <1>7, <1>8, <1>9 DEF SaveFacts

(* What a sender of the automation sends answers a reply, or it holds the  *)
(* lock.                                                                   *)
LEMMA AnswersReply ==
  ASSUME OutreachInv, AutoInv, FirstInv, ~hrActed, ~lost, NEW t \in Tasks, task[t].kind = "dialogue",
         NEW c \in Candidates, NEW i \in DOMAIN conv[c], NEW k,
         <<c, i, k>> \in task[t].left \union task[t].oks \union task[t].queue
  PROVE  Inbound(conv[c][i]) # {}
<1>1. Answering(conv, <<c, i, k>>)
  BY DEF AutoInv, Alone
<1>2. k \in DOMAIN conv[c][i].msgs /\ conv[c][i].msgs[k].by = "dialogue"
  BY <1>1 DEF Answering, Exists
<1> QED
  BY <1>2 DEF FirstInv, Once

(* A delivery is the first of its message, until a reply is stored.        *)
LEMMA DeliverFirst ==
  ASSUME OutreachInv, AutoInv, FirstInv, NEW t \in Tasks, Deliver(t), ~hrActed, ~lost'
  PROVE  FirstInv'
<1>0. conv \in Book /\ \A u \in Tasks : task[u] \in TaskRecords /\ TaskFits(task[u])
  BY OutreachState
<1>1. PICK tg \in task[t].left : \E new : DeliverFacts(t, tg, new)
  BY DeliverForm
<1>2. PICK new : DeliverFacts(t, tg, new)
  BY <1>1
<1>3. task[t].pc = "send" /\ conv' \in Book /\ Grows(conv, conv') /\ ~lost
  <2>1. lost' = lost \/ lost'
    BY <1>2 DEF DeliverFacts
  <2> QED
    BY <1>2, DeliverForm DEF DeliverFacts
<1>4. Once(conv, task) /\ \A u \in Tasks : Unsent(conv, task[u]) /\ Alone(conv, imLock, u, task[u])
  BY <1>3 DEF AutoInv, FirstInv
<1>5. /\ tg \in Targets /\ tg = <<tg[1], tg[2], tg[3]>> /\ tg[1] \in Candidates
      /\ tg[2] \in DOMAIN conv[tg[1]] /\ tg[3] \in DOMAIN conv[tg[1]][tg[2]].msgs
  BY TargetThere
<1>6. /\ new.kind = task[t].kind /\ new.plan = <<>> /\ new.left = task[t].left \ {tg}
      /\ task[t].kind \in Locked \union {"dialogue"}
  <2>1. task[t].kind \in Senders /\ Alone(conv, imLock, t, task[t])
    BY <1>0, <1>3, <1>4 DEF TaskFits
  <2> QED
    BY <1>2, <2>1 DEF DeliverFacts, SameTask, Alone, Senders, Automatic, Locked
<1>7. \A u \in Tasks : task'[u] = IF u = t THEN new ELSE task[u]
  BY <1>2, TaskBecomes DEF DeliverFacts
<1>8. CASE conv' = conv /\ new.oks = task[t].oks
  <2>1. Unsent(conv', new)
    BY <1>4, <1>6, <1>8 DEF Unsent
  <2> QED
    BY <1>2, <1>3, <1>6, <1>8, <2>1, SameExtended, FirstKept DEF DeliverFacts
<1>9. CASE /\ new.oks = task[t].oks \union {tg}
           /\ \E cv2 \in Conversations :
                /\ Replaced(conv, conv', tg[1], tg[2], cv2)
                /\ Rewritten(conv[tg[1]][tg[2]], cv2, tg[3],
                             Gone(conv[tg[1]][tg[2]].msgs[tg[3]], task[t].kind))
  <2> DEFINE m(c, i, k) == conv[c][i].msgs[k]
             gone == Gone(m(tg[1], tg[2], tg[3]), task[t].kind)
  <2>1. PICK cv2 \in Conversations :
               /\ Replaced(conv, conv', tg[1], tg[2], cv2)
               /\ Rewritten(conv[tg[1]][tg[2]], cv2, tg[3], gone)
    BY <1>9
  <2>2. m(tg[1], tg[2], tg[3]) \in Messages
    BY <1>0, <1>5, BookFields, ConversationFields
  <2>3. /\ gone.by = m(tg[1], tg[2], tg[3]).by /\ gone.st = m(tg[1], tg[2], tg[3]).st
        /\ gone.out = m(tg[1], tg[2], tg[3]).out + 1
    BY <2>2, GoneFields
  <2> HIDE DEF gone
  <2>4. ASSUME NEW c \in Candidates, NEW i \in DOMAIN conv[c]
        PROVE  /\ DOMAIN conv'[c] = DOMAIN conv[c] /\ DOMAIN conv'[c][i].msgs = DOMAIN conv[c][i].msgs
               /\ \A k \in DOMAIN conv[c][i].msgs :
                    /\ conv'[c][i].msgs[k].by = m(c, i, k).by /\ conv'[c][i].msgs[k].st = m(c, i, k).st
                    /\ <<c, i, k>> # tg => conv'[c][i].msgs[k].out = m(c, i, k).out
                    /\ <<c, i, k>> = tg => conv'[c][i].msgs[k].out = m(c, i, k).out + 1
    <3>1. DOMAIN conv'[c] = DOMAIN conv[c] /\ conv'[c][i] = IF c = tg[1] /\ i = tg[2] THEN cv2 ELSE conv[c][i]
      BY <2>1 DEF Replaced
    <3>2. CASE c = tg[1] /\ i = tg[2]
      <4>1. conv'[c][i] = cv2 /\ conv[c][i] = conv[tg[1]][tg[2]]
        BY <3>1, <3>2
      <4>2. DOMAIN cv2.msgs = DOMAIN conv[c][i].msgs
            /\ \A k \in DOMAIN conv[c][i].msgs : cv2.msgs[k] = IF k = tg[3] THEN gone ELSE m(c, i, k)
        BY <2>1, <4>1 DEF Rewritten
      <4>3. \A k : <<c, i, k>> = tg <=> k = tg[3]
        BY <1>5, <3>2
      <4> QED
        BY <2>3, <3>1, <3>2, <4>1, <4>2, <4>3
    <3>3. CASE ~(c = tg[1] /\ i = tg[2])
      <4>1. conv'[c][i] = conv[c][i] /\ \A k : <<c, i, k>> # tg
        BY <3>1, <3>3
      <4> QED
        BY <3>1, <4>1
    <3> QED
      BY <3>2, <3>3
  <2> HIDE DEF m
  <2>5. ASSUME NEW c \in Candidates, NEW i \in DOMAIN conv[c]
        PROVE  Inbound(conv'[c][i]) = Inbound(conv[c][i]) /\ Pending(conv'[c][i]) = Pending(conv[c][i])
    BY <2>4 DEF Inbound, Pending, Outbound, m
  <2>6. ASSUME NEW c \in Candidates, NEW i \in DOMAIN conv[c], Inbound(conv[c][i]) = {},
               NEW k, <<c, i, k>> = tg
        PROVE  task[t].kind \in Locked /\ imLock = t /\ m(c, i, k).out = 0
    <3>1. task[t].kind \in Locked
      BY <1>3, <1>6, <2>6, AnswersReply
    <3>2. tg[1] = c /\ tg[2] = i /\ tg[3] = k
      BY <2>6
    <3> QED
      BY <1>3, <1>4, <2>6, <3>1, <3>2, LockHolder DEF Unsent, m
  <2>7. ASSUME NEW c \in Candidates, NEW i \in DOMAIN conv'[c], Inbound(conv'[c][i]) = {},
               NEW k \in DOMAIN conv'[c][i].msgs
        PROVE  /\ conv'[c][i].msgs[k].by = "outreach" /\ conv'[c][i].msgs[k].out <= 1
               /\ conv'[c][i].msgs[k].out # 0 /\ k \in Pending(conv'[c][i]) =>
                    \E u \in Tasks : task'[u].kind \in Locked /\ <<c, i, k>> \in task'[u].oks
    <3>1. i \in DOMAIN conv[c]
      <4>1. DOMAIN conv'[c] = DOMAIN conv[c]
        BY <2>1 DEF Replaced
      <4> QED
        BY <4>1
    <3>2. Inbound(conv[c][i]) = {} /\ k \in DOMAIN conv[c][i].msgs
          /\ (k \in Pending(conv'[c][i]) => k \in Pending(conv[c][i]))
      BY <2>4, <2>5, <2>7, <3>1
    <3>3. /\ m(c, i, k).by = "outreach" /\ m(c, i, k).out <= 1
          /\ m(c, i, k).out # 0 /\ k \in Pending(conv[c][i]) =>
               \E u \in Tasks : task[u].kind \in Locked /\ <<c, i, k>> \in task[u].oks
      BY <1>4, <3>1, <3>2 DEF Once, m
    <3>4. CASE <<c, i, k>> = tg
      <4>1. task[t].kind \in Locked /\ m(c, i, k).out = 0
        BY <2>6, <3>1, <3>2, <3>4
      <4>2. task'[t].kind \in Locked /\ <<c, i, k>> \in task'[t].oks
        BY <1>6, <1>7, <1>9, <3>4, <4>1
      <4>3. conv'[c][i].msgs[k].out = 1 /\ conv'[c][i].msgs[k].by = "outreach"
        BY <2>4, <3>1, <3>2, <3>3, <3>4, <4>1
      <4> QED
        BY <4>2, <4>3
    <3>5. CASE <<c, i, k>> # tg
      <4>1. conv'[c][i].msgs[k].out = m(c, i, k).out /\ conv'[c][i].msgs[k].by = m(c, i, k).by
        BY <2>4, <3>1, <3>2, <3>5
      <4>2. \A u \in Tasks : task[u].kind \in Locked /\ <<c, i, k>> \in task[u].oks =>
                               task'[u].kind \in Locked /\ <<c, i, k>> \in task'[u].oks
        BY <1>6, <1>7, <1>9
      <4> QED
        BY <3>2, <3>3, <4>1, <4>2
    <3> QED
      BY <3>4, <3>5
  <2>8. ASSUME NEW u \in Tasks
        PROVE  Unsent(conv', task'[u])
    <3>1. ASSUME task'[u].kind \in Locked, NEW x \in task'[u].left \union task'[u].oks,
                 Inbound(conv'[x[1]][x[2]]) = {}
          PROVE  /\ x[3] \in Pending(conv'[x[1]][x[2]])
                 /\ x \in task'[u].left => conv'[x[1]][x[2]].msgs[x[3]].out = 0
      <4>1. /\ task[u].kind \in Locked /\ x \in task[u].left \union task[u].oks
            /\ x \in task'[u].left => x \in task[u].left /\ (u = t => x # tg)
        BY <1>6, <1>7, <1>9, <3>1
      <4>2. /\ x[1] \in Candidates /\ x[2] \in DOMAIN conv[x[1]] /\ x[3] \in DOMAIN conv[x[1]][x[2]].msgs
            /\ x = <<x[1], x[2], x[3]>>
        BY <4>1, TargetThere
      <4>3. Inbound(conv[x[1]][x[2]]) = {} /\ Pending(conv'[x[1]][x[2]]) = Pending(conv[x[1]][x[2]])
        BY <2>5, <3>1, <4>2
      <4>4. /\ x[3] \in Pending(conv[x[1]][x[2]])
            /\ x \in task[u].left => m(x[1], x[2], x[3]).out = 0
        BY <1>4, <4>1, <4>3 DEF Unsent, m
      <4>5. x \in task'[u].left => x # tg
        <5> SUFFICES ASSUME x = tg, u # t
                     PROVE  FALSE
          BY <4>1
        <5>1. imLock = t
          BY <2>6, <4>2, <4>3
        <5>2. imLock = u
          BY <4>1, LockHolder
        <5> QED
          BY <5>1, <5>2
      <4>6. x # tg => conv'[x[1]][x[2]].msgs[x[3]].out = m(x[1], x[2], x[3]).out
        BY <2>4, <4>2
      <4> QED
        BY <4>1, <4>3, <4>4, <4>5, <4>6
    <3>2. ASSUME task'[u].kind = "dialogue", task'[u].plan # <<>>
          PROVE  Inbound(conv'[task'[u].plan[1]][task'[u].plan[2]]) # {}
      <4>1. task'[u] = task[u]
        BY <1>6, <1>7, <3>2
      <4> QED
        BY <1>3, <1>4, <3>2, <4>1, PlanThere, InboundStays DEF Unsent
    <3> QED
      BY <3>1, <3>2 DEF Unsent
  <2> QED
    BY <2>7, <2>8 DEF FirstInv, Once
<1> QED
  BY <1>2, <1>8, <1>9 DEF DeliverFacts

(* What is recorded is no longer with its sender.                          *)
LEMMA MarkFirst ==
  ASSUME OutreachInv, AutoInv, FirstInv, NEW t \in Tasks, Mark(t), ~hrActed, ~lost
  PROVE  FirstInv'
<1>0. conv \in Book /\ \A u \in Tasks : task[u] \in TaskRecords /\ TaskFits(task[u])
  BY OutreachState
<1>1. PICK new : Result(t, new) /\ Rests(new) /\ (new = Idle \/ Ended(new))
  BY MarkForm
<1>2. task[t].pc = "send" /\ Grows(conv, conv')
      /\ \A c \in Candidates : DOMAIN conv'[c] = DOMAIN conv[c]
  BY MarkForm
<1>3. Tidy(conv) /\ Once(conv, task) /\ \A u \in Tasks : Unsent(conv, task[u]) /\ Alone(conv, imLock, u, task[u])
  BY DEF AutoInv, FirstInv
<1>4. task[t].kind \in Locked \union {"dialogue"}
  <2>1. task[t].kind \in Senders /\ Alone(conv, imLock, t, task[t])
    BY <1>0, <1>2, <1>3 DEF TaskFits
  <2> QED
    BY <2>1 DEF Alone, Senders, Automatic, Locked
<1>5. \A u \in Tasks : task'[u] = IF u = t THEN new ELSE task[u]
  BY <1>1, TaskBecomes
<1>6. new.plan = <<>> /\ new.left = {} /\ new.oks = {}
  BY <1>1 DEF Rests
(* A conversation without a reply is marked by the holder of the lock.     *)
<1>7. ASSUME NEW c \in Candidates, NEW i \in DOMAIN conv[c], Inbound(conv'[c][i]) = {}
      PROVE  /\ Inbound(conv[c][i]) = {} /\ conv[c][i] \in Conversations
             /\ \/ conv'[c][i] = conv[c][i] /\ <<c, i>> \notin Touched(t)
                \/ task[t].kind \in Locked /\ imLock = t /\ conv'[c][i] = Recorded(conv[c][i])
  <2>1. Inbound(conv[c][i]) = {} /\ conv[c][i] \in Conversations
    BY <1>0, <1>2, <1>7, InboundStays, BookFields
  <2>2. conv'[c][i] = IF <<c, i>> \in Touched(t) THEN Marks(t, c, i) ELSE conv[c][i]
    BY MarkForm
  <2>3. ASSUME <<c, i>> \in Touched(t)
        PROVE  task[t].kind \in Locked /\ imLock = t /\ conv'[c][i] = Recorded(conv[c][i])
    <3>1. PICK tg \in task[t].oks \union (IF task[t].kind \in ByMessage THEN task[t].queue ELSE {}) :
                 <<c, i>> = <<tg[1], tg[2]>>
      BY <2>3 DEF Touched
    <3>2. tg \in Targets
      BY <1>0, <3>1 DEF TaskRecords, TaskFits
    <3>3. tg = <<c, i, tg[3]>>
      BY <3>1, <3>2 DEF Targets
    <3>4. task[t].kind # "dialogue"
      BY <2>1, <3>1, <3>3, AnswersReply
    <3>5. task[t].kind \in Locked /\ task[t].kind \notin ByMessage
      BY <1>4, <3>4 DEF Locked, ByMessage
    <3>6. imLock = t
      BY <3>1, <3>5, LockHolder
    <3> QED
      BY <2>2, <2>3, <3>5, <3>6 DEF Marks
  <2> QED
    BY <2>1, <2>2, <2>3
<1>8. ASSUME NEW c \in Candidates, NEW i \in DOMAIN conv'[c], Inbound(conv'[c][i]) = {},
             NEW k \in DOMAIN conv'[c][i].msgs
      PROVE  /\ conv'[c][i].msgs[k].by = "outreach" /\ conv'[c][i].msgs[k].out <= 1
             /\ conv'[c][i].msgs[k].out # 0 /\ k \in Pending(conv'[c][i]) =>
                  \E u \in Tasks : task'[u].kind \in Locked /\ <<c, i, k>> \in task'[u].oks
  <2>1. i \in DOMAIN conv[c]
    BY <1>2
  <2>2. Inbound(conv[c][i]) = {} /\ conv[c][i] \in Conversations
    BY <1>7, <1>8, <2>1
  <2>3. CASE conv'[c][i] = conv[c][i] /\ <<c, i>> \notin Touched(t)
    <3>1. /\ conv[c][i].msgs[k].by = "outreach" /\ conv[c][i].msgs[k].out <= 1
          /\ conv[c][i].msgs[k].out # 0 /\ k \in Pending(conv[c][i]) =>
               \E u \in Tasks : task[u].kind \in Locked /\ <<c, i, k>> \in task[u].oks
      BY <1>3, <1>8, <2>1, <2>2, <2>3 DEF Once
    <3>2. <<c, i, k>> \notin task[t].oks
      <4> SUFFICES ASSUME <<c, i, k>> \in task[t].oks
                   PROVE  <<c, i>> \in Touched(t)
        BY <2>3
      <4> DEFINE x == <<c, i, k>>
      <4>1. x \in task[t].oks /\ <<x[1], x[2]>> = <<c, i>>
        OBVIOUS
      <4> HIDE DEF x
      <4> QED
        BY <4>1 DEF Touched
    <3>3. \A u \in Tasks : task[u].kind \in Locked /\ <<c, i, k>> \in task[u].oks =>
                             task'[u].kind \in Locked /\ <<c, i, k>> \in task'[u].oks
      BY <1>5, <3>2
    <3> QED
      BY <2>3, <3>1, <3>3
  <2>4. CASE task[t].kind \in Locked /\ imLock = t /\ conv'[c][i] = Recorded(conv[c][i])
    <3>1. /\ k \in DOMAIN conv[c][i].msgs
          /\ conv'[c][i].msgs[k].by = conv[c][i].msgs[k].by /\ conv'[c][i].msgs[k].out = conv[c][i].msgs[k].out
          /\ conv'[c][i].msgs[k].st =
               IF Drafted(conv[c][i]) # {} /\ k = Latest(Drafted(conv[c][i])) THEN "sent"
               ELSE conv[c][i].msgs[k].st
      BY <1>8, <2>2, <2>4, RecordedIs DEF Relabelled
    <3>2. /\ conv[c][i].msgs[k].by = "outreach" /\ conv[c][i].msgs[k].out <= 1
      BY <1>3, <2>1, <2>2, <3>1 DEF Once
    <3>3. ASSUME k \in Pending(conv'[c][i])
          PROVE  FALSE
      <4>1. k \in Pending(conv[c][i]) /\ conv'[c][i].msgs[k].st # "sent"
        BY <3>1, <3>3 DEF Pending, Outbound
      <4>2. conv[c][i].msgs[k].st = "drafted" /\ \A j \in Open(conv[c][i]) : j = k
        BY <1>3, <2>1, <3>2, <4>1 DEF Tidy, Open
      <4>3. k \in Drafted(conv[c][i])
        BY <4>1, <4>2 DEF Drafted, Pending
      <4>4. Latest(Drafted(conv[c][i])) \in Drafted(conv[c][i])
        <5>1. Drafted(conv[c][i]) \in SUBSET (1..Len(conv[c][i].msgs)) /\ Len(conv[c][i].msgs) \in Nat
          BY <2>2, ConversationFields
        <5> QED
          BY <4>3, <5>1, LatestIsLast
      <4>5. Latest(Drafted(conv[c][i])) \in Open(conv[c][i])
        <5>1. \A j \in Drafted(conv[c][i]) : j \in Open(conv[c][i])
          BY <1>3, <2>1, <2>2 DEF Once, Open, Drafted, Pending, Outbound
        <5> QED
          BY <4>4, <5>1
      <4> QED
        BY <3>1, <4>1, <4>2, <4>3, <4>5
    <3> QED
      BY <3>1, <3>2, <3>3
  <2> QED
    BY <1>7, <1>8, <2>1, <2>3, <2>4
<1>9. ASSUME NEW u \in Tasks
      PROVE  Unsent(conv', task'[u])
  <2>1. CASE u = t
    BY <1>5, <1>6, <2>1, EmptyUnsent
  <2>2. CASE u # t
    <3>1. task'[u] = task[u] /\ Unsent(conv, task[u])
      BY <1>3, <1>5, <2>2
    <3>2. ASSUME task[u].kind \in Locked, NEW tg \in task[u].left \union task[u].oks,
                 Inbound(conv'[tg[1]][tg[2]]) = {}
          PROVE  /\ tg[3] \in Pending(conv'[tg[1]][tg[2]])
                 /\ tg \in task[u].left => conv'[tg[1]][tg[2]].msgs[tg[3]].out = 0
      <4>1. tg[1] \in Candidates /\ tg[2] \in DOMAIN conv[tg[1]] /\ imLock = u
        BY <3>2, TargetThere, LockHolder
      <4>2. conv'[tg[1]][tg[2]] = conv[tg[1]][tg[2]]
        BY <1>7, <2>2, <3>2, <4>1
      <4> QED
        BY <3>1, <3>2, <4>2 DEF Unsent
    <3>3. ASSUME task[u].kind = "dialogue", task[u].plan # <<>>
          PROVE  Inbound(conv'[task[u].plan[1]][task[u].plan[2]]) # {}
      BY <1>2, <3>1, <3>3, PlanThere, InboundStays DEF Unsent
    <3> QED
      BY <3>1, <3>2, <3>3 DEF Unsent
  <2> QED
    BY <2>1, <2>2
<1> QED
  BY <1>8, <1>9 DEF FirstInv, Once

(* Every step keeps first contacts single.                                 *)
LEMMA FirstSteps ==
  OutreachInv /\ AutoInv /\ FirstInv /\ [Next]_vars => FirstInv'
<1> SUFFICES ASSUME OutreachInv, AutoInv, FirstInv, [Next]_vars, ~hrActed', ~lost'
             PROVE  FirstInv'
  BY DEF FirstInv
<1>0. /\ conv \in Book /\ \A t \in Tasks : task[t] \in TaskRecords /\ TaskFits(task[t]) /\ TaskValid(conv, task[t])
  BY OutreachState
<1>1. ASSUME NEW t \in Tasks, ~hrActed, ~lost
      PROVE  Alone(conv, imLock, t, task[t]) /\ Unsent(conv, task[t])
  BY <1>1 DEF AutoInv, FirstInv
<1>2. ASSUME NEW t \in Tasks, Read(t)
      PROVE  FirstInv'
  <2>1. PICK new : ReadFacts(t, new)
    BY <1>2, ReadForm
  <2>2. conv' = conv /\ ~hrActed /\ ~lost /\ task[t].pc = "read"
    BY <1>2, ReadForm DEF hist
  <2>3. new.plan = <<>> /\ task[t].oks = {} /\ new.oks = {} /\ TaskFits(new)
    BY <1>0, <2>1, <2>2 DEF ReadFacts, Result, TaskFits
  <2>4. new.kind \in Locked => new.left = {}
    BY <2>1, <2>3 DEF ReadFacts, TaskFits, Ended, Rests, Locked
  <2>5. Unsent(conv', new)
    BY <2>3, <2>4, EmptyUnsent
  <2> QED
    BY <2>1, <2>2, <2>3, <2>5, SameExtended, FirstKept DEF ReadFacts
<1>3. ASSUME NEW t \in Tasks, Acquire(t)
      PROVE  FirstInv'
  <2>1. PICK new : AcquireFacts(t, new)
    BY <1>3, AcquireForm
  <2>2. conv' = conv /\ ~hrActed /\ ~lost
    BY <1>3, AcquireForm DEF hist
  <2>3. task[t].pc = "lock"
    BY <1>3 DEF Acquire
  <2>4. task[t].oks = {}
    BY <1>0, <2>3 DEF TaskFits
  <2>5. Unsent(conv', new)
    BY <2>1, EmptyUnsent DEF AcquireFacts
  <2> QED
    BY <2>1, <2>2, <2>4, <2>5, SameExtended, FirstKept DEF AcquireFacts
<1>4. ASSUME NEW t \in Tasks, Prepare(t)
      PROVE  FirstInv'
  BY <1>4, PrepareForm, PrepareFirst DEF hist
<1>5. ASSUME NEW t \in Tasks, Save(t)
      PROVE  FirstInv'
  <2>1. ~hrActed /\ ~lost /\ task[t].pc = "prep"
    BY <1>5, SaveForm DEF hist
  <2>2. task[t].kind \in Locked \union {"dialogue"}
    BY <1>0, <1>1, <2>1 DEF Alone, TaskFits, Drafters, Automatic, Locked
  <2> QED
    BY <1>5, <2>1, <2>2, SaveFirst
<1>6. ASSUME NEW t \in Tasks, Prepared(t)
      PROVE  FirstInv'
  <2>1. PICK new : PreparedFacts(t, new)
    BY <1>6, PreparedForm
  <2>2. conv' = conv /\ ~hrActed /\ ~lost /\ task[t].pc = "prep"
    BY <1>6, PreparedForm DEF hist
  <2>3. task[t].oks = {} /\ Unsent(conv, task[t])
    BY <1>0, <1>1, <2>2 DEF TaskFits
  <2>4. CASE Rests(new)
    <3>1. Unsent(conv', new)
      BY <2>4, EmptyUnsent DEF Rests
    <3> QED
      BY <2>1, <2>2, <2>3, <3>1, SameExtended, FirstKept DEF PreparedFacts
  <2>5. CASE /\ SameTask(task[t], new) /\ new.plan = <<>>
             /\ new.left = task[t].left /\ new.oks = task[t].oks
    <3>1. Unsent(conv', new)
      BY <2>2, <2>3, <2>5 DEF SameTask, Unsent
    <3> QED
      BY <2>1, <2>2, <2>3, <3>1, SameExtended, FirstKept DEF PreparedFacts
  <2> QED
    BY <2>1, <2>4, <2>5 DEF PreparedFacts
<1>7. ASSUME NEW t \in Tasks, Deliver(t)
      PROVE  FirstInv'
  BY <1>7, DeliverForm, DeliverFirst
<1>8. ASSUME NEW t \in Tasks, Mark(t)
      PROVE  FirstInv'
  BY <1>8, MarkForm, MarkFirst DEF hist
<1>9. ASSUME NEW t \in Tasks, Store(t)
      PROVE  FirstInv'
  <2>1. PICK new : Result(t, new) /\ Rests(new)
    BY <1>9, StoreForm
  <2>2. ~hrActed /\ ~lost /\ task[t].pc = "store" /\ Grows(conv, conv') /\ Extended(conv, conv')
    BY <1>9, StoreForm, StoreExtended DEF hist
  <2>3. task[t].oks = {}
    BY <1>0, <2>2 DEF TaskFits
  <2>4. Unsent(conv', new)
    BY <2>1, EmptyUnsent DEF Rests
  <2> QED
    BY <2>1, <2>2, <2>3, <2>4, FirstKept
<1>10. ASSUME NEW t \in Tasks, NextOutreach(t)
       PROVE  FirstInv'
  <2>1. PICK new : NextFacts(t, new)
    BY <1>10, NextOutreachForm
  <2>2. conv' = conv /\ ~hrActed /\ ~lost /\ task[t].pc = "next"
    BY <1>10, NextOutreachForm DEF hist
  <2>3. task[t].oks = {}
    BY <1>0, <2>2 DEF TaskFits
  <2>4. Unsent(conv', new)
    BY <2>1, EmptyUnsent DEF NextFacts
  <2> QED
    BY <2>1, <2>2, <2>3, <2>4, SameExtended, FirstKept DEF NextFacts
<1>11. ASSUME NEW t \in Tasks, Request(t)
       PROVE  FirstInv'
  <2>1. conv' = conv /\ hrActed' \in {hrActed, TRUE} /\ lost' = lost
    BY <1>11, RequestForm
  <2>2. CASE UNCHANGED <<task, hrActed>>
    BY <2>1, <2>2 DEF FirstInv
  <2>3. CASE \E new : RequestFacts(t, new)
    <3>1. PICK new : RequestFacts(t, new)
      BY <2>3
    <3>2. /\ new.kind \in {"card", "catchup"} /\ new.pc \in {"lock", "read"} /\ new.plan = <<>> /\ ~hrActed
          /\ new.oks = {} /\ task[t].oks = {} /\ TaskFits(new)
      BY <1>0, <3>1 DEF RequestFacts, Result, TaskFits
    <3>3. new.left = {}
      BY <3>2 DEF TaskFits
    <3>4. Unsent(conv', new)
      BY <3>2, <3>3, EmptyUnsent
    <3> QED
      BY <2>1, <3>1, <3>2, <3>4, SameExtended, FirstKept DEF RequestFacts
  <2> QED
    BY <1>11, <2>2, <2>3, RequestForm
<1>12. ASSUME NEW t \in Tasks, Abort(t)
       PROVE  FirstInv'
  <2>1. conv' = conv /\ ~hrActed /\ ~lost /\ task[t].oks = {} /\ Result(t, Idle)
    BY <1>12, AbortForm
  <2>2. Unsent(conv', Idle)
    BY IdleFields, EmptyUnsent DEF Rests
  <2> QED
    BY <2>1, <2>2, SameExtended, FirstKept
<1>13. ASSUME Edit
       PROVE  FirstInv'
  BY <1>13, EditForm
<1>14. ASSUME SetReview
       PROVE  FirstInv'
  BY <1>14 DEF SetReview, data, FirstInv
<1>15. CASE UNCHANGED vars
  BY <1>15 DEF vars, data, hist, FirstInv
<1> QED
  BY <1>2, <1>3, <1>4, <1>5, <1>6, <1>7, <1>8, <1>9, <1>10, <1>11, <1>12, <1>13, <1>14, <1>15
  DEF Next, TaskStep

(* As long as every delivery is reported and no button is used, a candidate*)
(* who has not answered gets no message twice: the lock is held from the   *)
(* choice of a draft until it is recorded.                                 *)
THEOREM FirstContactIsOnce == Spec => []FirstContactOnce
<1>1. Init => FirstInv
  <2> SUFFICES ASSUME Init
               PROVE  FirstInv
    OBVIOUS
  <2>1. task = [t \in Tasks |-> Idle] /\ conv = [c \in Candidates |-> <<>>]
    BY DEF Init
  <2>2. Once(conv, task)
    BY <2>1 DEF Once
  <2>3. \A t \in Tasks : Unsent(conv, task[t])
    BY <2>1, IdleFields, EmptyUnsent DEF Rests
  <2> QED
    BY <2>2, <2>3 DEF FirstInv
<1>2. OutreachInv /\ FirstInv => FirstContactOnce
  <2> SUFFICES ASSUME OutreachInv, FirstInv, ~hrActed, ~lost, NEW id \in ConvIds, Inbound(ConvOf(id)) = {},
                      NEW k \in DOMAIN ConvOf(id).msgs
               PROVE  ConvOf(id).msgs[k].out <= 1
    BY DEF FirstContactOnce
  <2>1. id[1] \in Candidates /\ id[2] \in DOMAIN conv[id[1]] /\ ConvOf(id) = conv[id[1]][id[2]]
    BY ConvIdIs DEF ConvOf
  <2> QED
    BY <2>1 DEF FirstInv, Once
<1> QED
  BY <1>1, <1>2, OutreachHolds, AutoHolds, FirstSteps, PTL DEF Spec

=============================================================================
