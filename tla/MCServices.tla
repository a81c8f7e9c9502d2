------------------------------ MODULE MCServices ------------------------------
(* Five services of the API process that share no state: a workflow's      *)
(* event log, the login session, a PDF import, the final judgment and the  *)
(* batches that open the rows of the chat list for it and for a send.  A   *)
(* behaviour is one of theirs, part says whose, and the others rest: to    *)
(* interleave them would only multiply the states.                         *)
EXTENDS EventBus, LoginSetup, PdfImport, ReplyJudgment, ImContacts

VARIABLE part

(* A console, whose queue is shorter than the buffer as in the code; what  *)
(* others do to the memory, a poll does.                                   *)
TheClients == {"c1"}

TheOps == {"o1", "o2"}

(* Three files, two at a time: copies, the same text in another file, and  *)
(* files that cannot be read.                                              *)
TheFiles   == 1..3
TheTexts   == [a |-> "x", a2 |-> "x", b |-> "y", bad |-> ""]
TheUploads == {<<"a", "a", "a2">>, <<"a", "a2", "b">>, <<"bad", "a", "b">>, <<"bad", "bad", "a">>}

ThePeople == {"p1", "p2"}

(* Two of one surname, and one whose row mentions it; the first row of a   *)
(* namesake has the time of the other's first chat.                        *)
TheContacts == {"wei", "fang", "na"}
TheFacts ==
  [wei  |-> [name |-> "wang wei", surname |-> "wang", age |-> 30, school |-> "north",
             degree |-> "master", since |-> 0],
   fang |-> [name |-> "wang fang", surname |-> "wang", age |-> 28, school |-> "south",
             degree |-> "master", since |-> 4],
   na   |-> [name |-> "li na", surname |-> "li", age |-> 30, school |-> "north",
             degree |-> "bachelor", since |-> 60]]
TheDisplays ==
  {[name |-> "full", age |-> TRUE, school |-> TRUE, degree |-> TRUE, time |-> TRUE],
   [name |-> "masked", age |-> FALSE, school |-> FALSE, degree |-> FALSE, time |-> TRUE]}
TheMentions == [wei |-> {}, fang |-> {}, na |-> {<<"wang", FALSE>>}]
TheTimes    == [wei |-> 400, fang |-> 1, na |-> 60]
TheTargets  == <<"wei", "na">>

(* What the list shows first, and who has answered.                        *)
TheLists   == {<<>>, <<"fang">>, <<"na", "fang", "wei">>}
TheAnswers == {{}, {"fang"}}

allVars == <<part, eventVars, loginVars, importVars, judgmentVars, contactVars>>

AnyInit ==
  /\ part \in {"events", "login", "import", "judgment", "contacts"}
  /\ EventInit /\ LoginInit /\ ImportInit /\ JudgmentInit /\ ContactInit
  /\ part # "import" => content = <<"a", "a", "a2">>
  /\ part # "judgment" => chat = [c \in ThePeople |-> 0]
  /\ chatList \in TheLists /\ answered \in TheAnswers
  /\ part # "contacts" =>
       /\ ~reads /\ ~follows /\ chatList = <<>> /\ answered = {}
       /\ \A p \in TheContacts : line[p].age
       /\ \A i \in DOMAIN TheTargets : known[TheTargets[i]].age

OfEvents   == part = "events" /\ UNCHANGED <<part, loginVars, importVars, judgmentVars, contactVars>>
OfLogin    == part = "login" /\ UNCHANGED <<part, eventVars, importVars, judgmentVars, contactVars>>
OfImport   == part = "import" /\ UNCHANGED <<part, eventVars, loginVars, judgmentVars, contactVars>>
OfJudgment == part = "judgment" /\ UNCHANGED <<part, eventVars, loginVars, importVars, contactVars>>
OfContacts == part = "contacts" /\ UNCHANGED <<part, eventVars, loginVars, importVars, judgmentVars>>

AnyNext ==
  \/ OfEvents /\ Emit
  \/ OfEvents /\ Poll
  \/ OfEvents /\ EventRestart
  \/ \E c \in TheClients : OfEvents /\ Connect(c)
  \/ \E c \in TheClients : OfEvents /\ Send(c)
  \/ \E c \in TheClients : OfEvents /\ Disconnect(c)
  \/ OfLogin /\ ClosedByHand
  \/ \E o \in TheOps : OfLogin /\ Start(o)
  \/ \E o \in TheOps : OfLogin /\ Relogin(o)
  \/ \E o \in TheOps : OfLogin /\ Complete(o)
  \/ \E o \in TheOps : OfLogin /\ CancelLogin(o)
  \/ \E o \in TheOps : OfLogin /\ Refresh(o)
  \/ \E o \in TheOps : OfLogin /\ StartCloses(o)
  \/ \E o \in TheOps : OfLogin /\ WindowOpens(o)
  \/ \E o \in TheOps : OfLogin /\ PageLoads(o)
  \/ \E o \in TheOps : OfLogin /\ LaunchFails(o)
  \/ \E o \in TheOps : OfLogin /\ NewPageFails(o)
  \/ \E o \in TheOps : OfLogin /\ GotoFails(o)
  \/ \E o \in TheOps : OfLogin /\ FailCloses(o)
  \/ \E o \in TheOps : OfLogin /\ ReloginCloses(o)
  \/ \E o \in TheOps : OfLogin /\ CancelCloses(o)
  \/ \E o \in TheOps : OfLogin /\ Detected(o)
  \/ \E o \in TheOps : OfLogin /\ CompleteCloses(o)
  \/ \E o \in TheOps : OfLogin /\ Verified(o)
  \/ OfImport /\ ImportBegins
  \/ OfImport /\ Batch
  \/ \E f \in TheFiles : OfImport /\ Hash(f)
  \/ \E f \in TheFiles : OfImport /\ Extract(f)
  \/ \E f \in TheFiles : OfImport /\ Screen(f)
  \/ \E f \in TheFiles : OfImport /\ Save(f)
  \/ \E f \in TheFiles : OfImport /\ Count(f)
  \/ OfImport /\ FinishWorkflow
  \/ OfImport /\ FinishPartial
  \/ OfImport /\ RankBegins
  \/ OfImport /\ Ranks
  \/ OfImport /\ ImportCancelled
  \/ OfImport /\ ImportRestart
  \/ OfImport /\ Regenerate
  \/ OfImport /\ RankerBegins
  \/ OfImport /\ RankerEnds
  \/ OfJudgment /\ StartRoute
  \/ OfJudgment /\ Stop
  \/ \E c \in ThePeople : OfJudgment /\ Answer(c)
  \/ OfJudgment /\ RunBegins
  \/ OfJudgment /\ List
  \/ OfJudgment /\ Read
  \/ OfJudgment /\ Judge
  \/ OfJudgment /\ Enrich
  \/ OfJudgment /\ Report
  \/ OfJudgment /\ Persist
  \/ OfJudgment /\ Stored
  \/ OfJudgment /\ RunFinishes
  \/ OfJudgment /\ Fail
  \/ OfJudgment /\ JudgmentRestart
  \/ \E c \in ThePeople : OfJudgment /\ ScanReads(c)
  \/ OfJudgment /\ ScanWrites
  \/ OfContacts /\ OpenTab
  \/ OfContacts /\ NextOne
  \/ OfContacts /\ Aborts
  \/ OfContacts /\ Look
  \/ OfContacts /\ Click
  \/ OfContacts /\ Type
  \/ OfContacts /\ Verify
  \/ OfContacts /\ ReadReply
  \/ OfContacts /\ ListChanges

AnySpec == AnyInit /\ [][AnyNext]_allVars

(* The fairness each of them states; see there.                            *)
AnyFairSpec ==
  /\ AnySpec
  /\ \A o \in TheOps : WF_allVars(OfLogin /\ Step(o))
  /\ WF_allVars(OfJudgment /\ Runner)
=============================================================================
