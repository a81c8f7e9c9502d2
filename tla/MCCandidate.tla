----------------------------- MODULE MCCandidate -----------------------------
(* What happens to one candidate after another: the dialogs on the way     *)
(* through the result cards, the screening and its shortlists, the resume  *)
(* library and the conversation under Temporal.  They share no state in    *)
(* memory, and a behaviour is one of theirs: part says whose, and the      *)
(* others rest.                                                            *)
EXTENDS CardDialogs, CandidateConversation, ResumeLibrary, Screening

VARIABLE part

(* Two cards, so that what one leaves open meets the next; one try more    *)
(* than what still works in every loop.                                    *)
TheCards == {"c1", "c2"}

(* Two jobs' folders and four candidates: two who pass for each other, one *)
(* with their name and another company, one with another name.  Asked for  *)
(* are one of the first page, who has look-alikes, and one of the second.  *)
wang  == [surname |-> "wang", age |-> 30, company |-> "acme", numbers |-> {30}]
wang2 == [surname |-> "wang", age |-> 31, company |-> "acme group", numbers |-> {30, 31}]
wang3 == [surname |-> "wang", age |-> 30, company |-> "bolt", numbers |-> {30}]
li    == [surname |-> "li",   age |-> 40, company |-> "bolt", numbers |-> {40}]

ThePeople  == {wang, wang2, wang3, li}
TheFolders == {"jobA", "jobB"}
TheCollections == {[jobA |-> <<wang3, wang, li>>, jobB |-> <<>>]}
TheAsked == {wang, li}
TheSimilar == {{"acme", "acme group"}}

(* Two persons, both of whom two cards may show; an answer on each side of *)
(* the score that is asked for.                                            *)
ThePersons  == {"p1", "p2"}
TheOutcomes == {[score |-> 50, level |-> "observe"], [score |-> 70, level |-> "followup"]}

allVars == <<part, conversationVars, dialogVars, libraryVars, screeningVars>>

AnyInit ==
  /\ part \in {"talk", "dialogs", "library", "results"}
  /\ ConversationInit /\ DialogInit /\ LibraryInit /\ ScreeningInit
  /\ part # "talk" => sendMode = "draft_first" /\ conv.status = ""

OfTalk    == part = "talk" /\ UNCHANGED <<part, dialogVars, libraryVars, screeningVars>>
OfDialogs == part = "dialogs" /\ UNCHANGED <<part, conversationVars, libraryVars, screeningVars>>
OfLibrary == part = "library" /\ UNCHANGED <<part, conversationVars, dialogVars, screeningVars>>
OfResults == part = "results" /\ UNCHANGED <<part, conversationVars, dialogVars, libraryVars>>

AnyNext ==
  \/ OfTalk /\ Recruit
  \/ OfTalk /\ Converse
  \/ OfTalk /\ Signal
  \/ OfTalk /\ CandidateWrites
  \/ OfTalk /\ Scan
  \/ \E n \in Replies : OfTalk /\ Ingest(n)
  \/ \E c \in TheCards : OfDialogs /\ Judge(c)
  \/ OfDialogs /\ Favorite
  \/ OfDialogs /\ ChooseFolder
  \/ OfDialogs /\ GotIt
  \/ OfDialogs /\ Chat
  \/ OfDialogs /\ Mark
  \/ OfDialogs /\ HandlerSkips
  \/ OfDialogs /\ HandlerGivesUp
  \/ OfDialogs /\ HandlerTurn
  \/ OfDialogs /\ HandlerEnds
  \/ OfDialogs /\ Recover
  \/ OfDialogs /\ Clear
  \/ OfDialogs /\ Forcing
  \/ OfDialogs /\ Arrives
  \/ OfDialogs /\ Leaves
  \/ OfDialogs /\ Dismiss
  \/ OfDialogs /\ Forces("force")
  \/ OfDialogs /\ ForceList
  \/ OfDialogs /\ SiteShows
  \/ OfDialogs /\ OtherFetch
  \/ OfLibrary /\ Navigate
  \/ OfLibrary /\ SelectFolder
  \/ OfLibrary /\ WaitForRows
  \/ OfLibrary /\ GoToCached
  \/ OfLibrary /\ ScanCached
  \/ OfLibrary /\ BeginAgain
  \/ OfLibrary /\ ScanPage
  \/ OfLibrary /\ NextPage
  \/ OfLibrary /\ Locate
  \/ OfLibrary /\ Click
  \/ OfLibrary /\ Retry
  \/ OfLibrary /\ GivesUpOpening
  \/ OfLibrary /\ RowsArrive
  \/ OfLibrary /\ Scrolls
  \/ OfLibrary /\ ListChanges
  \/ OfLibrary /\ TabTurned
  \/ \E p \in TheAsked, f \in TheFolders : OfLibrary /\ Ask(p, f)
  \/ \E p \in ThePersons : OfResults /\ SaveSnapshot(p)
  \/ \E i \in DOMAIN person : OfResults /\ Screen(i)
  \/ OfResults /\ FinalizeReads
  \/ OfResults /\ FinalizeWrites
  \/ OfResults /\ BatchReads
  \/ OfResults /\ BatchCommits
  \/ OfResults /\ JobFails
  \/ OfResults /\ JobMarks
  \/ \E a \in Judges, i \in DOMAIN person : OfResults /\ JudgeReads(a, i)
  \/ \E a \in Judges : OfResults /\ JudgeWrites(a)
  \/ \E a \in Judges : OfResults /\ JudgeFails(a)

AnySpec == AnyInit /\ [][AnyNext]_allVars

(* The fairness each of them states; see there.                            *)
AnyFairSpec ==
  /\ AnySpec
  /\ WF_allVars(OfTalk /\ Converse)
  /\ WF_allVars(OfDialogs /\ CardStep)
=============================================================================
