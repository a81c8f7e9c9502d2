------------------------------ MODULE ImContacts ------------------------------
(***************************************************************************)
(* Whose chat window a batch works in: the candidates of the database are  *)
(* looked for, one after another, among the rows of the site's list of     *)
(* started chats, and the message is typed into, or the reply read from,   *)
(* the window the click opens (services/fetch_worker/im_chat_runner.py,    *)
(* im_contact_match.py).                                                   *)
(*                                                                         *)
(* A text is the candidate it was written for.  The rows are people; what a*)
(* row shows of its person is fixed, which rows are there is the site's    *)
(* choice, and a mark stays with its row (data-hr-im-contact).  A name that*)
(* is shown is how the row begins; a school is shown whole or not at all.  *)
(***************************************************************************)
EXTENDS Integers, Sequences, SequencesExt, FiniteSets

CONSTANTS Contacts,
          Facts,      \* Facts[p]: name, surname, age, school, degree, minute of the first chat
          Displays,   \* what a row may show, and what a snapshot may hold, of Facts
          Mentions,   \* Mentions[p]: surnames in a row's preview of the last message,
                      \* each with whether it begins a word
          ListTime,   \* ListTime[p]: the minute of the last message
          Texts,      \* candidates in the order of the batch
          Retries,    \* INITIATED_LIST_RETRIES
          MaxChanges  \* bound: changes of the list

(* What is noted for a candidate for whom nobody's words are noted.        *)
Outcomes == {"none", "not found", "click failed", "send failed", "ok", "empty", "ours"}

ASSUME ContactLimits ==
  /\ Retries \in Nat \ {0} /\ MaxChanges \in Nat
  /\ Texts \in Seq(Contacts) /\ IsInjective(Texts)
  /\ Contacts \intersect Outcomes = {} /\ "nobody" \notin Contacts
  /\ \A p \in Contacts : ListTime[p] \in Int /\ Facts[p].since \in Int

VARIABLES
  reads,       \* run_im_sync_replies_serial, and not run_im_send_batch
  follows,     \* external: the window is the clicked row's within 800 ms
  line,        \* line[p]: what the row of p shows
  known,       \* known[c]: what the snapshot of c holds
  chatList,    \* the rows, top first
  step,        \* "tab", "next", "look", "click", "type", "verify", "read", "closed"
  targets,     \* the rest of the batch
  attempt,
  picked,      \* whose row was matched
  chatWindow,  \* whose chat is open
  sent,        \* external: sent[p]: the texts in the window of p
  answered,    \* external: who has answered
  result,      \* result[c]: an outcome, or whose words were read
  changes

site == <<follows, line, chatList, sent, answered, changes>>
contactVars == <<reads, known, step, targets, attempt, picked, chatWindow, result, site>>

Nobody == "nobody"

Displayed == [name : {"full", "masked", "none"}, age : BOOLEAN, school : BOOLEAN,
              degree : BOOLEAN, time : BOOLEAN]

Arrangements == UNION {{s \in [1..n -> Contacts] : IsInjective(s)} : n \in 0..Cardinality(Contacts)}

ContactInit ==
  /\ reads \in BOOLEAN /\ follows \in BOOLEAN
  /\ line \in [Contacts -> Displays] /\ known \in [Range(Texts) -> Displays]
  /\ chatList \in Arrangements
  /\ step = "tab" /\ targets = Texts /\ attempt = 0 /\ picked = Nobody /\ chatWindow = Nobody
  /\ sent = [p \in Contacts |-> {}] /\ answered \in SUBSET Contacts
  /\ result = [c \in Range(Texts) |-> "none"]
  /\ changes = 0

-----------------------------------------------------------------------------
(* match_contact_index                                                     *)

(* A snapshot without a name of a person is matched by nothing.            *)
Matchable(c) == known[c].name # "none"
ByName(c)    == known[c].name = "full"          \* not use_surname_only

ShowsAge(c, p)    == known[c].age /\ line[p].age /\ Facts[c].age = Facts[p].age
ShowsSchool(c, p) == known[c].school /\ line[p].school /\ Facts[c].school = Facts[p].school
ShowsDegree(c, p) == known[c].degree /\ line[p].degree /\ Facts[c].degree = Facts[p].degree

(* name in text                                                            *)
ShowsName(c, p) == ByName(c) /\ line[p].name = "full" /\ Facts[c].name = Facts[p].name

(* _surname_matches_list_name: at the start of the row, or of a word.      *)
ShowsSurname(c, p) ==
  \/ line[p].name # "none" /\ Facts[c].surname = Facts[p].surname
  \/ <<Facts[c].surname, TRUE>> \in Mentions[p]

(* The row has the surname anywhere, with the age or the school.           *)
ShowsWithin(c, p) ==
  /\ <<Facts[c].surname, FALSE>> \in Mentions[p]
  /\ ShowsAge(c, p) \/ ShowsSchool(c, p)

Named(c, p) == ShowsName(c, p) \/ ShowsSurname(c, p) \/ ShowsWithin(c, p)

NameScore(c, p) ==
  CASE ShowsName(c, p) -> 20 + 5
    [] ~ShowsName(c, p) /\ ShowsSurname(c, p) -> IF ByName(c) THEN 14 ELSE 16
    [] OTHER -> IF ShowsAge(c, p) THEN 14 ELSE 12

(* time_proximity_score                                                    *)
Apart(c, p) == LET d == ListTime[p] - Facts[c].since IN IF d < 0 THEN -d ELSE d

TimeScore(c, p) ==
  IF ~(known[c].time /\ line[p].time) THEN 0
  ELSE CASE Apart(c, p) <= 2 -> 20
         [] Apart(c, p) > 2 /\ Apart(c, p) <= 5 -> 12
         [] Apart(c, p) > 5 /\ Apart(c, p) <= 10 -> 6
         [] OTHER -> 0

(* What else the row shows of the candidate.                               *)
OtherScore(c, p) ==
  TimeScore(c, p) + (IF ShowsAge(c, p) THEN 12 ELSE 0)
  + (IF ShowsSchool(c, p) THEN 10 ELSE 0) + (IF ShowsDegree(c, p) THEN 4 ELSE 0)

(* Mutant of Score: what the row shows is enough without a name.           *)
ScoreAnonymous(c, p) == (IF Named(c, p) THEN NameScore(c, p) ELSE 0) + OtherScore(c, p)

(* _score_contact_match                                                    *)
Score(c, p) == IF Named(c, p) THEN NameScore(c, p) + OtherScore(c, p) ELSE 0

(* A masked name is matched by less, when the first chat's time is known.  *)
Threshold(c) == IF known[c].name = "masked" /\ known[c].time THEN 10 ELSE 12

(* The places of the best row that is good enough; of equal rows, the first*)
Best(c) ==
  {i \in DOMAIN chatList :
     /\ Score(c, chatList[i]) >= Threshold(c)
     /\ \A j \in DOMAIN chatList : IF j < i THEN Score(c, chatList[j]) < Score(c, chatList[i])
                                        ELSE Score(c, chatList[j]) <= Score(c, chatList[i])}

(* Whose row is found; Nobody's when none is good enough.                  *)
Match(c) ==
  IF Matchable(c) /\ Best(c) # {} THEN chatList[CHOOSE i \in Best(c) : TRUE] ELSE Nobody

-----------------------------------------------------------------------------
(* The batch                                                               *)

Target == Head(targets)

NextTarget ==
  /\ targets' = Tail(targets) /\ attempt' = 0 /\ picked' = Nobody /\ step' = "next"

(* What was found out about the target, and on to the next one.            *)
Ends(outcome) ==
  /\ result' = [result EXCEPT ![Target] = outcome]
  /\ NextTarget
  /\ UNCHANGED <<reads, known, chatWindow>>

(* navigate_to_im_center and the tab of the chats that were started; a tab *)
(* that cannot be clicked ends the batch.                                  *)
OpenTab ==
  /\ step = "tab"
  /\ step' \in {"next", "closed"}
  /\ UNCHANGED <<reads, known, targets, attempt, picked, chatWindow, result, site>>

(* The next target; the batch ends after the last, or when the judgment was*)
(* stopped.                                                                *)
NextOne ==
  /\ step = "next"
  /\ \/ step' = "look" /\ targets # <<>>
     \/ step' = "closed" /\ (targets = <<>> \/ reads)
  /\ UNCHANGED <<reads, known, targets, attempt, picked, chatWindow, result, site>>

(* An exception in any await, or a cancellation: the page is closed.       *)
Aborts ==
  /\ step # "closed"
  /\ step' = "closed"
  /\ UNCHANGED <<reads, known, targets, attempt, picked, chatWindow, result, site>>

(* One turn of _open_matched_contact.                                      *)
Look ==
  /\ step = "look"
  /\ \/ /\ Match(Target) # Nobody
        /\ picked' = Match(Target) /\ step' = "click"
        /\ UNCHANGED <<reads, known, targets, attempt, chatWindow, result>>
     \/ /\ Match(Target) = Nobody /\ attempt + 1 < Retries
        /\ attempt' = attempt + 1
        /\ UNCHANGED <<reads, known, step, targets, picked, chatWindow, result>>
     \/ /\ Match(Target) = Nobody /\ attempt + 1 = Retries
        /\ Ends("not found")
  /\ UNCHANGED site

(* The marked row is clicked, if it is still there.                        *)
Click ==
  /\ step = "click"
  /\ \/ /\ picked \notin Range(chatList)
        /\ Ends("click failed")
     \/ /\ picked \in Range(chatList)
        /\ chatWindow' \in {picked} \union (IF follows THEN {} ELSE {chatWindow})
        /\ step' = IF reads THEN "read" ELSE "type"
        /\ UNCHANGED <<reads, known, targets, attempt, picked, result>>
  /\ UNCHANGED site

(* _fill_and_send: no input or no button is found, or the button is pressed*)
(* and the message goes into the open window, or nowhere.                  *)
Type ==
  /\ step = "type"
  /\ \/ Ends("send failed") /\ UNCHANGED site
     \/ /\ step' = "verify"
        /\ \/ chatWindow # Nobody /\ sent' = [sent EXCEPT ![chatWindow] = @ \union {Target}]
           \/ UNCHANGED sent
        /\ UNCHANGED <<reads, known, targets, attempt, picked, chatWindow, result,
                       follows, line, chatList, answered, changes>>

(* _verify_message_sent: the open window has a message of ours with the    *)
(* text.                                                                   *)
Verify ==
  /\ step = "verify"
  /\ Ends(IF chatWindow # Nobody /\ Target \in sent[chatWindow] THEN "ok" ELSE "send failed")
  /\ UNCHANGED site

(* _read_latest_inbound: the last message of the other side or, without    *)
(* one, the last message there is.                                         *)
LatestText(w) ==
  IF w = Nobody THEN "empty" ELSE IF w \in answered THEN w ELSE "ours"

ReadReply ==
  /\ step = "read"
  /\ \E text \in {"empty", LatestText(chatWindow)} : Ends(text)
  /\ UNCHANGED site

(* External: the site loads, adds and moves rows at any time.              *)
ListChanges ==
  /\ step # "closed" /\ changes < MaxChanges
  /\ chatList' \in Arrangements \ {chatList}
  /\ changes' = changes + 1
  /\ UNCHANGED <<reads, known, step, targets, attempt, picked, chatWindow, result,
                 follows, line, sent, answered>>

ContactNext ==
  OpenTab \/ NextOne \/ Aborts \/ Look \/ Click \/ Type \/ Verify \/ ReadReply \/ ListChanges

ContactSpec == ContactInit /\ [][ContactNext]_contactVars

-----------------------------------------------------------------------------
(* Properties                                                              *)

(* The batch and the site have their types.                                *)
ContactTypeOK ==
  /\ line \in [Contacts -> Displayed] /\ known \in [Range(Texts) -> Displayed]
  /\ Range(chatList) \subseteq Contacts /\ IsSuffix(targets, Texts)
  /\ {picked, chatWindow} \subseteq Contacts \union {Nobody}
  /\ sent \in [Contacts -> SUBSET Range(Texts)] /\ attempt < Retries

(* When the window follows the click, a text goes to nobody but people     *)
(* whose rows bear the candidate's name or surname, a send is reported only*)
(* when one of them has it, and what is read for a candidate was written by*)
(* one of them, or by us: the list may change between the matching and the *)
(* click, and from one target to the next.                                 *)
OnlyNamesakes ==
  follows =>
    /\ \A p \in Contacts : \A c \in sent[p] : Named(c, p)
    /\ \A c \in Range(Texts) :
         /\ result[c] = "ok" => \E p \in Contacts : c \in sent[p]
         /\ result[c] \in Contacts => Named(c, result[c])
=============================================================================
