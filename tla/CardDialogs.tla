------------------------------ MODULE CardDialogs ------------------------------
(***************************************************************************)
(* The dialogs of the recruiting site on the way through a result card:    *)
(* the online resume, the collection in the job's folder, the chat, its    *)
(* choice of a job, and the way back to the list                           *)
(* (services/fetch_worker/extract_popup.py, extract_monitor.py).           *)
(*                                                                         *)
(* The page is a stack of layers over the list, the topmost first, each    *)
(* <<kind, candidate>>.  What a click does is the site's choice, nothing   *)
(* included; the dialog that asks for the job may come when nobody waits   *)
(* for it any more.  A card under a layer cannot be clicked: Playwright    *)
(* waits for the point to be the card's, and raises.                       *)
(***************************************************************************)
EXTENDS Naturals, Sequences, SequencesExt, FiniteSets

CONSTANTS Candidates,
          RepeatLimit,       \* JobSelectStuckTracker.REPEAT_LIMIT
          HandlerTries, BackTries

ASSUME DialogLimits ==
  {RepeatLimit, HandlerTries, BackTries} \subseteq Nat \ {0} /\ IsFiniteSet(Candidates)

VARIABLES
  at,        \* the await of _process_one_card
  card,      \* its candidate
  plan,      \* what the judgment asks for: "none", "collect" or "chat"
  layers,    \* the page
  owed,      \* candidates whose job dialog the site has still to show
  tracker,   \* failed_cycles of _job_select_tracker, a global of the module
  caller,    \* who waits for _handle_job_select_popup
  cycle,     \* its turns
  exits,     \* the turns of _ensure_back_to_list
  folder,    \* external: the candidates in the job's folder
  chats,     \* external: the jobs under which a candidate was asked
  record     \* the mark in the candidate's metadata

site   == <<folder, chats, owed>>
dialog == <<tracker, caller, cycle>>
dialogVars == <<at, card, plan, layers, dialog, exits, site, record>>

Kinds   == {"resume", "folders", "got it", "job", "other"}
Jobs    == {"configured", "first", "unasked"}
Nobody  == "nobody"
NoMark  == "none"

DialogInit ==
  /\ at = "list" /\ card = Nobody /\ plan = "none" /\ layers = <<>>
  /\ tracker = 0 /\ caller = "none" /\ cycle = 0 /\ exits = 0
  /\ folder = {} /\ chats = [c \in Candidates |-> {}] /\ owed = {}
  /\ record = [c \in Candidates |-> NoMark]

-----------------------------------------------------------------------------
(* The page                                                                *)

OnTop(kind)  == layers # <<>> /\ Head(layers)[1] = kind
Shown(kind)  == \E i \in DOMAIN layers : layers[i][1] = kind
Layer(kind)  == CHOOSE i \in DOMAIN layers : layers[i][1] = kind
Owner(kind)  == layers[Layer(kind)][2]

(* _is_job_select_popup_visible looks at the topmost layer only.           *)
AsksForJob == OnTop("job")

(* _is_list_interactive: only these two layers count as covering the list. *)
Interactive == ~AsksForJob /\ ~Shown("resume")

(* A click on an exit, wherever it is, closes a layer or none.             *)
ClosesOne == layers' \in {layers} \union {RemoveAt(layers, i) : i \in DOMAIN layers}

Opens(kind, c) == layers' = <<<<kind, c>>>> \o layers

(* The dialog comes after all.                                             *)
SiteShows ==
  /\ \E c \in owed : Opens("job", c) /\ owed' = owed \ {c}
  /\ UNCHANGED <<at, card, plan, dialog, exits, folder, chats, record>>

(* The tracker is shared by the fetches of all workflows.                  *)
OtherFetch ==
  /\ tracker' \in {0, tracker + 1} /\ tracker' <= RepeatLimit
  /\ UNCHANGED <<at, card, plan, layers, caller, cycle, exits, site, record>>

-----------------------------------------------------------------------------
(* The card: _process_one_card                                             *)

ToList == at' = "back" /\ exits' = 0

Fails == ToList /\ record' = [record EXCEPT ![card] = "failed"] /\ UNCHANGED plan

(* Mutant of Uncovered: the click is forced through what lies on the list. *)
UncoveredForced == ~Shown("resume")

Uncovered == layers = <<>>

(* The card is clicked and read, and its candidate judged.                 *)
Judge(c) ==
  /\ at = "list" /\ record[c] = NoMark
  /\ card' = c
  /\ \/ /\ Uncovered
        /\ Opens("resume", c)
        /\ plan' \in {"collect", "chat"} /\ at' = "favorite"
        /\ UNCHANGED <<exits, record>>
     \/ /\ Uncovered
        /\ Opens("resume", c)
        /\ plan' = "none" /\ record' = [record EXCEPT ![c] = "excluded"] /\ ToList
     \/ \* covered, not opened, not read, or not judged
        /\ UNCHANGED layers \/ (Uncovered /\ Opens("resume", c))
        /\ plan' = "none" /\ record' = [record EXCEPT ![c] = "failed"] /\ ToList
  /\ UNCHANGED <<dialog, site>>

(* _click_collect_favorite: a choice of folders that is open already will  *)
(* do.                                                                     *)
Favorite ==
  /\ at = "favorite"
  /\ \/ /\ Shown("resume")
        /\ IF Shown("folders") THEN UNCHANGED layers ELSE Opens("folders", Owner("resume"))
        /\ at' = "folder" /\ UNCHANGED <<plan, exits, record>>
     \/ ~(Shown("folders") /\ Shown("resume")) /\ Fails /\ UNCHANGED layers
     \/ ~Shown("folders") /\ Shown("resume") /\ Fails /\ Opens("folders", Owner("resume"))
  /\ UNCHANGED <<card, dialog, site>>

(* _click_decision_collect_tag: the row counts as clicked when the site    *)
(* confirms it; it may have counted for the site all the same.             *)
ChooseFolder ==
  /\ at = "folder"
  /\ \/ /\ Shown("folders")
        /\ folder' = folder \union {Owner("folders")}
        /\ \/ Opens("got it", Owner("folders")) /\ at' = "got it" /\ UNCHANGED <<plan, exits, record>>
           \/ Fails /\ UNCHANGED layers
     \/ Fails /\ UNCHANGED <<layers, folder>>
  /\ UNCHANGED <<card, dialog, chats, owed>>

(* _wait_and_click_collect_confirm, then what the resume's button says.    *)
GotIt ==
  /\ at = "got it"
  /\ \/ /\ Shown("got it")
        /\ LET rest == RemoveAt(layers, Layer("got it"))
           IN layers' \in {rest} \union
                {RemoveAt(rest, i) : i \in {i \in DOMAIN rest : rest[i][1] = "folders"}}
        /\ \/ plan = "collect" /\ at' = "mark" /\ UNCHANGED <<plan, exits, record>>
           \/ plan = "chat" /\ Shown("resume") /\ at' = "chat" /\ UNCHANGED <<plan, exits, record>>
           \/ plan = "chat" /\ Shown("resume") /\ at' = "mark" /\ plan' = "prior"
              /\ UNCHANGED <<exits, record>>
           \/ plan = "chat" /\ Fails
     \/ Fails /\ UNCHANGED layers
  /\ UNCHANGED <<card, dialog, site>>

Asked(c, job) == chats' = [chats EXCEPT ![c] = @ \union {job}]

(* _click_communicate_in_popup: whatever it clicked, a page that does not  *)
(* ask for the job 0.9 s later is taken for a chat.                        *)
Chat ==
  /\ at = "chat"
  /\ \/ Fails /\ UNCHANGED <<layers, chats, owed, caller, cycle>>
     \/ /\ \/ UNCHANGED <<layers, chats, owed>>
           \/ /\ Asked(card, "unasked")
              /\ UNCHANGED layers \/ Opens("other", card)
              /\ UNCHANGED owed
           \/ Opens("job", card) /\ UNCHANGED <<chats, owed>>
           \/ owed' = owed \union {card} /\ UNCHANGED <<layers, chats>>
        /\ IF layers' # <<>> /\ Head(layers')[1] = "job"
             THEN at' = "job" /\ caller' = "chat" /\ cycle' = 0
             ELSE at' = "mark" /\ UNCHANGED <<caller, cycle>>
        /\ UNCHANGED <<plan, exits, record>>
  /\ UNCHANGED <<card, tracker, folder>>

MarkOf == [collect |-> "collected", chat |-> "contacted", prior |-> "prior"]

(* _mark_collect_only, _mark_chat_initiated; the write may fail.           *)
Mark ==
  /\ at = "mark"
  /\ ToList
  /\ \E mark \in {MarkOf[plan], "failed"} : record' = [record EXCEPT ![card] = mark]
  /\ UNCHANGED <<card, plan, layers, dialog, site>>

-----------------------------------------------------------------------------
(* The job dialog: _handle_job_select_popup, _recover_job_select_loop      *)

(* Back to whoever called.                                                 *)
Returns(ok) ==
  IF caller = "back"
    THEN at' = (IF ok THEN "back" ELSE "dismiss") /\ UNCHANGED <<exits, record>>
    ELSE IF ok THEN at' = "mark" /\ UNCHANGED <<exits, record>>
    ELSE ToList /\ record' = [record EXCEPT ![card] = "failed"]

(* One more turn in vain: on_cycle_complete(True).                         *)
InVain(next) ==
  /\ tracker' = tracker + 1
  /\ IF tracker' >= RepeatLimit THEN at' = "recover" /\ UNCHANGED <<exits, record>> ELSE next

HandlerSkips ==
  /\ at = "job" /\ ~AsksForJob
  /\ tracker' = 0 /\ Returns(TRUE)
  /\ UNCHANGED <<card, plan, layers, caller, cycle, site>>

HandlerGivesUp ==
  /\ at = "job" /\ AsksForJob /\ cycle = 0 /\ tracker >= RepeatLimit
  /\ at' = "recover"
  /\ UNCHANGED <<card, plan, layers, dialog, exits, site, record>>

(* On the way back to the list no job title is given, and the first one is *)
(* taken.                                                                  *)
JobTaken == IF caller = "chat" THEN "configured" ELSE "first"

(* A position is chosen and confirmed, with or without effect; when there  *)
(* is none, or no button, the dialog is dismissed.                         *)
HandlerTurn ==
  /\ at = "job" /\ AsksForJob /\ cycle < HandlerTries
  /\ cycle > 0 \/ tracker < RepeatLimit
  /\ \/ /\ ClosesOne /\ cycle' = HandlerTries
        /\ UNCHANGED <<at, tracker, exits, record, chats>>
     \/ /\ layers' \in {Tail(layers), <<<<"other", Head(layers)[2]>>>> \o Tail(layers)}
        /\ Asked(Head(layers)[2], JobTaken)
        /\ cycle' = cycle + 1
        /\ IF layers' # <<>> /\ Head(layers')[1] = "job"
             THEN InVain(UNCHANGED <<at, exits, record>>)
             ELSE tracker' = 0 /\ Returns(TRUE)
     \/ /\ cycle' = cycle + 1
        /\ InVain(UNCHANGED <<at, exits, record>>)
        /\ UNCHANGED <<layers, chats>>
  /\ UNCHANGED <<card, plan, caller, folder, owed>>

HandlerEnds ==
  /\ at = "job" /\ AsksForJob /\ cycle = HandlerTries
  /\ InVain(Returns(FALSE))
  /\ UNCHANGED <<card, plan, layers, caller, cycle, site>>

Recover ==
  /\ at = "recover" /\ at' = "clear"
  /\ tracker' = 0 /\ ClosesOne
  /\ UNCHANGED <<card, plan, caller, cycle, exits, site, record>>

(* One exit after another, and back to whoever called                      *)
Clear ==
  /\ at = "clear"
  /\ \/ ClosesOne /\ UNCHANGED <<at, exits, record>>
     \/ Returns(FALSE) /\ UNCHANGED layers
  /\ UNCHANGED <<card, plan, dialog, site>>

-----------------------------------------------------------------------------
(* Back to the list: _ensure_back_to_list, _force_recovery_to_list         *)

(* Mutant of CountExit: a turn that answers the job dialog is not counted. *)
CountExitUnlessJob == exits' = IF AsksForJob THEN exits ELSE exits + 1

CountExit == exits' = exits + 1

(* _ensure_back_to_list returns.  When the list is still covered, what went*)
(* wrong is reported and the loop forces the list, but after an exception. *)
Arrives ==
  /\ at = "back" /\ (Interactive \/ exits = BackTries)
  /\ at' \in IF Interactive THEN {"list"} ELSE {"list", "force"}
  /\ tracker' = IF exits < BackTries THEN 0 ELSE tracker
  /\ UNCHANGED <<card, plan, layers, caller, cycle, exits, site, record>>

Forces(from) ==
  /\ at = from
  /\ tracker' = 0
  /\ IF Interactive THEN at' = "list" /\ UNCHANGED layers ELSE at' = "forcing" /\ ClosesOne
  /\ UNCHANGED <<card, plan, caller, cycle, exits, site, record>>

Forcing ==
  /\ at = "forcing"
  /\ ClosesOne /\ at' \in {"forcing", "list"}
  /\ UNCHANGED <<card, plan, dialog, exits, site, record>>

Leaves ==
  /\ at = "back" /\ ~Interactive /\ exits < BackTries
  /\ CountExit
  /\ IF AsksForJob
       THEN at' = "job" /\ caller' = "back" /\ cycle' = 0 /\ UNCHANGED layers
       ELSE ClosesOne /\ UNCHANGED <<at, caller, cycle>>
  /\ UNCHANGED <<card, plan, tracker, site, record>>

(* _dismiss_topmost_overlay after a handler that failed                    *)
Dismiss ==
  /\ at = "dismiss"
  /\ at' = "back" /\ ClosesOne
  /\ UNCHANGED <<card, plan, dialog, exits, site, record>>

(* The watchdog between two cards                                          *)
ForceList == Forces("list")

CardStep ==
  \/ Favorite \/ ChooseFolder \/ GotIt \/ Chat \/ Mark
  \/ HandlerSkips \/ HandlerGivesUp \/ HandlerTurn \/ HandlerEnds \/ Recover \/ Clear
  \/ Arrives \/ Leaves \/ Dismiss \/ Forces("force") \/ Forcing

DialogNext ==
  \/ \E c \in Candidates : Judge(c)
  \/ CardStep \/ ForceList \/ SiteShows \/ OtherFetch

DialogSpec == DialogInit /\ [][DialogNext]_dialogVars

(* Every call on the page has a timeout.                                   *)
FairDialogSpec == DialogSpec /\ WF_dialogVars(CardStep)

-----------------------------------------------------------------------------
(* Properties                                                              *)

(* The order of _click_contact_now, "first the collection in the job's     *)
(* folder, then the chat" (extract_popup.py:1518), as the site sees it:    *)
(* whoever is marked as collected or contacted, and whoever is asked       *)
(* through whatever dialog shows up later, lies in the folder.             *)
CollectedFirst ==
  \A c \in Candidates :
    record[c] \in {"collected", "contacted", "prior"} \/ chats[c] # {} => c \in folder

(* A card comes to its end, whatever the dialogs do: every loop that       *)
(* closes them is bounded, also through the dialogs they open.             *)
CardEnds == [](at # "list" => <>(at = "list"))

=============================================================================
