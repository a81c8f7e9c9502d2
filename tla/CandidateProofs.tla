---------------------------- MODULE CandidateProofs ----------------------------
(***************************************************************************)
(* Theorems about what happens to one candidate: the dialogs on the way    *)
(* through the cards, for any candidates, any limits of the loops and any  *)
(* number of cards, and the conversation under Temporal, for any number of *)
(* rounds, replies, retries and posted replies.                            *)
(***************************************************************************)
EXTENDS CardDialogs, CandidateConversation, SequenceTheorems, TLAPS

-----------------------------------------------------------------------------
(* The dialogs                                                             *)
(*                                                                         *)
(* The argument is about the page.  From the click on a card to the        *)
(* confirmation of its collection every layer of the collection belongs to *)
(* that card, because a resume only opens over a bare list; so the folder  *)
(* gets the right candidate before the chat is reached.  And a dialog that *)
(* asks for a job, on the page or still to come, belongs to somebody whose *)
(* chat was reached, so whenever it is answered, and by whomever, its      *)
(* candidate is in the folder.                                             *)

(* Layers whose job dialogs are those of collected candidates              *)
Good(set) == {l \in Kinds \X Candidates : l[1] = "job" => l[2] \in set}

(* Layers whose resume and collection are those of c                       *)
Mine(c) == {l \in Kinds \X Candidates : l[1] \in {"resume", "folders", "got it"} => l[2] = c}

Collecting == {"favorite", "folder", "got it"}
Collected  == {"got it", "chat", "mark"}
Asking     == {"job", "recover", "clear"}

PageInv ==
  /\ layers \in Seq(Good(folder)) /\ owed \subseteq folder
  /\ at \in Collecting => layers \in Seq(Mine(card))

CardInv ==
  /\ folder \subseteq Candidates
  /\ at \in Collected => card \in folder
  /\ at \in Asking /\ caller # "back" => card \in folder

MarksInv ==
  /\ DOMAIN record = Candidates /\ chats \in [Candidates -> SUBSET Jobs]
  /\ CollectedFirst

DialogInv == PageInv /\ CardInv /\ MarksInv

-----------------------------------------------------------------------------
(* Sequences of layers                                                     *)

(* A layer on top of others.                                               *)
LEMMA Pushed ==
  ASSUME NEW S, NEW x \in S, NEW s \in Seq(S)
  PROVE  <<x>> \o s \in Seq(S)
  OBVIOUS

(* A layer is taken away.                                                  *)
LEMMA Removed ==
  ASSUME NEW S, NEW s \in Seq(S), NEW i \in DOMAIN s
  PROVE  RemoveAt(s, i) \in Seq(S)
<1>1. i \in 1..Len(s)
  OBVIOUS
<1>2. SubSeq(s, 1, i - 1) \in Seq(S) /\ SubSeq(s, i + 1, Len(s)) \in Seq(S)
  BY <1>1, SubSeqProperties
<1> QED
  BY <1>2 DEF RemoveAt

(* Layers of some are layers of more.                                      *)
LEMMA Wider ==
  ASSUME NEW S, NEW T, S \subseteq T, NEW s \in Seq(S)
  PROVE  s \in Seq(T)
  OBVIOUS

(* A click on an exit leaves layers that were there.                       *)
LEMMA ClosedLayers ==
  ASSUME NEW S, layers \in Seq(S), ClosesOne
  PROVE  layers' \in Seq(S)
  BY Removed DEF ClosesOne

(* A layer that is shown has its owner.                                    *)
LEMMA OwnerOfLayer ==
  ASSUME NEW S, layers \in Seq(S), NEW k, Shown(k)
  PROVE  /\ Layer(k) \in DOMAIN layers
         /\ layers[Layer(k)] \in S /\ layers[Layer(k)][1] = k
         /\ layers[Layer(k)][2] = Owner(k)
<1>1. Layer(k) \in DOMAIN layers /\ layers[Layer(k)][1] = k
  BY DEF Shown, Layer
<1> QED
  BY <1>1 DEF Owner

(* Who is collected stays collected.                                       *)
LEMMA MoreGood ==
  ASSUME NEW A, NEW B, A \subseteq B, NEW s \in Seq(Good(A))
  PROVE  s \in Seq(Good(B))
<1>1. Good(A) \subseteq Good(B)
  BY DEF Good
<1> QED
  BY <1>1, Wider

(* While a card is collected its layers are its own.                       *)
LEMMA OwnerIsCard ==
  ASSUME DialogInv, at \in Collecting, NEW k \in {"resume", "folders", "got it"}, Shown(k)
  PROVE  Owner(k) = card /\ card \in Candidates
<1>1. layers[Layer(k)] \in Mine(card) /\ layers[Layer(k)][1] = k
      /\ layers[Layer(k)][2] = Owner(k)
  BY OwnerOfLayer DEF DialogInv, PageInv
<1> QED
  BY <1>1 DEF Mine

(* A new layer of the card, or of a collected candidate.                   *)
LEMMA LayerMade ==
  ASSUME NEW k \in Kinds, NEW c \in Candidates, NEW set
  PROVE  /\ k # "job" \/ c \in set => <<k, c>> \in Good(set)
         /\ <<k, c>> \in Mine(c)
  BY DEF Good, Mine

-----------------------------------------------------------------------------
(* The marks and the questions                                             *)

(* A mark for the card                                                     *)
LEMMA Marked ==
  ASSUME DialogInv, NEW v, v \in {"failed", "excluded"} \/ card \in folder,
         record' = [record EXCEPT ![card] = v], chats' = chats, folder \subseteq folder'
  PROVE  MarksInv'
  BY DEF DialogInv, CardInv, MarksInv, CollectedFirst

(* No mark is made and nobody is asked.                                    *)
LEMMA Unmarked ==
  ASSUME DialogInv, record' = record, chats' = chats, folder \subseteq folder'
  PROVE  MarksInv'
  BY DEF DialogInv, MarksInv, CollectedFirst

(* A collected candidate is asked.                                         *)
LEMMA AskedIs ==
  ASSUME DialogInv, NEW c \in folder, NEW job \in Jobs, Asked(c, job),
         record' = record, folder' = folder
  PROVE  MarksInv'
  BY DEF DialogInv, CardInv, MarksInv, CollectedFirst, Asked

-----------------------------------------------------------------------------
(* The steps                                                               *)

(* A step that touches nothing of this                                     *)
LEMMA Rests ==
  ASSUME DialogInv,
         UNCHANGED <<at, card, layers, caller, site, record>>
  PROVE  DialogInv'
  BY DEF DialogInv, PageInv, CardInv, MarksInv, CollectedFirst, site

(* A step to where nothing is asked of the card                            *)
LEMMA Elsewhere ==
  ASSUME DialogInv, UNCHANGED <<folder, owed>>, MarksInv',
         layers' \in Seq(Good(folder)),
         at' \notin Collecting \union Collected,
         at' \in Asking /\ caller' # "back" => card' \in folder
  PROVE  DialogInv'
  BY DEF DialogInv, PageInv, CardInv

(* A resume opens, over a bare list only.                                  *)
LEMMA JudgeKeeps ==
  ASSUME DialogInv, NEW c \in Candidates, Judge(c)
  PROVE  DialogInv'
<1> USE DEF dialog, site
<1>1. UNCHANGED <<folder, owed, chats>> /\ card' = c
  BY DEF Judge
<1>2. "resume" \in Kinds /\ "resume" # "job"
  BY DEF Kinds
<1>3. <<"resume", c>> \in Good(folder) /\ <<"resume", c>> \in Mine(c)
  BY <1>2, LayerMade
<1>4. ASSUME Uncovered, Opens("resume", c)
      PROVE  layers' \in Seq(Good(folder)) /\ layers' \in Seq(Mine(c))
  <2>1. layers \in Seq(Good(folder)) /\ layers \in Seq(Mine(c))
    BY <1>4 DEF Uncovered
  <2> QED
    BY <2>1, <1>3, <1>4, Pushed DEF Opens
<1>5. layers \in Seq(Good(folder))
  BY DEF DialogInv, PageInv
<1>6. ASSUME NEW v \in {"excluded", "failed"}, record' = [record EXCEPT ![c] = v]
      PROVE  MarksInv'
  BY <1>1, <1>6 DEF DialogInv, MarksInv, CollectedFirst
<1>7. CASE Uncovered /\ Opens("resume", c) /\ at' = "favorite" /\ UNCHANGED record
  <2>1. MarksInv'
    BY <1>1, <1>7, Unmarked
  <2> QED
    BY <1>1, <1>4, <1>7, <2>1 DEF DialogInv, PageInv, CardInv, Collected, Asking
<1>8. CASE /\ (Uncovered /\ Opens("resume", c)) \/ UNCHANGED layers
           /\ \E v \in {"excluded", "failed"} : record' = [record EXCEPT ![c] = v]
           /\ ToList
  <2>1. MarksInv' /\ layers' \in Seq(Good(folder)) /\ at' = "back"
    BY <1>4, <1>5, <1>6, <1>8 DEF ToList
  <2> QED
    BY <1>1, <2>1, Elsewhere DEF Collecting, Collected, Asking
<1> QED
  BY <1>7, <1>8 DEF Judge

(* What the steps of the collection have in common                         *)
LEMMA FailsKeeps ==
  ASSUME DialogInv, Fails, layers' \in Seq(Good(folder)), UNCHANGED <<card, chats, owed>>,
         folder' = folder \/ (folder' = folder \union {card} /\ card \in Candidates)
  PROVE  DialogInv'
<1>1. MarksInv'
  BY Marked DEF Fails
<1>2. at' = "back"
  BY DEF Fails, ToList
<1>3. layers' \in Seq(Good(folder')) /\ owed' \subseteq folder' /\ folder' \subseteq Candidates
  BY MoreGood DEF DialogInv, PageInv, CardInv
<1> QED
  BY <1>1, <1>2, <1>3 DEF DialogInv, PageInv, CardInv, Collecting, Collected, Asking

(* The click on the collection of the card's resume.                       *)
LEMMA FavoriteKeeps ==
  ASSUME DialogInv, Favorite
  PROVE  DialogInv'
<1> USE DEF dialog, site
<1>1. UNCHANGED <<card, folder, owed, chats, caller>> /\ at = "favorite" /\ at \in Collecting
  BY DEF Favorite, Collecting
<1>2. layers \in Seq(Good(folder)) /\ layers \in Seq(Mine(card))
  BY <1>1 DEF DialogInv, PageInv
<1>3. ASSUME Shown("resume"), Opens("folders", Owner("resume"))
      PROVE  layers' \in Seq(Good(folder)) /\ layers' \in Seq(Mine(card))
  <2>1. Owner("resume") = card /\ card \in Candidates
    BY <1>1, <1>3, OwnerIsCard
  <2>2. <<"folders", card>> \in Good(folder) /\ <<"folders", card>> \in Mine(card)
    BY <2>1, LayerMade DEF Kinds
  <2> QED
    BY <1>2, <1>3, <2>1, <2>2, Pushed DEF Opens
<1>4. CASE /\ at' = "folder" /\ UNCHANGED record
           /\ UNCHANGED layers \/ (Shown("resume") /\ Opens("folders", Owner("resume")))
  <2>1. MarksInv'
    BY <1>1, <1>4, Unmarked
  <2>2. layers' \in Seq(Good(folder)) /\ layers' \in Seq(Mine(card))
    BY <1>2, <1>3, <1>4
  <2> QED
    BY <1>1, <1>4, <2>1, <2>2 DEF DialogInv, PageInv, CardInv, Collected, Asking
<1>5. CASE /\ Fails
           /\ UNCHANGED layers \/ (Shown("resume") /\ Opens("folders", Owner("resume")))
  BY <1>1, <1>2, <1>3, <1>5, FailsKeeps
<1> QED
  BY <1>4, <1>5 DEF Favorite

(* The folder gets the card's candidate.                                   *)
LEMMA ChooseFolderKeeps ==
  ASSUME DialogInv, ChooseFolder
  PROVE  DialogInv'
<1> USE DEF dialog, site
<1>1. UNCHANGED <<card, owed, chats, caller>> /\ at = "folder" /\ at \in Collecting
  BY DEF ChooseFolder, Collecting
<1>2. layers \in Seq(Good(folder)) /\ layers \in Seq(Mine(card))
  BY <1>1 DEF DialogInv, PageInv
<1>3. CASE /\ Shown("folders") /\ folder' = folder \union {Owner("folders")}
           /\ Opens("got it", Owner("folders")) /\ at' = "got it" /\ UNCHANGED record
  <2>1. Owner("folders") = card /\ card \in Candidates
    BY <1>1, <1>3, OwnerIsCard
  <2>2. <<"got it", card>> \in Good(folder') /\ <<"got it", card>> \in Mine(card)
    BY <2>1, LayerMade DEF Kinds
  <2>3. layers \in Seq(Good(folder'))
    BY <1>2, <1>3, MoreGood
  <2>4. layers' \in Seq(Good(folder')) /\ layers' \in Seq(Mine(card))
    BY <1>2, <1>3, <2>1, <2>2, <2>3, Pushed DEF Opens
  <2>5. MarksInv'
    BY <1>1, <1>3, Unmarked
  <2> QED
    BY <1>1, <1>3, <2>1, <2>4, <2>5 DEF DialogInv, PageInv, CardInv, Asking
<1>4. CASE Fails /\ UNCHANGED layers
           /\ (folder' = folder \/ (Shown("folders") /\ folder' = folder \union {Owner("folders")}))
  <2>1. folder' = folder \/ (folder' = folder \union {card} /\ card \in Candidates)
    BY <1>1, <1>4, OwnerIsCard
  <2> QED
    BY <1>1, <1>2, <1>4, <2>1, FailsKeeps
<1> QED
  BY <1>3, <1>4 DEF ChooseFolder

(* The collection is confirmed.                                            *)
LEMMA GotItKeeps ==
  ASSUME DialogInv, GotIt
  PROVE  DialogInv'
<1> USE DEF dialog, site
<1>1. UNCHANGED <<card, folder, owed, chats, caller>> /\ at = "got it" /\ card \in folder
  BY DEF GotIt, DialogInv, CardInv, Collected
<1>2. layers \in Seq(Good(folder))
  BY DEF DialogInv, PageInv
<1>3. layers' \in Seq(Good(folder))
  <2>1. CASE UNCHANGED layers
    BY <1>2, <2>1
  <2>2. CASE /\ Shown("got it")
             /\ LET rest == RemoveAt(layers, Layer("got it"))
                IN layers' \in {rest} \union
                     {RemoveAt(rest, i) : i \in {i \in DOMAIN rest : rest[i][1] = "folders"}}
    <3> DEFINE rest == RemoveAt(layers, Layer("got it"))
    <3>1. rest \in Seq(Good(folder))
      BY <1>2, <2>2, OwnerOfLayer, Removed
    <3>2. \A i \in DOMAIN rest : RemoveAt(rest, i) \in Seq(Good(folder))
      BY <3>1, Removed
    <3> QED
      BY <2>2, <3>1, <3>2
  <2> QED
    BY <2>1, <2>2 DEF GotIt
<1>4. CASE Fails
  BY <1>1, <1>3, <1>4, FailsKeeps
<1>5. CASE at' \in {"mark", "chat"} /\ UNCHANGED record
  <2>1. MarksInv'
    BY <1>1, <1>5, Unmarked
  <2> QED
    BY <1>1, <1>3, <1>5, <2>1 DEF DialogInv, PageInv, CardInv, Collecting, Asking
<1> QED
  BY <1>4, <1>5 DEF GotIt

(* The chat of a collected candidate is opened, or its job asked for.      *)
LEMMA ChatKeeps ==
  ASSUME DialogInv, Chat
  PROVE  DialogInv'
<1> USE DEF dialog, site
<1>1. UNCHANGED <<card, folder>> /\ at = "chat" /\ card \in folder /\ card \in Candidates
  BY DEF Chat, DialogInv, CardInv, Collected
<1>2. layers \in Seq(Good(folder)) /\ owed \subseteq folder
  BY DEF DialogInv, PageInv
<1>3. <<"other", card>> \in Good(folder) /\ <<"job", card>> \in Good(folder)
  BY <1>1, LayerMade DEF Kinds
<1>4. layers' \in Seq(Good(folder)) /\ owed' \subseteq folder
  BY <1>1, <1>2, <1>3, Pushed DEF Chat, Opens
<1>5. CASE Fails /\ UNCHANGED <<layers, chats, owed, caller, cycle>>
  BY <1>1, <1>2, <1>5, FailsKeeps
<1>6. CASE at' \in {"job", "mark"} /\ UNCHANGED record /\ (UNCHANGED chats \/ Asked(card, "unasked"))
  <2>1. MarksInv'
    BY <1>1, <1>6, Unmarked, AskedIs DEF Jobs
  <2> QED
    BY <1>1, <1>4, <1>6, <2>1 DEF DialogInv, PageInv, CardInv, Collecting
<1> QED
  BY <1>5, <1>6 DEF Chat

(* The card's candidate is marked.                                         *)
LEMMA MarkKeeps ==
  ASSUME DialogInv, Mark
  PROVE  DialogInv'
<1> USE DEF dialog, site
<1>1. UNCHANGED <<card, folder, owed, chats, caller, layers>> /\ at' = "back" /\ card \in folder
  BY DEF Mark, ToList, DialogInv, CardInv, Collected
<1>2. MarksInv'
  BY <1>1, Marked DEF Mark
<1>3. layers \in Seq(Good(folder))
  BY DEF DialogInv, PageInv
<1> QED
  BY <1>1, <1>2, <1>3, Elsewhere DEF Collecting, Collected, Asking

(* A return of the dialog's handler or of its recovery                     *)
LEMMA ReturnsKeeps ==
  ASSUME DialogInv, at \in Asking, NEW ok \in BOOLEAN, Returns(ok),
         UNCHANGED <<card, caller, folder, owed>>, layers' \in Seq(Good(folder)),
         record' = record => MarksInv', chats' = chats \/ record' = record
  PROVE  DialogInv'
<1>1. caller # "back" => card \in folder
  BY DEF DialogInv, CardInv
<1>2. CASE at' \in {"back", "dismiss"} /\ record' = record
  BY <1>2, Elsewhere DEF Collecting, Collected, Asking
<1>3. CASE at' = "mark" /\ card \in folder /\ record' = record
  BY <1>3 DEF DialogInv, PageInv, CardInv, Collecting, Asking
<1>4. CASE at' = "back" /\ record' = [record EXCEPT ![card] = "failed"]
  <2>1. MarksInv'
    BY <1>4, Marked
  <2> QED
    BY <1>4, <2>1, Elsewhere DEF Collecting, Collected, Asking
<1> QED
  BY <1>1, <1>2, <1>3, <1>4 DEF Returns, ToList

(* A turn of the handler or of its recovery after which it goes on         *)
LEMMA TurnKeeps ==
  ASSUME DialogInv, at \in Asking, at' \in Asking, UNCHANGED <<card, caller, folder, owed>>,
         layers' \in Seq(Good(folder)), MarksInv'
  PROVE  DialogInv'
<1>1. at \notin Collecting /\ at' \notin Collecting \union Collected
  BY DEF Collecting, Collected, Asking
<1> QED
  BY <1>1 DEF DialogInv, PageInv, CardInv

(* A dialog on top belongs to a collected candidate.                       *)
LEMMA DialogIsCollected ==
  ASSUME DialogInv, AsksForJob
  PROVE  /\ Head(layers)[2] \in folder /\ Tail(layers) \in Seq(Good(folder))
         /\ <<<<"other", Head(layers)[2]>>>> \o Tail(layers) \in Seq(Good(folder))
<1>1. layers \in Seq(Good(folder)) /\ layers # <<>> /\ Head(layers)[1] = "job"
  BY DEF DialogInv, PageInv, AsksForJob, OnTop
<1>2. Head(layers) \in Good(folder) /\ Tail(layers) \in Seq(Good(folder))
  BY <1>1
<1>3. Head(layers)[2] \in folder /\ Head(layers)[2] \in Candidates
  BY <1>1, <1>2 DEF Good
<1>4. <<"other", Head(layers)[2]>> \in Good(folder)
  BY <1>3, LayerMade DEF Kinds
<1> QED
  BY <1>2, <1>3, <1>4, Pushed

(* A turn answers the dialog on top, whoever waits for it.                 *)
LEMMA HandlerTurnKeeps ==
  ASSUME DialogInv, HandlerTurn
  PROVE  DialogInv'
<1> USE DEF dialog, site
<1>1. UNCHANGED <<card, caller, folder, owed>> /\ at = "job" /\ at \in Asking /\ AsksForJob
  BY DEF HandlerTurn, Asking
<1>2. layers \in Seq(Good(folder))
  BY DEF DialogInv, PageInv
<1>3. CASE ClosesOne /\ UNCHANGED <<at, record, chats>>
  <2>1. layers' \in Seq(Good(folder)) /\ MarksInv'
    BY <1>1, <1>2, <1>3, ClosedLayers, Unmarked
  <2> QED
    BY <1>1, <1>3, <2>1, TurnKeeps
<1>4. CASE InVain(UNCHANGED <<at, exits, record>>) /\ UNCHANGED <<layers, chats>>
  <2>1. at' \in Asking /\ UNCHANGED record
    BY <1>1, <1>4 DEF InVain, Asking
  <2>2. MarksInv'
    BY <1>1, <1>4, <2>1, Unmarked
  <2> QED
    BY <1>1, <1>2, <1>4, <2>1, <2>2, TurnKeeps
<1>5. CASE /\ layers' \in {Tail(layers), <<<<"other", Head(layers)[2]>>>> \o Tail(layers)}
           /\ Asked(Head(layers)[2], JobTaken)
           /\ InVain(UNCHANGED <<at, exits, record>>) \/ Returns(TRUE)
  <2>1. layers' \in Seq(Good(folder)) /\ Head(layers)[2] \in folder
    BY <1>1, <1>5, DialogIsCollected
  <2>2. JobTaken \in Jobs
    BY DEF JobTaken, Jobs
  <2>3. record' = record
    BY <1>5 DEF InVain, Returns
  <2>4. MarksInv'
    BY <1>1, <1>5, <2>1, <2>2, <2>3, AskedIs
  <2>5. CASE InVain(UNCHANGED <<at, exits, record>>)
    <3>1. at' \in Asking
      BY <1>1, <2>5 DEF InVain, Asking
    <3> QED
      BY <1>1, <2>1, <2>4, <3>1, TurnKeeps
  <2>6. CASE Returns(TRUE)
    BY <1>1, <2>1, <2>3, <2>4, <2>6, ReturnsKeeps
  <2> QED
    BY <1>5, <2>5, <2>6
<1> QED
  BY <1>3, <1>4, <1>5 DEF HandlerTurn

(* The other steps of the handler and its recovery.                        *)
LEMMA HandlerKeeps ==
  ASSUME DialogInv, HandlerSkips \/ HandlerGivesUp \/ HandlerEnds \/ Recover \/ Clear
  PROVE  DialogInv'
<1> USE DEF dialog, site
<1>1. UNCHANGED <<card, caller, folder, owed, chats>> /\ at \in Asking
  BY DEF HandlerSkips, HandlerGivesUp, HandlerEnds, Recover, Clear, Asking
<1>2. layers' \in Seq(Good(folder))
  <2>1. layers \in Seq(Good(folder))
    BY DEF DialogInv, PageInv
  <2>2. layers' = layers \/ ClosesOne
    BY DEF HandlerSkips, HandlerGivesUp, HandlerEnds, Recover, Clear
  <2> QED
    BY <2>1, <2>2, ClosedLayers
<1>3. CASE at' \in Asking /\ UNCHANGED record
  <2>1. MarksInv'
    BY <1>1, <1>3, Unmarked
  <2> QED
    BY <1>1, <1>2, <1>3, <2>1, TurnKeeps
<1>4. ASSUME NEW ok \in BOOLEAN, Returns(ok)
      PROVE  DialogInv'
  <2>1. record' = record => MarksInv'
    BY <1>1, Unmarked
  <2> QED
    BY <1>1, <1>2, <1>4, <2>1, ReturnsKeeps
<1>5. (at' \in Asking /\ UNCHANGED record) \/ \E ok \in BOOLEAN : Returns(ok)
  BY DEF HandlerSkips, HandlerGivesUp, HandlerEnds, Recover, Clear, InVain, Asking
<1> QED
  BY <1>3, <1>4, <1>5

(* The way back to the list only closes layers.                            *)
LEMMA BackKeeps ==
  ASSUME DialogInv, Arrives \/ Leaves \/ Dismiss \/ Forces("force") \/ Forces("list") \/ Forcing
  PROVE  DialogInv'
<1> USE DEF dialog, site
<1>1. UNCHANGED <<card, folder, owed, chats, record>>
  BY DEF Arrives, Leaves, Dismiss, Forces, Forcing
<1>2. layers' \in Seq(Good(folder))
  <2>1. layers \in Seq(Good(folder))
    BY DEF DialogInv, PageInv
  <2>2. layers' = layers \/ ClosesOne
    BY DEF Arrives, Leaves, Dismiss, Forces, Forcing
  <2> QED
    BY <2>1, <2>2, ClosedLayers
<1>3. at' \in {"list", "force", "forcing", "back"} \/ (at' = "job" /\ caller' = "back")
  BY DEF Arrives, Leaves, Dismiss, Forces, Forcing
<1>4. MarksInv'
  BY <1>1, Unmarked
<1> QED
  BY <1>1, <1>2, <1>3, <1>4, Elsewhere DEF Collecting, Collected, Asking

(* The dialog that comes after all belongs to somebody collected.          *)
LEMMA SiteShowsKeeps ==
  ASSUME DialogInv, SiteShows
  PROVE  DialogInv'
<1> USE DEF dialog, site
<1>1. UNCHANGED <<at, card, caller, folder, chats, record>>
  BY DEF SiteShows
<1>2. PICK c \in owed : Opens("job", c) /\ owed' = owed \ {c}
  BY DEF SiteShows
<1>3. c \in folder /\ c \in Candidates
  BY <1>2 DEF DialogInv, PageInv, CardInv
<1>4. "job" \in Kinds /\ "job" \notin {"resume", "folders", "got it"}
  BY DEF Kinds
<1>5. <<"job", c>> \in Good(folder) /\ <<"job", c>> \in Mine(card)
  BY <1>3, <1>4 DEF Good, Mine
<1>6. layers' \in Seq(Good(folder)) /\ (at \in Collecting => layers' \in Seq(Mine(card)))
  BY <1>2, <1>5, Pushed DEF Opens, DialogInv, PageInv
<1>7. MarksInv'
  BY <1>1, Unmarked
<1> QED
  BY <1>1, <1>2, <1>6, <1>7 DEF DialogInv, PageInv, CardInv

-----------------------------------------------------------------------------
(* The theorem                                                             *)

(* Nothing is open at first.                                               *)
LEMMA DialogStart == DialogInit => DialogInv
<1> SUFFICES ASSUME DialogInit PROVE DialogInv
  OBVIOUS
<1>1. layers = <<>> /\ at = "list" /\ folder = {} /\ owed = {}
  BY DEF DialogInit
<1>2. PageInv /\ CardInv
  BY <1>1 DEF PageInv, CardInv, Collecting, Collected, Asking
<1>3. MarksInv
  BY DEF DialogInit, MarksInv, CollectedFirst, NoMark
<1> QED
  BY <1>2, <1>3 DEF DialogInv

(* Every step keeps the invariant.                                         *)
LEMMA DialogStep ==
  ASSUME DialogInv, [DialogNext]_dialogVars
  PROVE  DialogInv'
<1>1. CASE UNCHANGED dialogVars
  BY <1>1, Rests DEF dialogVars, dialog, site
<1>2. CASE OtherFetch
  BY <1>2, Rests DEF OtherFetch, dialog, site
<1>3. CASE CardStep
  BY <1>3, FavoriteKeeps, ChooseFolderKeeps, GotItKeeps, ChatKeeps, MarkKeeps, HandlerTurnKeeps,
     HandlerKeeps, BackKeeps DEF CardStep
<1>4. CASE ForceList
  BY <1>4, BackKeeps DEF ForceList
<1> QED
  BY <1>1, <1>2, <1>3, <1>4, JudgeKeeps, SiteShowsKeeps DEF DialogNext

(* Whatever the dialogs of the site do and whenever they come, whoever is  *)
(* marked as collected or contacted, and whoever is asked, was put into    *)
(* the job's folder (extract_popup.py, _click_contact_now).                *)
THEOREM DialogsCollectFirst == DialogSpec => []CollectedFirst
<1>1. DialogInv => CollectedFirst
  BY DEF DialogInv, MarksInv
<1> QED
  BY <1>1, DialogStart, DialogStep, PTL DEF DialogSpec

-----------------------------------------------------------------------------
(* The conversation                                                        *)

(* Where the workflow stands before it sends in a round, and after.        *)
Before == {"none", "create", "generate", "send"}
After  == {"wait", "mark", "parse", "update"}
Over   == {"ended", "terminated"}

Rows   == [status : Statuses, round : 0..MaxRounds]
States == [round : 0..MaxRounds, noReply : 0..1, decision : Decisions \union {"", "complete"}]

RecordsInv ==
  /\ state \in States /\ conv \in Rows
  /\ delivered \in Nat /\ retries \in Nat /\ chat \in Nat /\ latest \in Nat
  /\ pc \in Before \union After \union Over

(* A child is started once, by a parent that has not come to its end; the  *)
(* conversation has then sent nothing.                                     *)
StartInv ==
  /\ parent \in {"begin", "fetching", "fetched", "screening", "screened"} => pc = "none"
  /\ pc \in {"none", "create"} => state.round = 0 /\ state.noReply = 0 /\ delivered = 0

(* The messages of a conversation that goes on: one for each round that is *)
(* over, one before each reminder, and one in this round; each of the      *)
(* loop's turns begins with rounds to go.                                  *)
CountInv ==
  /\ pc \in Before => delivered <= retries + state.round + state.noReply
  /\ pc \in After  => delivered <= retries + state.round + state.noReply + 1
  /\ pc \in Over   => delivered <= retries + MaxRounds + 1
  /\ pc \in {"generate", "send"} \union After => state.round < MaxRounds

TalkInv == RecordsInv /\ StartInv /\ CountInv

-----------------------------------------------------------------------------
(* Records                                                                 *)

(* The limits, one by one.                                                 *)
LEMMA LimitsAreNumbers == MaxRounds \in Nat /\ MaxRounds >= 1
  BY ConversationLimits

(* What a state holds.                                                     *)
LEMMA StateParts ==
  ASSUME NEW s \in States, MaxRounds \in Nat
  PROVE  s.round \in Nat /\ s.round <= MaxRounds /\ s.noReply \in {0, 1}
<1>1. s.round \in 0..MaxRounds /\ s.noReply \in 0..1
  BY DEF States
<1> QED
  BY <1>1

(* A state with another number of rounds, a reminder more, or decided.     *)
LEMMA RoundSet ==
  ASSUME NEW s \in States, NEW n \in 0..MaxRounds
  PROVE  LET t == [s EXCEPT !.round = n]
         IN t \in States /\ t.round = n /\ t.noReply = s.noReply
  BY DEF States

(* The reminder is counted once.                                           *)
LEMMA ReminderSet ==
  ASSUME NEW s \in States, s.noReply = 0
  PROVE  LET t == [s EXCEPT !.noReply = @ + 1]
         IN t \in States /\ t.round = s.round /\ t.noReply = 1
<1>1. s.noReply + 1 = 1 /\ 1 \in 0..1
  OBVIOUS
<1> QED
  BY <1>1 DEF States

(* A decision leaves the counts.                                           *)
LEMMA DecisionSet ==
  ASSUME NEW s \in States, NEW d \in Decisions \union {"complete"}
  PROVE  LET t == [s EXCEPT !.decision = d]
         IN t \in States /\ t.round = s.round /\ t.noReply = s.noReply
  BY DEF States

(* A decision after which another round follows.                           *)
LEMMA NextRoundSet ==
  ASSUME NEW s \in States, MaxRounds \in Nat, s.round < MaxRounds, NEW d \in Decisions
  PROVE  LET t == [s EXCEPT !.round = @ + 1, !.decision = d]
         IN t \in States /\ t.round = s.round + 1 /\ t.noReply = s.noReply
<1>1. s.round \in 0..MaxRounds
  BY DEF States
<1>2. s.round + 1 \in 0..MaxRounds
  BY <1>1
<1> QED
  BY <1>2 DEF States

(* A row with another status, or with both parts new.                      *)
LEMMA StatusSet ==
  ASSUME NEW r \in Rows, NEW st \in Statuses
  PROVE  [r EXCEPT !.status = st] \in Rows
  BY DEF Rows

(* A new row of the conversation.                                          *)
LEMMA RowMade ==
  ASSUME NEW st \in Statuses, NEW n \in 0..MaxRounds
  PROVE  [status |-> st, round |-> n] \in Rows
  BY DEF Rows

(* Each decision has its status.                                           *)
LEMMA DecidedIsStatus == \A d \in Decisions : StatusOf(d) \in Statuses
  BY DEF StatusOf, Statuses

-----------------------------------------------------------------------------
(* Steps                                                                   *)

(* RecruitingWorkflow starts the conversation once and may terminate it.   *)
LEMMA RecruitKeeps ==
  ASSUME TalkInv, Recruit
  PROVE  TalkInv'
<1> USE DEF TalkInv, RecordsInv, StartInv, CountInv, Before, After, Over
<1>0. /\ UNCHANGED <<state, latest, conv, chat, delivered, retries>>
      /\ MaxRounds \in Nat /\ MaxRounds >= 1
      /\ state.round \in Nat /\ state.round <= MaxRounds /\ state.noReply \in {0, 1}
  BY Recruit, LimitsAreNumbers, StateParts DEF Recruit, ingestion
<1>1. CASE \/ Reports("begin", "fetching", "FETCHING")
           \/ Reports("fetched", "screening", "SCREENING")
           \/ Reports("screening", "screened", "SCREENING_COMPLETED")
  BY <1>0, <1>1 DEF Reports
<1>2. CASE Fetched
  BY <1>0, <1>2 DEF Fetched
<1>3. CASE GivesUp
  BY <1>0, <1>3 DEF GivesUp
<1>4. CASE StartsConversation
  BY <1>0, <1>4 DEF StartsConversation
<1>5. CASE Closes
  BY <1>0, <1>5 DEF Closes, Running
<1> QED
  BY <1>1, <1>2, <1>3, <1>4, <1>5, Recruit DEF Recruit

(* A turn of the conversation sends one message at most, and one that ends *)
(* has not sent more than its rounds and the reminder.                     *)
LEMMA ConverseKeeps ==
  ASSUME TalkInv, Converse
  PROVE  TalkInv'
<1> USE DEF TalkInv, RecordsInv, StartInv, CountInv, Before, After, Over
<1>0. /\ UNCHANGED <<parent, chat>>
      /\ MaxRounds \in Nat /\ MaxRounds >= 1
      /\ state.round \in Nat /\ state.round <= MaxRounds /\ state.noReply \in {0, 1}
  BY Converse, LimitsAreNumbers, StateParts DEF Converse, recruiting, ingestion
<1>1. CASE Create
  <2>1. conv' \in Rows
    BY <1>1, StatusSet DEF Create, Statuses
  <2>2. conv.round \in 0..MaxRounds
    BY DEF Rows
  <2>3. state' = [state EXCEPT !.round = conv.round]
    BY <1>1 DEF Create
  <2>4. state' \in States /\ state'.round = conv.round /\ state'.noReply = state.noReply
    BY <2>2, <2>3, RoundSet
  <2>5. pc = "create" /\ pc' = Round(state') /\ UNCHANGED <<latest, delivered, retries>>
    BY <1>1 DEF Create
  <2> QED
    BY <1>0, <2>1, <2>2, <2>4, <2>5 DEF Round
<1>2. CASE Generate
  BY <1>0, <1>2 DEF Generate
<1>3. CASE Send
  <2>1. pc = "send" /\ pc' \in {"ended", "wait"} /\ latest' = 0 /\ UNCHANGED <<state, retries>>
    BY <1>3 DEF Send, AfterSend
  <2>2. delivered' \in {delivered, delivered + 1}
    BY <1>3 DEF Send
  <2>3. state.round + 1 \in 0..MaxRounds
    BY <1>0, <2>1
  <2>4. conv' \in Rows
    BY <1>3, <2>3, StatusSet, RowMade DEF Send, Statuses
  <2> QED
    BY <1>0, <2>1, <2>2, <2>4
<1>4. CASE SendAgain
  BY <1>0, <1>4 DEF SendAgain
<1>5. CASE Answered
  BY <1>0, <1>5 DEF Answered
<1>6. CASE TimesOut
  BY <1>0, <1>6 DEF TimesOut
<1>7. CASE NoReplyMarked
  <2>1. pc = "mark" /\ UNCHANGED <<latest, delivered, retries>>
    BY <1>7 DEF NoReplyMarked
  <2>2. CASE state.noReply = 1
    <3>1. /\ conv' = [conv EXCEPT !.status = "NO_REPLY"] /\ pc' = "ended"
          /\ state' = [state EXCEPT !.decision = "complete"]
      BY <1>7, <2>2 DEF NoReplyMarked, NoReply
    <3>2. conv' \in Rows
      BY <3>1, StatusSet DEF Statuses
    <3>3. state' \in States
      BY <3>1, DecisionSet
    <3> QED
      BY <1>0, <2>1, <3>1, <3>2, <3>3
  <2>3. CASE state.noReply = 0
    <3>1. state' = [state EXCEPT !.noReply = @ + 1] /\ pc' = "generate" /\ UNCHANGED conv
      BY <1>7, <2>3 DEF NoReplyMarked, NoReply
    <3>2. state' \in States /\ state'.round = state.round /\ state'.noReply = 1
      BY <2>3, <3>1, ReminderSet
    <3> QED
      BY <1>0, <2>1, <2>3, <3>1, <3>2
  <2> QED
    BY <1>0, <2>2, <2>3
<1>8. CASE Parse
  BY <1>0, <1>8 DEF Parse
<1>9. CASE Update
  <2>1. pc = "update" /\ UNCHANGED <<latest, delivered, retries>>
    BY <1>9 DEF Update
  <2>2. PICK decision \in Decisions :
          /\ conv' = [conv EXCEPT !.status = StatusOf(decision)]
          /\ state' = [state EXCEPT !.round = @ + 1, !.decision = decision]
          /\ pc' = IF decision \in {"recommend_to_hr", "reject"} THEN "ended" ELSE Round(state')
    BY <1>9 DEF Update
  <2>3. conv' \in Rows
    BY <2>2, StatusSet, DecidedIsStatus
  <2>4. state.round < MaxRounds
    BY <2>1
  <2>5. /\ state' \in States
        /\ state'.round = state.round + 1 /\ state'.noReply = state.noReply
    BY <1>0, <2>2, <2>4, NextRoundSet
  <2>6. pc' \in {"generate", "ended"} /\ (pc' = "generate" => state'.round < MaxRounds)
    BY <2>2 DEF Round
  <2> QED
    BY <1>0, <2>1, <2>3, <2>4, <2>5, <2>6
<1> QED
  BY <1>1, <1>2, <1>3, <1>4, <1>5, <1>6, <1>7, <1>8, <1>9, Converse DEF Converse

(* Signals and replies, stored or not, send nothing.                       *)
LEMMA RepliesKeep ==
  ASSUME TalkInv,
         Signal \/ CandidateWrites \/ Scan \/ \E n \in Replies : Ingest(n)
  PROVE  TalkInv'
<1> USE DEF TalkInv, RecordsInv, StartInv, CountInv, recruiting, ingestion
<1>1. CASE Signal
  BY <1>1 DEF Signal
<1>2. CASE CandidateWrites
  BY <1>2 DEF CandidateWrites
<1>3. CASE Scan
  BY <1>3 DEF Scan
<1>4. ASSUME NEW n \in Replies, Ingest(n) PROVE TalkInv'
  <2>1. conv' \in Rows
    BY <1>4, StatusSet, DecidedIsStatus DEF Ingest
  <2> QED
    BY <1>4, <2>1 DEF Ingest
<1> QED
  BY <1>1, <1>2, <1>3, <1>4

(* The invariant of the conversation holds throughout.                     *)
LEMMA TalkInvariant ==
  ConversationSpec => []TalkInv
<1>1. ConversationInit => TalkInv
  <2> SUFFICES ASSUME ConversationInit PROVE TalkInv
    OBVIOUS
  <2>0. MaxRounds \in Nat /\ MaxRounds >= 1
    BY LimitsAreNumbers
  <2>1. 0 \in 0..MaxRounds /\ 1 \in 0..MaxRounds
    BY <2>0
  <2>2. [status |-> "", round |-> 0] \in Rows /\ [status |-> "MESSAGE_DRAFTED", round |-> 1] \in Rows
    BY <2>1, RowMade DEF Statuses
  <2>3. conv \in Rows
    BY <2>2 DEF ConversationInit
  <2>4. state = [round |-> 0, noReply |-> 0, decision |-> ""]
    BY DEF ConversationInit
  <2>5. state \in States /\ state.round = 0 /\ state.noReply = 0
    <3>1. 0 \in 0..1 /\ "" \in Decisions \union {"", "complete"}
      OBVIOUS
    <3>2. [round |-> 0, noReply |-> 0, decision |-> ""] \in States
      BY <2>1, <3>1 DEF States
    <3> QED
      BY <2>4, <3>2
  <2>6. /\ pc = "none" /\ latest = 0 /\ chat = 0 /\ delivered = 0 /\ retries = 0
        /\ parent = "begin"
    BY DEF ConversationInit
  <2> QED
    BY <2>0, <2>3, <2>5, <2>6
       DEF TalkInv, RecordsInv, StartInv, CountInv, Before, After, Over
<1>2. TalkInv /\ [ConversationNext]_conversationVars => TalkInv'
  <2>1. ASSUME TalkInv, UNCHANGED conversationVars PROVE TalkInv'
    BY <2>1 DEF conversationVars, recruiting, ingestion, TalkInv, RecordsInv, StartInv, CountInv
  <2> QED
    BY <2>1, RecruitKeeps, ConverseKeeps, RepliesKeep DEF ConversationNext
<1> QED
  BY <1>1, <1>2, PTL DEF ConversationSpec

(* Whatever comes or does not come back, for any number of rounds, replies *)
(* and retries, the candidate gets one message a round and one reminder.   *)
THEOREM NobodyIsPestered ==
  ConversationSpec => []AskedAtMost
<1>1. TalkInv => AskedAtMost
  <2> SUFFICES ASSUME TalkInv PROVE AskedAtMost
    OBVIOUS
  <2>1. /\ MaxRounds \in Nat /\ MaxRounds >= 1
        /\ state.round \in Nat /\ state.round <= MaxRounds /\ state.noReply \in {0, 1}
    BY LimitsAreNumbers, StateParts DEF TalkInv, RecordsInv
  <2> QED
    BY <2>1 DEF TalkInv, RecordsInv, StartInv, CountInv, Before, After, Over, AskedAtMost
<1> QED
  BY <1>1, TalkInvariant, PTL
=============================================================================
