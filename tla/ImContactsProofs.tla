--------------------------- MODULE ImContactsProofs ---------------------------
(***************************************************************************)
(* ImContacts: a batch reaches nobody but namesakes, for any people, any   *)
(* rows and any displays, and however the list changes meanwhile.          *)
(*                                                                         *)
(* A row that is matched bears the name, because a row that does not scores*)
(* nothing.  From the match to the result the picked row is that of the    *)
(* target, whatever becomes of the list, and once it is clicked the window *)
(* is its own, as long as windows follow clicks.                           *)
(***************************************************************************)
EXTENDS ImContacts, SequenceTheorems, TLAPS

BatchInv ==
  /\ targets \in Seq(Range(Texts)) /\ chatList \in Seq(Contacts)
  /\ DOMAIN result = Range(Texts) /\ sent \in [Contacts -> SUBSET Range(Texts)]

PickInv ==
  /\ step \in {"look", "click", "type", "verify", "read"} => targets # <<>>
  /\ step \in {"click", "type", "verify", "read"} => picked \in Contacts /\ Named(Target, picked)
  /\ step \in {"type", "verify", "read"} /\ follows => chatWindow = picked

ContactInv == BatchInv /\ PickInv /\ OnlyNamesakes

-----------------------------------------------------------------------------
(* A matched row bears the name of the target.                             *)
LEMMA MatchNames ==
  ASSUME NEW c, chatList \in Seq(Contacts), Match(c) # Nobody
  PROVE  Match(c) \in Contacts /\ Named(c, Match(c))
<1>1. Best(c) # {} /\ Match(c) = chatList[CHOOSE i \in Best(c) : TRUE]
  BY DEF Match
<1>2. PICK i \in Best(c) : Match(c) = chatList[i]
  BY <1>1
<1>3. i \in DOMAIN chatList /\ Score(c, chatList[i]) >= Threshold(c)
  BY <1>2 DEF Best
<1>4. chatList[i] \in Contacts
  BY <1>3
<1>5. CASE ~Named(c, chatList[i])
  <2>1. Score(c, chatList[i]) = 0
    BY <1>5 DEF Score
  <2>2. Threshold(c) \in {10, 12}
    BY DEF Threshold
  <2> QED
    BY <1>3, <2>1, <2>2
<1> QED
  BY <1>2, <1>4, <1>5

(* The next target is one of the batch.                                    *)
LEMMA TargetIsText ==
  ASSUME targets \in Seq(Range(Texts)), targets # <<>>
  PROVE  Target \in Range(Texts) /\ Tail(targets) \in Seq(Range(Texts))
  BY DEF Target

(* An outcome that is noted is right when it is one of a namesake's.       *)
LEMMA EndsKeeps ==
  ASSUME ContactInv, step \in {"look", "click", "type", "verify", "read"},
         NEW text, Ends(text), UNCHANGED site,
         follows /\ text = "ok" => \E p \in Contacts : Target \in sent[p],
         follows /\ text \in Contacts => Named(Target, text)
  PROVE  ContactInv'
<1> USE DEF ContactInv
<1>1. targets # <<>> /\ Target \in Range(Texts) /\ Tail(targets) \in Seq(Range(Texts))
  BY TargetIsText DEF PickInv, BatchInv
<1>2. BatchInv'
  BY <1>1 DEF BatchInv, Ends, NextTarget, site
<1>3. PickInv'
  BY DEF PickInv, Ends, NextTarget
<1>4. \A c \in Range(Texts) : result'[c] = IF c = Target THEN text ELSE result[c]
  BY <1>1 DEF BatchInv, Ends
<1>5. UNCHANGED <<follows, sent, line, known>>
  BY DEF Ends, site
<1>6. \A c, p : Named(c, p)' = Named(c, p)
  BY <1>5 DEF Named, ShowsName, ShowsSurname, ShowsWithin, ShowsAge, ShowsSchool, ByName
<1>7. OnlyNamesakes'
  BY <1>4, <1>5, <1>6 DEF OnlyNamesakes
<1> QED
  BY <1>2, <1>3, <1>7

(* Steps that touch no window and note nothing.                            *)
LEMMA QuietStep ==
  ASSUME ContactInv, UNCHANGED <<result, sent, follows, line, known, targets>>, chatList' \in Seq(Contacts),
         PickInv'
  PROVE  ContactInv'
<1>1. \A c, p : Named(c, p)' = Named(c, p)
  BY DEF Named, ShowsName, ShowsSurname, ShowsWithin, ShowsAge, ShowsSchool, ByName
<1>2. BatchInv' /\ OnlyNamesakes'
  BY <1>1 DEF ContactInv, BatchInv, OnlyNamesakes
<1> QED
  BY <1>2 DEF ContactInv

(* What rows show does not change.                                         *)
LEMMA NamedStays ==
  ASSUME UNCHANGED <<line, known>>
  PROVE  \A c, p : Named(c, p)' = Named(c, p)
  BY DEF Named, ShowsName, ShowsSurname, ShowsWithin, ShowsAge, ShowsSchool, ByName

(* Whatever the list shows are people.                                     *)
LEMMA Rows == \A s \in Arrangements : s \in Seq(Contacts)
  BY DEF Arrangements

-----------------------------------------------------------------------------
(* A batch that has not begun.                                             *)
LEMMA BatchBegins ==
  ASSUME ContactInit
  PROVE  ContactInv
<1>1. Texts \in Seq(Range(Texts))
  BY ContactLimits DEF Range
<1>2. BatchInv
  BY <1>1, Rows DEF ContactInit, BatchInv
<1>3. PickInv
  BY DEF ContactInit, PickInv
<1>4. \A c \in Range(Texts) : result[c] = "none" /\ "none" \notin Contacts
  BY ContactLimits DEF ContactInit, Outcomes
<1>5. OnlyNamesakes
  BY <1>4 DEF ContactInit, OnlyNamesakes
<1> QED
  BY <1>2, <1>3, <1>5 DEF ContactInv

(* Every step keeps the invariant.                                         *)
LEMMA BatchSteps ==
  ASSUME ContactInv, [ContactNext]_contactVars
  PROVE  ContactInv'
<1> USE DEF ContactInv
<1>0. \A o \in Outcomes : o \notin Contacts
  BY ContactLimits
<1>1. CASE UNCHANGED contactVars
  <2>1. PickInv'
    BY <1>1, NamedStays DEF PickInv, contactVars, site, Target
  <2> QED
    BY <1>1, <2>1, QuietStep DEF contactVars, site, BatchInv
<1>2. CASE OpenTab \/ NextOne \/ Aborts
  <2>1. PickInv'
    BY <1>2 DEF OpenTab, NextOne, Aborts, PickInv, site
  <2> QED
    BY <1>2, <2>1, QuietStep DEF OpenTab, NextOne, Aborts, site, BatchInv
<1>3. CASE Look
  <2>1. CASE Match(Target) # Nobody /\ picked' = Match(Target) /\ step' = "click"
             /\ UNCHANGED <<reads, known, targets, attempt, chatWindow, result>>
    <3>1. Match(Target) \in Contacts /\ Named(Target, Match(Target))
      BY <2>1, MatchNames DEF BatchInv
    <3>2. PickInv'
      BY <1>3, <2>1, <3>1, NamedStays DEF Look, PickInv, site, Target
    <3> QED
      BY <1>3, <2>1, <3>2, QuietStep DEF Look, site, BatchInv
  <2>2. CASE UNCHANGED <<reads, known, step, targets, picked, chatWindow, result>>
    <3>1. PickInv'
      BY <1>3, <2>2, NamedStays DEF Look, PickInv, site, Target
    <3> QED
      BY <1>3, <2>2, <3>1, QuietStep DEF Look, site, BatchInv
  <2>3. CASE Ends("not found")
    BY <1>0, <1>3, <2>3, EndsKeeps DEF Look, Outcomes
  <2> QED
    BY <1>3, <2>1, <2>2, <2>3 DEF Look
<1>4. CASE Click
  <2>1. CASE Ends("click failed")
    BY <1>0, <1>4, <2>1, EndsKeeps DEF Click, Outcomes
  <2>2. CASE /\ chatWindow' \in {picked} \union (IF follows THEN {} ELSE {chatWindow})
             /\ step' = IF reads THEN "read" ELSE "type"
             /\ UNCHANGED <<reads, known, targets, attempt, picked, result>>
    <3>1. PickInv'
      BY <1>4, <2>2, NamedStays DEF Click, PickInv, site, Target
    <3> QED
      BY <1>4, <2>2, <3>1, QuietStep DEF Click, site, BatchInv
  <2> QED
    BY <1>4, <2>1, <2>2 DEF Click
<1>5. CASE Type
  <2>1. CASE Ends("send failed") /\ UNCHANGED site
    BY <1>0, <1>5, <2>1, EndsKeeps DEF Type, Outcomes
  <2>2. CASE /\ step' = "verify"
             /\ \/ chatWindow # Nobody /\ sent' = [sent EXCEPT ![chatWindow] = @ \union {Target}]
                \/ UNCHANGED sent
             /\ UNCHANGED <<reads, known, targets, attempt, picked, chatWindow, result,
                            follows, line, chatList, answered, changes>>
    <3>1. \A c, p : Named(c, p)' = Named(c, p)
      BY <2>2, NamedStays
    <3>2. targets # <<>> /\ Target \in Range(Texts)
      BY <1>5, TargetIsText DEF Type, PickInv, BatchInv
    <3>3. PickInv'
      BY <1>5, <2>2, <3>1 DEF Type, PickInv, Target
    <3>4. BatchInv'
      BY <2>2, <3>2 DEF BatchInv
    <3>5. \A p \in Contacts : /\ sent[p] \subseteq sent'[p]
                              /\ follows => \A c \in sent'[p] : c \in sent[p] \/ (c = Target /\ p = picked)
      BY <1>5, <2>2 DEF Type, PickInv, BatchInv
    <3>6. Named(Target, picked)
      BY <1>5 DEF Type, PickInv
    <3>7. OnlyNamesakes'
      BY <2>2, <3>1, <3>5, <3>6 DEF OnlyNamesakes
    <3> QED
      BY <3>3, <3>4, <3>7
  <2> QED
    BY <1>5, <2>1, <2>2 DEF Type
<1>6. CASE Verify
  <2>1. follows => chatWindow \in Contacts
    BY <1>6 DEF Verify, PickInv
  <2> QED
    BY <1>0, <1>6, <2>1, EndsKeeps DEF Verify, Outcomes
<1>7. CASE ReadReply
  <2>1. PICK text \in {"empty", LatestText(chatWindow)} : Ends(text)
    BY <1>7 DEF ReadReply
  <2>2. text \in Outcomes \/ text = chatWindow
    BY <2>1 DEF LatestText, Outcomes
  <2>3. follows => chatWindow = picked /\ Named(Target, picked)
    BY <1>7 DEF ReadReply, PickInv
  <2>4. text # "ok" \/ text = chatWindow
    BY <2>1 DEF LatestText
  <2>5. "ok" \notin Contacts /\ follows => text # "ok"
    BY <1>7, <2>3, <2>4 DEF ReadReply, PickInv
  <2>6. text \in Contacts => text = chatWindow
    BY <1>0, <2>2
  <2> QED
    BY <1>0, <1>7, <2>1, <2>3, <2>5, <2>6, EndsKeeps DEF ReadReply, Outcomes
<1>8. CASE ListChanges
  <2>1. PickInv'
    BY <1>8, NamedStays DEF ListChanges, PickInv, Target
  <2> QED
    BY <1>8, <2>1, Rows, QuietStep DEF ListChanges
<1> QED
  BY <1>1, <1>2, <1>3, <1>4, <1>5, <1>6, <1>7, <1>8 DEF ContactNext

(* Texts and replies are a namesake's at most (im_chat_runner.py,          *)
(* im_contact_match.py).                                                   *)
THEOREM BatchesReachNamesakes ==
  ContactSpec => []OnlyNamesakes
<1>1. ContactInit => ContactInv
  BY BatchBegins
<1>2. ContactInv /\ [ContactNext]_contactVars => ContactInv'
  BY BatchSteps
<1>3. ContactInv => OnlyNamesakes
  BY DEF ContactInv
<1> QED
  BY <1>1, <1>2, <1>3, PTL DEF ContactSpec
=============================================================================
