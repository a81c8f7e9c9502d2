----------------------------- MODULE ServicesProofs -----------------------------
(***************************************************************************)
(* Theorems about the services of the API process that share no state: the *)
(* final judgment, for any candidates and any number of replies, scans,    *)
(* starts, stops, failures and restarts; the import of PDF resumes, for any*)
(* files, any number of them at a time and any faults; the login session,  *)
(* for overlapping requests and any faults of the browser; and the event   *)
(* log, for any clients, limits, restarts and faults of its file.          *)
(***************************************************************************)
EXTENDS ReplyJudgment, PdfImport, LoginSetup, EventBus,
        FiniteSetTheorems, WellFoundedInduction, TLAPS

-----------------------------------------------------------------------------
(* The final judgment                                                      *)

(* A reply that is being judged was never judged before, and one that was  *)
(* is stored; a scan may have stored it meanwhile.                         *)
OnceInv ==
  /\ stage = "enrich" => chosen \in Replies /\ judged[chosen] = 0
  /\ \A r \in Replies : judged[r] \in {0, 1} /\ (judged[r] = 1 => r \in stored)

(* What chats hold are replies.                                            *)
ChatInv == chat \in [People -> 0..MaxReplies]

(* A report shows every candidate as last screened, or a scan came since.  *)
Shows(report) == \A c \in People \ rescored : report[c] = screened[c]

(* A report in the making stays so until it is announced, since the runner *)
(* that makes it is the only one that judges but for scans.                *)
ReportInv ==
  /\ stage \in {"persist", "storing", "ready"} => Shows(covered)
  /\ stage = "ready" => Shows(reported)
  /\ reportReady => Shows(reported)
  /\ reportReady => stage \in {"idle", "list"}

JudgmentInv == JudgmentTypeOK /\ ChatInv /\ OnceInv

-----------------------------------------------------------------------------

(* The latest reply of a candidate who wrote is a reply.                   *)
LEMMA LatestIsReply ==
  ASSUME ChatInv, NEW c \in People, chat[c] > 0
  PROVE  <<c, chat[c]>> \in Replies
  BY JudgmentLimits DEF ChatInv, Replies

(* Every step of the runner, the routes and the candidates keeps the       *)
(* types and judges no reply twice.                                        *)
LEMMA JudgmentInvariant ==
  JudgmentSpec => []JudgmentInv
<1> USE DEF JudgmentInv
<1>1. JudgmentInit => JudgmentInv
  <2> SUFFICES ASSUME JudgmentInit PROVE JudgmentInv
    OBVIOUS
  <2>1. MaxReplies \in Nat /\ MaxReplies >= 1
    BY JudgmentLimits
  <2>2. ChatInv
    BY <2>1 DEF JudgmentInit, ChatInv
  <2>3. JudgmentTypeOK
    <3>1. Never \in [People -> Nat] /\ covered = Never /\ screened = Never /\ reported = Never
      BY DEF JudgmentInit, Never
    <3> QED
      BY <3>1 DEF JudgmentInit, JudgmentTypeOK, NoReply
  <2>4. OnceInv
    BY DEF JudgmentInit, OnceInv
  <2> QED
    BY <2>2, <2>3, <2>4
<1>2. JudgmentInv /\ [JudgmentNext]_judgmentVars => JudgmentInv'
  <2> SUFFICES ASSUME JudgmentInv, [JudgmentNext]_judgmentVars
               PROVE  JudgmentInv'
    OBVIOUS
  <2> USE DEF JudgmentTypeOK, ChatInv, OnceInv
  <2>1. CASE UNCHANGED judgmentVars
    BY <2>1 DEF judgmentVars, runStatus, work, scan, db
  <2>2. CASE StartRoute
    BY <2>2 DEF StartRoute, runStatus, work, scan, db
  <2>3. CASE Stop
    BY <2>3 DEF Stop, work, scan, db
  <2>4. CASE JudgmentRestart
    <3>1. Never \in [People -> Nat] /\ covered' = Never
      BY <2>4 DEF JudgmentRestart, Never
    <3> QED
      BY <2>4, <3>1 DEF JudgmentRestart, db
  <2>5. CASE RunBegins
    BY <2>5 DEF RunBegins, runStatus, work, scan, db
  <2>6. CASE List
    BY <2>6 DEF List, Judging, Summarizing, scan, db
  <2>7. CASE Read
    BY <2>7, LatestIsReply DEF Read, runStatus, scan, db
  <2>8. CASE Judge
    BY <2>8 DEF Judge, Summarizing, AlreadyStored, runStatus, scan, db
  <2>9. CASE Enrich
    BY <2>9 DEF Enrich, runStatus, scan
  <2>10. CASE Report
    BY <2>10 DEF Report, runStatus, scan, db
  <2>11. CASE Persist
    BY <2>11 DEF Persist, runStatus, work, scan, db
  <2>12. CASE Stored
    BY <2>12 DEF Stored, runStatus, work, scan
  <2>13. CASE RunFinishes
    BY <2>13 DEF RunFinishes, Leave, work, scan, db
  <2>14. CASE Fail
    BY <2>14 DEF Fail, Leave, scan, db
  <2>16. ASSUME NEW c \in People, ScanReads(c) PROVE JudgmentInv'
    BY <2>16, LatestIsReply DEF ScanReads, runStatus, work, db
  <2>17. CASE ScanWrites
    <3>1. PICK replies \in SUBSET inbound :
            /\ stored' = stored \union replies
            /\ screened' = [c \in People |-> IF c \in {r[1] : r \in replies}
                                              THEN screened[c] + 1 ELSE screened[c]]
            /\ rescored' = rescored \union {r[1] : r \in replies}
      BY <2>17 DEF ScanWrites
    <3>2. {r[1] : r \in replies} \subseteq People
      BY <3>1 DEF Replies
    <3>3. screened' \in [People -> Nat] /\ rescored' \subseteq People /\ stored' \subseteq Replies
      BY <3>1, <3>2
    <3> QED
      BY <2>17, <3>1, <3>3 DEF ScanWrites, runStatus, work
  <2>15. ASSUME NEW c \in People, Answer(c) PROVE JudgmentInv'
    BY <2>15, JudgmentLimits DEF Answer, runStatus, work, scan
  <2> QED
    BY <2>1, <2>2, <2>3, <2>4, <2>5, <2>6, <2>7, <2>8, <2>9, <2>10, <2>11, <2>12,
       <2>13, <2>14, <2>15, <2>16, <2>17 DEF JudgmentNext, Runner
<1> QED
  BY <1>1, <1>2, PTL DEF JudgmentSpec

(* The state of the judgment has its types.                                *)
THEOREM JudgmentTypeCorrect ==
  JudgmentSpec => []JudgmentTypeOK
<1>1. JudgmentInv => JudgmentTypeOK
  BY DEF JudgmentInv
<1> QED
  BY <1>1, JudgmentInvariant, PTL

(* However often it is started, stopped, fails or dies, a reply is judged  *)
(* once, for any number of candidates and replies.                         *)
THEOREM RepliesJudgedOnce ==
  JudgmentSpec => []JudgedOnce
<1>1. JudgmentInv => JudgedOnce
  BY DEF JudgmentInv, OnceInv, JudgedOnce
<1> QED
  BY <1>1, JudgmentInvariant, PTL

(* No judgment is missing in a report that is announced.                   *)
THEOREM ReportsAreFresh ==
  JudgmentSpec => []ReportIsFresh
<1>1. JudgmentInit => ReportInv
  BY DEF JudgmentInit, ReportInv
<1>2. JudgmentInv /\ ReportInv /\ [JudgmentNext]_judgmentVars => ReportInv'
  <2> SUFFICES ASSUME JudgmentInv, ReportInv, [JudgmentNext]_judgmentVars
               PROVE  ReportInv'
    OBVIOUS
  <2> USE DEF ReportInv, Shows
  <2>1. CASE UNCHANGED judgmentVars
    BY <2>1 DEF judgmentVars, runStatus, work, scan, db
  <2>2. CASE StartRoute
    BY <2>2 DEF StartRoute, runStatus, work, scan, db
  <2>3. CASE Stop
    BY <2>3 DEF Stop, work, scan, db
  <2>4. CASE JudgmentRestart
    BY <2>4 DEF JudgmentRestart, scan, db
  <2>5. CASE RunBegins
    BY <2>5 DEF RunBegins, JudgmentInv, JudgmentTypeOK, runStatus, work, scan, db
  <2>6. CASE List
    BY <2>6 DEF List, Judging, Summarizing, scan, db
  <2>7. CASE Read
    BY <2>7 DEF Read, runStatus, scan, db
  <2>8. CASE Judge
    BY <2>8 DEF Judge, Summarizing, AlreadyStored, runStatus, scan, db
  <2>9. CASE Enrich
    BY <2>9 DEF Enrich, runStatus, scan
  <2>10. CASE Report
    BY <2>10 DEF Report, runStatus, scan, db
  <2>11. CASE Persist
    BY <2>11 DEF Persist, runStatus, work, scan, db
  <2>12. CASE Stored
    BY <2>12 DEF Stored, runStatus, work, scan
  <2>13. CASE RunFinishes
    BY <2>13 DEF RunFinishes, Leave, work, scan, db
  <2>14. CASE Fail
    BY <2>14 DEF Fail, Leave, scan, db
  <2>16. ASSUME NEW c \in People, ScanReads(c) PROVE ReportInv'
    BY <2>16, LatestIsReply DEF ScanReads, runStatus, work, db
  <2>17. CASE ScanWrites
    BY <2>17 DEF ScanWrites, runStatus, work
  <2>15. ASSUME NEW c \in People, Answer(c) PROVE ReportInv'
    BY <2>15 DEF Answer, runStatus, work, scan
  <2> QED
    BY <2>1, <2>2, <2>3, <2>4, <2>5, <2>6, <2>7, <2>8, <2>9, <2>10, <2>11, <2>12,
       <2>13, <2>14, <2>15, <2>16, <2>17 DEF JudgmentNext, Runner
<1>3. ReportInv => ReportIsFresh
  BY DEF ReportInv, ReportIsFresh, Shows
<1> QED
  BY <1>1, <1>2, <1>3, JudgmentInvariant, PTL DEF JudgmentSpec

-----------------------------------------------------------------------------
(* The import                                                              *)
(*                                                                         *)
(* A file claims its text: it does so when its hash is registered, and     *)
(* keeps the claim until it is saved or gives up.  Two files cannot claim  *)
(* the same text, because a claim is in the registered hashes, which only  *)
(* grow, and is looked up before it is made.                               *)

Text(f)   == <<"text", TextOf[content[f]]>>
Claims(f) == f \in saved \/ file[f] \in {"count", "screen", "save"}

ClaimsInv ==
  /\ file \in [Files -> {"queued", "over"} \union Working] /\ saved \subseteq Files
  /\ \A f \in Files : Claims(f) => Text(f) \in seen
  /\ \A f, g \in Files : Claims(f) /\ Claims(g) /\ Text(f) = Text(g) => f = g

(* No step claims a text but the one that registers it.                    *)
LEMMA NoClaim ==
  ASSUME ClaimsInv, seen \subseteq seen', saved' \subseteq Files, UNCHANGED content,
         file' \in [Files -> {"queued", "over"} \union Working],
         \A f \in Files : Claims(f)' => Claims(f)
  PROVE  ClaimsInv'
  BY DEF ClaimsInv, Text

(* A file goes on without a new claim.                                     *)
LEMMA FileGoes ==
  ASSUME ClaimsInv, NEW f \in Files, NEW at \in {"over"} \union Working, Goes(f, at),
         UNCHANGED content, saved' = saved \/ (saved' = saved \union {f} /\ file[f] = "save"),
         seen \subseteq seen', at \in {"screen", "save"} => file[f] \in {"count", "screen"},
         at # "count"
  PROVE  ClaimsInv'
<1>1. file' \in [Files -> {"queued", "over"} \union Working] /\ saved' \subseteq Files
  BY DEF Goes, ClaimsInv
<1>2. ASSUME NEW g \in Files, Claims(g)' PROVE Claims(g)
  BY <1>2 DEF Claims, Goes, ClaimsInv
<1> QED
  BY <1>1, <1>2, NoClaim

(* A text is claimed that nobody claims.                                   *)
LEMMA ExtractClaims ==
  ASSUME ClaimsInv, NEW f \in Files, Extract(f)
  PROVE  ClaimsInv'
<1>1. UNCHANGED <<content, saved>> /\ file[f] = "extract"
  BY DEF Extract
<1>2. CASE Goes(f, "failed") /\ UNCHANGED seen
  BY <1>1, <1>2, FileGoes DEF Working
<1>3. CASE Goes(f, "duplicate") /\ UNCHANGED seen
  BY <1>1, <1>3, FileGoes DEF Working
<1>4. CASE Text(f) \notin seen /\ Goes(f, "count") /\ seen' = seen \union {Text(f)}
  <2>1. file' \in [Files -> {"queued", "over"} \union Working] /\ saved' \subseteq Files
    BY <1>1, <1>4 DEF Goes, ClaimsInv, Working
  <2>2. ASSUME NEW g \in Files, Claims(g)', g # f
        PROVE  Claims(g) /\ Text(g) \in seen /\ Text(g) # Text(f)
    BY <1>1, <1>4, <2>2 DEF Claims, Goes, ClaimsInv
  <2>3. \A g \in Files : Text(g)' = Text(g)
    BY <1>1 DEF Text
  <2>4. \A g \in Files : Claims(g)' => Text(g)' \in seen'
    BY <1>4, <2>2, <2>3
  <2>5. ASSUME NEW g \in Files, NEW h \in Files, Claims(g)', Claims(h)', Text(g)' = Text(h)'
        PROVE  g = h
    <3>1. Text(g) = Text(h)
      BY <2>3, <2>5
    <3>2. CASE g = f \/ h = f
      BY <2>2, <2>5, <3>1, <3>2
    <3>3. CASE g # f /\ h # f
      BY <2>2, <2>5, <3>1, <3>3 DEF ClaimsInv
    <3> QED
      BY <3>2, <3>3
  <2> QED
    BY <2>1, <2>4, <2>5 DEF ClaimsInv
<1> QED
  BY <1>1, <1>2, <1>3, <1>4 DEF Extract, HashRegistered, Text

(* Every step of a file keeps the claims apart.                            *)
LEMMA FileKeeps ==
  ASSUME ClaimsInv, NEW f \in Files, FileStep(f)
  PROVE  ClaimsInv'
<1>1. CASE Hash(f)
  BY <1>1, FileGoes DEF Hash, HashRegistered, Working
<1>2. CASE Screen(f)
  BY <1>2, FileGoes DEF Screen, Working
<1>3. CASE Save(f)
  BY <1>3, FileGoes DEF Save, Working
<1>4. CASE Count(f)
  <2>1. UNCHANGED <<content, saved, seen>>
    BY <1>4 DEF Count
  <2>2. \/ file[f] = "count" /\ Goes(f, "screen")
        \/ Goes(f, "over") \/ Goes(f, "failed")
    BY <1>4 DEF Count, Leaves
  <2> QED
    BY <2>1, <2>2, FileGoes DEF Working
<1> QED
  BY <1>1, <1>2, <1>3, <1>4, ExtractClaims DEF FileStep

(* The job and its end drop claims or leave them.                          *)
LEMMA JobKeeps ==
  ASSUME ClaimsInv, JobStep \/ ImportCancelled \/ ImportRestart \/ Regenerate \/ RankerBegins \/ RankerEnds
  PROVE  ClaimsInv'
<1>1. UNCHANGED <<content, saved, seen>>
  BY DEF JobStep, ImportBegins, Batch, FinishWorkflow, FinishPartial, RankBegins, Ranks, CleanUp, ImportCancelled, ImportRestart,
         Regenerate, RankerBegins, RankerEnds
<1>2. \/ UNCHANGED file
      \/ \E F \in SUBSET Files : file' = [f \in Files |-> IF f \in F THEN "over" ELSE file[f]]
      \/ \E F \in SUBSET Files : file' = [f \in Files |-> IF f \in F THEN "hash" ELSE file[f]]
  <2>1. CASE JobStep
    BY <2>1 DEF JobStep, ImportBegins, Batch, FinishWorkflow, FinishPartial, RankBegins, Ranks, CleanUp
  <2>2. CASE ImportCancelled
    BY <2>2 DEF ImportCancelled
  <2>3. CASE ImportRestart
    <3>1. file' = [f \in Files |-> IF f \in Files THEN "over" ELSE file[f]]
      BY <2>3 DEF ImportRestart
    <3> QED
      BY <3>1
  <2>4. CASE Regenerate \/ RankerBegins \/ RankerEnds
    BY <2>4 DEF Regenerate, RankerBegins, RankerEnds
  <2> QED
    BY <2>1, <2>2, <2>3, <2>4
<1>3. file' \in [Files -> {"queued", "over"} \union Working]
  BY <1>2 DEF ClaimsInv, Working
<1>4. \A f \in Files : Claims(f)' => Claims(f)
  BY <1>1, <1>2 DEF Claims
<1> QED
  BY <1>1, <1>3, <1>4, NoClaim DEF ClaimsInv

(* However the files of a batch overlap, and whatever fails on the way, two*)
(* that hold the same text do not become two candidates                    *)
(* (pdf_import_service.py, process_one).                                   *)
THEOREM TextsAreImportedOnce == ImportSpec => []NoTwins
<1>1. ImportInit => ClaimsInv
  BY DEF ImportInit, ClaimsInv, Claims
<1>2. ClaimsInv /\ [ImportNext]_importVars => ClaimsInv'
  <2>1. ASSUME ClaimsInv, UNCHANGED importVars PROVE ClaimsInv'
    BY <2>1 DEF importVars, ClaimsInv, Claims, Text
  <2> QED
    BY <2>1, FileKeeps, JobKeeps DEF ImportNext
<1>3. ClaimsInv => NoTwins
  BY DEF ClaimsInv, NoTwins, Claims, Text
<1> QED
  BY <1>1, <1>2, <1>3, PTL DEF ImportSpec

-----------------------------------------------------------------------------

(* The staging directory is empty once the job is over, broken off or cut  *)
(* short by a restart (pdf_import_service.py, run_pdf_import_job).         *)
THEOREM SourcesDoNotRemain == ImportSpec => []SourcesRemoved
<1>1. ImportInit => SourcesRemoved
  BY DEF ImportInit, SourcesRemoved
<1>2. SourcesRemoved /\ [ImportNext]_importVars => SourcesRemoved'
  <2> SUFFICES ASSUME SourcesRemoved, [ImportNext]_importVars PROVE SourcesRemoved'
    OBVIOUS
  <2>1. CASE UNCHANGED importVars
    BY <2>1 DEF importVars, SourcesRemoved
  <2>2. CASE JobStep
    BY <2>2 DEF JobStep, ImportBegins, Batch, FinishWorkflow, FinishPartial, RankBegins, Ranks, CleanUp,
                SourcesRemoved
  <2>3. CASE ImportCancelled \/ ImportRestart
    BY <2>3 DEF ImportCancelled, ImportRestart, SourcesRemoved
  <2>4. CASE Regenerate \/ RankerBegins \/ RankerEnds
    BY <2>4 DEF Regenerate, RankerBegins, RankerEnds, SourcesRemoved
  <2>5. ASSUME NEW f \in Files, FileStep(f) PROVE SourcesRemoved'
    <3>1. staged' \subseteq staged /\ (import' = import \/ import' = "partial")
      BY <2>5 DEF FileStep, Hash, Extract, Screen, Save, Count, Leaves, Goes
    <3> QED
      BY <3>1 DEF SourcesRemoved
  <2> QED
    BY <2>1, <2>2, <2>3, <2>4, <2>5 DEF ImportNext
<1> QED
  BY <1>1, <1>2, PTL DEF ImportSpec

-----------------------------------------------------------------------------
(* The counts of the import                                                *)
(*                                                                         *)
(* Every file that is over was counted once, under one of three names, and *)
(* it was counted as completed if it is saved.                             *)

Progresses == [processing : Nat, completed : Nat, duplicate : Nat, failed : Nat,
               state : {"queued", "processing", "completed"},
               ranking : {"queued", "ranking", "completed", "failed"}]

Ended    == {f \in Files : file[f] = "over"}
Counting == import \in {"start", "batch", "finish"}

Exact ==
  /\ progress.completed = Cardinality(Ended \intersect saved)
  /\ progress.completed + progress.duplicate + progress.failed = Cardinality(Ended)

CountedInv ==
  /\ progress \in Progresses /\ saved \subseteq Files
  /\ file \in [Files -> {"queued", "over"} \union Working]
  /\ \A f \in Files : file[f] = "done" => f \in saved
  /\ Counting => progress.state # "completed"
  /\ import \in {"finish", "rankStart", "ranking"} \/ progress.state = "completed" => Ended = Files
  /\ ~lost /\ Counting =>
       Exact /\ \A f \in saved : file[f] \in {"done", "over"}
  /\ ~lost /\ progress.state = "completed" => Exact

-----------------------------------------------------------------------------
(* What one more of a kind changes in the counts.                          *)
LEMMA UpdatedFields ==
  ASSUME progress \in Progresses, NEW kind \in {"count", "done", "failed", "duplicate"}
  PROVE  /\ Updated(kind) \in Progresses /\ Updated(kind).state = progress.state
         /\ Updated(kind).completed = progress.completed + (IF kind = "done" THEN 1 ELSE 0)
         /\ Updated(kind).duplicate = progress.duplicate + (IF kind = "duplicate" THEN 1 ELSE 0)
         /\ Updated(kind).failed = progress.failed + (IF kind = "failed" THEN 1 ELSE 0)
<1> DEFINE less == Less(progress.processing)
           more == progress.processing + 1
           done == progress.completed + 1
           lost1 == progress.failed + 1
           dup == progress.duplicate + 1
<1>1. less \in Nat /\ more \in Nat /\ done \in Nat /\ lost1 \in Nat /\ dup \in Nat
  BY DEF Progresses, Less
<1>2. Updated("count") = [progress EXCEPT !.processing = more]
  BY DEF Updated
<1>3. Updated("done") = [progress EXCEPT !.processing = less, !.completed = done]
  BY DEF Updated
<1>4. Updated("failed") = [progress EXCEPT !.processing = less, !.failed = lost1]
  BY DEF Updated
<1>5. Updated("duplicate") = [progress EXCEPT !.duplicate = dup]
  BY DEF Updated
<1>6. done = progress.completed + 1 /\ lost1 = progress.failed + 1 /\ dup = progress.duplicate + 1
  OBVIOUS
<1>7. /\ progress.completed + 0 = progress.completed /\ progress.failed + 0 = progress.failed
      /\ progress.duplicate + 0 = progress.duplicate
  BY DEF Progresses
<1> HIDE DEF less, more, done, lost1, dup
<1>8. CASE kind = "count"
  BY <1>1, <1>2, <1>7, <1>8 DEF Progresses
<1>9. CASE kind = "done"
  BY <1>1, <1>3, <1>6, <1>7, <1>9 DEF Progresses
<1>10. CASE kind = "failed"
  BY <1>1, <1>4, <1>6, <1>7, <1>10 DEF Progresses
<1>11. CASE kind = "duplicate"
  BY <1>1, <1>5, <1>6, <1>7, <1>11 DEF Progresses
<1> QED
  BY <1>8, <1>9, <1>10, <1>11

(* A file in work moves on without being over; it may be saved on the way. *)
LEMMA FileMoves ==
  ASSUME CountedInv, NEW f \in Files, file[f] \in Working, NEW at \in Working, Goes(f, at),
         import' = import \/ (import' = "partial" /\ import = "batch"),
         progress' \in Progresses, progress'.state = progress.state,
         lost' \/ (/\ progress'.completed = progress.completed
                  /\ progress'.duplicate = progress.duplicate /\ progress'.failed = progress.failed),
         lost => lost', saved' = IF at = "done" THEN saved \union {f} ELSE saved,
         lost' \/ file[f] # "done" \/ at = "done"
  PROVE  CountedInv'
<1>1. file[f] # "over" /\ at # "over" /\ "over" \notin Working
  BY DEF Working
<1>2. file' \in [Files -> {"queued", "over"} \union Working] /\ saved' \subseteq Files
  BY DEF Goes, CountedInv
<1>3. \A g \in Files : file'[g] = IF g = f THEN at ELSE file[g]
  BY DEF Goes, CountedInv
<1>4. Ended' = Ended /\ (Ended \intersect saved)' = Ended \intersect saved
  BY <1>1, <1>3 DEF Ended
<1>5. Ended # Files
  BY <1>1 DEF Ended
<1>6. ~lost' => Exact' = Exact
  BY <1>4 DEF Exact, CountedInv, Progresses
<1>7. ~lost' /\ Counting => \A g \in saved' : file'[g] \in {"done", "over"}
  BY <1>1, <1>3 DEF CountedInv, Counting
<1>8. \A g \in Files : file'[g] = "done" => g \in saved'
  BY <1>3 DEF CountedInv
<1> QED
  BY <1>2, <1>4, <1>5, <1>6, <1>7, <1>8 DEF CountedInv, Counting

(* A file that is over is counted, unless the count is lost.               *)
LEMMA FileEnds ==
  ASSUME CountedInv, NEW f \in Files, file[f] \in {"done", "duplicate", "failed"},
         Goes(f, "over"), progress' = Updated(file[f]), saved' = saved,
         import' = import \/ (import' = "partial" /\ import = "batch"), lost => lost'
  PROVE  CountedInv'
<1>1. /\ progress' \in Progresses /\ progress'.state = progress.state
      /\ progress'.completed = progress.completed + (IF file[f] = "done" THEN 1 ELSE 0)
      /\ progress'.completed + progress'.duplicate + progress'.failed
           = progress.completed + progress.duplicate + progress.failed + 1
  BY UpdatedFields DEF CountedInv, Progresses
<1>2. file' \in [Files -> {"queued", "over"} \union Working] /\ saved' \subseteq Files
  BY DEF Goes, CountedInv
<1>3. \A g \in Files : file'[g] = IF g = f THEN "over" ELSE file[g]
  BY DEF Goes, CountedInv
<1>4. f \notin Ended /\ Ended' = Ended \union {f}
  BY <1>3 DEF Ended
<1>5. IsFiniteSet(Ended) /\ IsFiniteSet(Ended \intersect saved)
  <2>1. Ended \subseteq Files /\ Ended \intersect saved \subseteq Files
    BY DEF Ended
  <2> QED
    BY <2>1, PdfLimits, FS_Subset
<1>6. Cardinality(Ended') = Cardinality(Ended) + 1
  BY <1>4, <1>5, FS_AddElement
<1>7. f \in saved => (Ended \intersect saved)' = (Ended \intersect saved) \union {f}
  BY <1>4
<1>8. f \notin saved => (Ended \intersect saved)' = Ended \intersect saved
  BY <1>4
<1>9. Cardinality((Ended \intersect saved)') = Cardinality(Ended \intersect saved) + IF f \in saved THEN 1 ELSE 0
  <2>1. Cardinality(Ended \intersect saved) \in Nat
    BY <1>5, FS_CardinalityType
  <2>2. CASE f \in saved
    BY <1>4, <1>5, <1>7, <2>2, FS_AddElement
  <2>3. CASE f \notin saved
    BY <1>8, <2>1, <2>3
  <2> QED
    BY <2>2, <2>3
<1>10. Ended # Files /\ progress.state # "completed" /\ import \notin {"finish", "rankStart", "ranking"}
  BY <1>4 DEF CountedInv
<1>11. ASSUME ~lost, Counting, file[f] = "done" <=> f \in saved
       PROVE  Exact'
  BY <1>1, <1>6, <1>9, <1>11 DEF CountedInv, Exact
<1>12. ~lost /\ Counting => \A g \in saved' : file'[g] \in {"done", "over"}
  BY <1>3 DEF CountedInv
<1>13. \A g \in Files : file'[g] = "done" => g \in saved'
  BY <1>3 DEF CountedInv
<1>14. ~lost /\ Counting => (file[f] = "done" <=> f \in saved)
  BY DEF CountedInv
<1> QED
  BY <1>1, <1>2, <1>10, <1>11, <1>12, <1>13, <1>14 DEF CountedInv, Counting

(* The steps of a file.                                                    *)
LEMMA FileCounts ==
  ASSUME CountedInv, NEW f \in Files, FileStep(f)
  PROVE  CountedInv'
<1> USE DEF Working
<1>0. progress \in Progresses
  BY DEF CountedInv
<1>1. CASE Hash(f) \/ Extract(f) \/ Screen(f) \/ Save(f)
  <2>1. UNCHANGED <<import, progress, lost>> /\ file[f] \in Working \ {"done"}
    BY <1>1 DEF Hash, Extract, Screen, Save
  <2>2. PICK at \in Working : Goes(f, at) /\ saved' = IF at = "done" THEN saved \union {f} ELSE saved
    BY <1>1 DEF Hash, Extract, Screen, Save, HashRegistered
  <2> QED
    BY <1>0, <2>1, <2>2, FileMoves
<1>2. CASE Count(f)
  <2>1. file[f] \in {"count", "done", "duplicate", "failed"} /\ progress' = Updated(file[f])
        /\ saved' = saved
    BY <1>2 DEF Count
  <2>2. import' = import \/ (import' = "partial" /\ import = "batch")
    BY <1>2 DEF Count
  <2>3. lost => lost'
    BY <1>2 DEF Count, Writes, Loses
  <2>4. CASE Goes(f, "over")
    <3>1. file[f] # "count"
      BY <1>2, <2>4 DEF Count, Goes, Leaves, CountedInv
    <3> QED
      BY <2>1, <2>2, <2>3, <2>4, <3>1, FileEnds
  <2>5. CASE ~Goes(f, "over")
    <3>1. PICK at \in {"screen", "failed"} : Goes(f, at) /\ (lost' \/ file[f] = "count")
      BY <1>2, <2>5 DEF Count, Leaves, Loses
    <3>2. progress' \in Progresses /\ progress'.state = progress.state
      BY <1>0, <2>1, UpdatedFields
    <3>3. file[f] = "count" => /\ progress'.completed = progress.completed
                              /\ progress'.duplicate = progress.duplicate
                              /\ progress'.failed = progress.failed
      BY <1>0, <2>1, UpdatedFields DEF Progresses
    <3>4. file[f] \in Working /\ at \in Working /\ saved' = IF at = "done" THEN saved \union {f} ELSE saved
      BY <2>1, <3>1
    <3>5. lost' \/ (/\ progress'.completed = progress.completed
                   /\ progress'.duplicate = progress.duplicate /\ progress'.failed = progress.failed)
      BY <3>1, <3>3
    <3>6. lost' \/ file[f] # "done"
      BY <3>1
    <3> HIDE DEF Working
    <3> QED
      BY <2>2, <2>3, <3>1, <3>2, <3>4, <3>5, <3>6, FileMoves
  <2> QED
    BY <2>4, <2>5
<1> QED
  BY <1>1, <1>2 DEF FileStep

(* The steps of the job.                                                   *)
LEMMA JobCounts ==
  ASSUME CountedInv, JobStep
  PROVE  CountedInv'
<1> USE DEF CountedInv
<1>0. \A s \in {"queued", "processing", "completed"} : \A p \in Progresses :
        LET q == [p EXCEPT !.state = s]
            r == [p EXCEPT !.processing = 0, !.state = s]
        IN /\ q \in Progresses /\ q.state = s /\ q.completed = p.completed
           /\ q.duplicate = p.duplicate /\ q.failed = p.failed
           /\ r \in Progresses /\ r.state = s /\ r.completed = p.completed
           /\ r.duplicate = p.duplicate /\ r.failed = p.failed
  BY DEF Progresses
<1>1. CASE ImportBegins
  <2>1. UNCHANGED <<file, saved>> /\ import = "start" /\ import' \in {"batch", "partial"}
        /\ progress' = [progress EXCEPT !.state = "processing"]
        /\ (import' = "partial" => lost') /\ (lost => lost')
    BY <1>1 DEF ImportBegins, Writes, Loses
  <2>2. progress' \in Progresses /\ progress'.state = "processing" /\ progress'.completed = progress.completed
        /\ progress'.duplicate = progress.duplicate /\ progress'.failed = progress.failed
    BY <1>0, <2>1
  <2>3. Exact' = Exact /\ Ended' = Ended
    BY <2>1, <2>2 DEF Exact, Ended
  <2> QED
    BY <2>1, <2>2, <2>3 DEF Counting
<1>2. CASE Batch
  <2>1. UNCHANGED <<saved, progress, lost>> /\ import = "batch" /\ import' \in {"batch", "finish"}
    BY <1>2 DEF Batch
  <2>2. /\ file' \in [Files -> {"queued", "over"} \union Working]
        /\ \A f \in Files : file[f] \in {"queued", "over"}
                          /\ file'[f] \in {file[f], "hash"} /\ (file[f] = "over" => file'[f] = "over")
        /\ (import' = "finish" => \A f \in Files : file[f] = "over" /\ file'[f] = "over")
    BY <1>2 DEF Batch, Working
  <2>3. Ended' = Ended /\ (import' = "finish" => Ended' = Files)
    BY <2>2 DEF Ended
  <2>4. Exact' = Exact
    BY <2>1, <2>3 DEF Exact
  <2> QED
    BY <2>1, <2>2, <2>3, <2>4 DEF Counting
<1>3. CASE FinishWorkflow
  <2>1. UNCHANGED <<file, saved>> /\ import = "finish" /\ (lost => lost')
    BY <1>3 DEF FinishWorkflow, Writes, Loses
  <2>2. \/ import' = "partial" /\ UNCHANGED progress /\ lost'
        \/ import' = "rankStart" /\ progress' = [progress EXCEPT !.processing = 0, !.state = "completed"]
    BY <1>3 DEF FinishWorkflow, Loses
  <2>3. Ended' = Ended
    BY <2>1 DEF Ended
  <2>4. CASE import' = "partial" /\ UNCHANGED progress /\ lost'
    BY <2>1, <2>3, <2>4 DEF Counting
  <2>5. CASE import' = "rankStart" /\ progress' = [progress EXCEPT !.processing = 0, !.state = "completed"]
    <3>1. progress' \in Progresses /\ progress'.completed = progress.completed
          /\ progress'.duplicate = progress.duplicate /\ progress'.failed = progress.failed
      BY <1>0, <2>5
    <3>2. Exact' = Exact
      BY <2>1, <2>3, <3>1 DEF Exact
    <3> QED
      BY <2>1, <2>3, <2>5, <3>1, <3>2 DEF Counting
  <2> QED
    BY <2>2, <2>4, <2>5
<1>4. CASE FinishPartial
  <2>1. UNCHANGED <<file, saved, progress>> /\ import' = "over" /\ (lost => lost')
    BY <1>4 DEF FinishPartial, CleanUp, Writes, Loses
  <2> QED
    BY <2>1 DEF Counting, Exact, Ended
<1>5. CASE RankBegins \/ Ranks
  <2>1. UNCHANGED <<file, saved>> /\ import \in {"rankStart", "ranking"}
        /\ import' \in {"ranking", "partial", "over"} /\ (lost => lost')
    BY <1>5 DEF RankBegins, Ranks, CleanUp, Writes, Loses
  <2>2. PICK r \in {"ranking", "completed", "failed"} : progress' = [progress EXCEPT !.ranking = r]
    BY <1>5 DEF RankBegins, Ranks
  <2>3. progress' \in Progresses /\ progress'.state = progress.state /\ progress'.completed = progress.completed
        /\ progress'.duplicate = progress.duplicate /\ progress'.failed = progress.failed
    BY <2>2 DEF Progresses
  <2>4. Exact' = Exact /\ Ended' = Ended
    BY <2>1, <2>3 DEF Exact, Ended
  <2> QED
    BY <2>1, <2>3, <2>4 DEF Counting
<1> QED
  BY <1>1, <1>2, <1>3, <1>4, <1>5 DEF JobStep

(* A cancel or a restart ends what is counted before all files are.        *)
LEMMA CutsCount ==
  ASSUME CountedInv, ImportCancelled \/ ImportRestart
  PROVE  CountedInv'
<1>1. UNCHANGED <<saved, progress, lost>> /\ import' \in {"partial", "none"}
  BY DEF ImportCancelled, ImportRestart
<1>2. file' \in [Files -> {"queued", "over"} \union Working]
      /\ \A f \in Files : file'[f] \in {file[f], "over"} /\ (file[f] \in Working => file'[f] = "over")
  BY DEF ImportCancelled, ImportRestart, CountedInv
<1>3. Ended = Files => Ended' = Ended
  BY <1>2 DEF Ended
<1>4. Ended' = Ended => Exact' = Exact
  BY <1>1 DEF Exact
<1> QED
  BY <1>1, <1>2, <1>3, <1>4 DEF CountedInv, Counting, Working

(* A ranking asked for later has counts of its own.                        *)
LEMMA RankerCounts ==
  ASSUME CountedInv, UNCHANGED <<import, file, saved, progress>>, lost => lost'
  PROVE  CountedInv'
  BY DEF CountedInv, Counting, Exact, Ended

(* The counts of a finished import account for every file and say how many *)
(* candidates there are (pdf_import_service.py, update).                   *)
THEOREM ImportsAreCounted == ImportSpec => []CountsAdd
<1>1. ImportInit => CountedInv
  <2> SUFFICES ASSUME ImportInit PROVE CountedInv
    OBVIOUS
  <2>1. progress \in Progresses /\ progress.completed = 0 /\ progress.duplicate = 0 /\ progress.failed = 0
        /\ progress.state = "queued"
    BY DEF ImportInit, Initially, Progresses
  <2>2. Ended = {} /\ Ended \intersect saved = {}
    BY DEF ImportInit, Ended
  <2>3. Exact
    BY <2>1, <2>2, FS_EmptySet DEF Exact
  <2> QED
    BY <2>1, <2>2, <2>3 DEF ImportInit, CountedInv, Counting
<1>2. CountedInv /\ [ImportNext]_importVars => CountedInv'
  <2> SUFFICES ASSUME CountedInv, [ImportNext]_importVars PROVE CountedInv'
    OBVIOUS
  <2>1. CASE UNCHANGED importVars
    BY <2>1, RankerCounts DEF importVars
  <2>2. CASE Regenerate \/ RankerBegins \/ RankerEnds
    BY <2>2, RankerCounts DEF Regenerate, RankerBegins, RankerEnds, Writes, Loses
  <2> QED
    BY <2>1, <2>2, FileCounts, JobCounts, CutsCount DEF ImportNext
<1>3. CountedInv => CountsAdd
  <2> SUFFICES ASSUME CountedInv, progress.state = "completed", ~lost
               PROVE  progress.completed = Cardinality(saved)
                      /\ progress.completed + progress.duplicate + progress.failed = Cardinality(Files)
    BY DEF CountsAdd
  <2>1. Ended = Files /\ Ended \intersect saved = saved
    BY DEF CountedInv
  <2> QED
    BY <2>1 DEF CountedInv, Exact
<1> QED
  BY <1>1, <1>2, <1>3, PTL DEF ImportSpec

-----------------------------------------------------------------------------
(* The login session                                                       *)

(* There is one window at most, and unless it is lost it is named or its   *)
(* page is loading.                                                        *)
Known(w, name, requests) ==
  w = name \/ \E o \in Ops : requests[o].at = "loading" /\ requests[o].win = w

WindowInv ==
  /\ op \in [Ops -> [at : Ats, win : Nat]] /\ 0 \notin open /\ window \in Nat /\ opened \in Nat
  /\ \A v, w \in open : v = w
  /\ \A w \in open \ strays : Known(w, window, op)

(* A request that is loading no page goes on or returns: what it leaves on *)
(* the screen was there, and what it does not lose is still named.         *)
LEMMA GoesKeeps ==
  ASSUME WindowInv, NEW o \in Ops, op[o].at # "loading",
         NEW next \in [at : Ats, win : Nat], op' = [op EXCEPT ![o] = next],
         open' \subseteq open, window' \in Nat, opened' \in Nat, strays \subseteq strays',
         window' = window \/ window \notin open' \ strays'
  PROVE  WindowInv'
<1>1. \A p \in Ops \ {o} : op'[p] = op[p]
  BY DEF WindowInv
<1>2. op' \in [Ops -> [at : Ats, win : Nat]]
  BY DEF WindowInv
<1>3. ASSUME NEW w \in open' \ strays' PROVE Known(w, window', op')
  <2>1. Known(w, window, op) /\ (w = window => w = window')
    BY <1>3 DEF WindowInv
  <2> QED
    BY <1>1, <2>1 DEF Known
<1> QED
  BY <1>2, <1>3 DEF WindowInv

(* What the close of a window leaves.                                      *)
LEMMA CloseKeeps ==
  ASSUME WindowInv, NEW o \in Ops, CloseWindow(o)
  PROVE  /\ open' \subseteq open /\ window' \in Nat /\ strays \subseteq strays'
         /\ window' = window \/ window \notin open' \ strays'
<1>1. open' \subseteq open
  BY DEF CloseWindow
<1> QED
  BY <1>1 DEF CloseWindow, WindowInv

(* Every step keeps the invariant.                                         *)
LEMMA WindowSteps ==
  ASSUME WindowInv, [LoginNext]_loginVars
  PROVE  WindowInv'
<1> DEFINE Record == [at : Ats, win : Nat]
<1>0. /\ Idle \in Record /\ op \in [Ops -> Record] /\ 0 \notin open /\ window \in Nat
      /\ opened \in Nat /\ \A v, w \in open : v = w
  BY DEF WindowInv, Idle, Ats
<1>1. CASE UNCHANGED loginVars
  BY <1>1 DEF WindowInv, loginVars
<1>2. CASE ClosedByHand
  BY <1>2 DEF ClosedByHand, WindowInv
<1>3. ASSUME NEW o \in Ops, Start(o) \/ Relogin(o) \/ Complete(o) \/ CancelLogin(o) \/ Refresh(o)
      PROVE  WindowInv'
  <2>1. op[o] = Idle /\ UNCHANGED <<window, open, opened, strays>>
    BY <1>3 DEF Arrives, Start, Relogin, Complete, CancelLogin, Refresh
  <2>2. PICK at \in Ats, win \in Nat : OpGoes(o, at, win)
    BY <1>0, <1>3, <2>1 DEF Start, StartBegins, Relogin, Complete, CancelLogin, Refresh, Ats
  <2>3. PICK next \in Record : op' = [op EXCEPT ![o] = next]
    BY <2>2 DEF OpGoes
  <2>4. op[o].at # "loading"
    BY <2>1 DEF Idle
  <2>5. open' \subseteq open /\ window' = window /\ opened' = opened /\ strays' = strays
    BY <2>1
  <2> QED
    BY <1>0, <2>3, <2>4, <2>5, GoesKeeps
<1>4. ASSUME NEW o \in Ops, Step(o) PROVE WindowInv'
  <2>1. CASE op[o].at # "loading" /\ ~WindowOpens(o) /\ ~NewPageFails(o)
    <3>1. PICK next \in Record : op' = [op EXCEPT ![o] = next]
      <4>1. PICK at \in Ats, win \in Nat : OpGoes(o, at, win) \/ Returns(o)
        BY <1>0, <1>4, <2>1
           DEF Step, StartCloses, PageLoads, LaunchFails, GotoFails, StartRaises, FailCloses,
               ReloginCloses, StartBegins, CancelCloses, Detected, CompleteCloses, Verified, Ats,
               CloseWindow
      <4>2. [at |-> at, win |-> win] \in Record
        OBVIOUS
      <4> QED
        BY <1>0, <4>1, <4>2 DEF OpGoes, Returns
    <3>2. /\ open' \subseteq open /\ window' \in Nat /\ opened' \in Nat /\ strays \subseteq strays'
          /\ window' = window \/ window \notin open' \ strays'
      <4>1. CASE CloseWindow(o) /\ UNCHANGED opened
        BY <1>0, <4>1, CloseKeeps
      <4>2. CASE UNCHANGED <<window, open, opened, strays>>
        BY <1>0, <4>2
      <4>3. CASE CompleteCloses(o)
        BY <1>0, <4>3 DEF CompleteCloses
      <4>4. \/ CloseWindow(o) /\ UNCHANGED opened
            \/ UNCHANGED <<window, open, opened, strays>>
            \/ CompleteCloses(o)
        BY <1>4, <2>1
           DEF Step, StartCloses, PageLoads, LaunchFails, GotoFails, StartRaises, FailCloses,
               ReloginCloses, CancelCloses, Detected, Verified
      <4> QED
        BY <4>1, <4>2, <4>3, <4>4
    <3> QED
      BY <2>1, <3>1, <3>2, GoesKeeps
  <2>2. CASE WindowOpens(o)
    <3>1. opened' \in Nat \ {0} /\ open' = {opened'} /\ UNCHANGED window
      BY <1>0, <2>2 DEF WindowOpens, Launched
    <3>2. [at |-> "loading", win |-> opened'] \in Record
          /\ op' = [op EXCEPT ![o] = [at |-> "loading", win |-> opened']]
      BY <2>2, <3>1 DEF WindowOpens, OpGoes, Ats
    <3>3. op' \in [Ops -> Record] /\ op'[o] = [at |-> "loading", win |-> opened']
      BY <1>0, <3>2
    <3>4. Known(opened', window', op')
      BY <3>3 DEF Known
    <3> QED
      BY <1>0, <3>1, <3>3, <3>4 DEF WindowInv
  <2>3. CASE NewPageFails(o)
    <3>1. opened' \in Nat \ {0} /\ open' = {opened'} /\ UNCHANGED window /\ open' \ strays' = {}
      BY <1>0, <2>3 DEF NewPageFails, Launched, StartRaises
    <3>2. [at |-> "failClose", win |-> window] \in Record
          /\ op' = [op EXCEPT ![o] = [at |-> "failClose", win |-> window]]
      BY <1>0, <2>3 DEF NewPageFails, StartRaises, OpGoes, Ats
    <3>3. op' \in [Ops -> Record]
      BY <1>0, <3>2
    <3> QED
      BY <1>0, <3>1, <3>3 DEF WindowInv
  <2>4. CASE op[o].at = "loading"
    <3> DEFINE w == op[o].win
    <3>1. /\ UNCHANGED <<open, opened>> /\ open' \ strays' \subseteq open \ strays
          /\ \/ w \in open /\ window' = w /\ op' = [op EXCEPT ![o] = Idle]
             \/ /\ w \notin open' \ strays' /\ window' = window
                /\ op' = [op EXCEPT ![o] = [at |-> "failClose", win |-> window]]
      BY <1>4, <2>4
         DEF Step, StartCloses, WindowOpens, PageLoads, LaunchFails, NewPageFails, GotoFails,
             StartRaises, FailCloses, ReloginCloses, CancelCloses, Detected, CompleteCloses,
             Verified, OpGoes, Returns
    <3>2. w \in Nat /\ [at |-> "failClose", win |-> window] \in Record
      BY <1>0 DEF Ats
    <3>3. op' \in [Ops -> Record] /\ \A p \in Ops \ {o} : op'[p] = op[p]
      BY <1>0, <3>1, <3>2
    <3>4. ASSUME NEW v \in open' \ strays' PROVE Known(v, window', op')
      <4>1. v \in open \ strays /\ Known(v, window, op)
        BY <3>1 DEF WindowInv
      <4>2. CASE w \in open /\ window' = w
        BY <1>0, <4>1, <4>2 DEF Known
      <4>3. CASE w \notin open' \ strays' /\ window' = window
        BY <3>3, <4>1, <4>3 DEF Known
      <4> QED
        BY <3>1, <4>2, <4>3
    <3>5. window' \in Nat
      BY <1>0, <3>1, <3>2
    <3> QED
      BY <1>0, <3>1, <3>3, <3>4, <3>5 DEF WindowInv
  <2> QED
    BY <2>1, <2>2, <2>3, <2>4
<1> QED
  BY <1>1, <1>2, <1>3, <1>4 DEF LoginNext

(* No window is left that nobody knows but those which the code can lose,  *)
(* for any overlapping requests and any faults (login_init.py).            *)
THEOREM NoWindowIsLost ==
  LoginSpec => []NoStrayWindow
<1>1. LoginInit => WindowInv
  BY DEF LoginInit, WindowInv, Idle, Ats
<1>2. WindowInv /\ [LoginNext]_loginVars => WindowInv'
  BY WindowSteps
<1>3. WindowInv => NoStrayWindow
  BY DEF WindowInv, NoStrayWindow, Known
<1> QED
  BY <1>1, <1>2, <1>3, PTL DEF LoginSpec

-----------------------------------------------------------------------------
(* The event log                                                           *)

(* Numbers that are there have a least.                                    *)
LEMMA LeastNat ==
  ASSUME NEW T, T \subseteq Nat, T # {}
  PROVE  \E n \in T : \A m \in T : n <= m
<1>1. IsWellFoundedOn({ss \in Nat \X Nat : ss[1] < ss[2]}, Nat)
  BY NatLessThanWellFounded DEF OpToRel
<1>2. PICK n \in T : \A m \in T : ~(<<m, n>> \in {ss \in Nat \X Nat : ss[1] < ss[2]})
  BY <1>1, WFMin, Zenon
<1>3. ASSUME NEW m \in T PROVE n <= m
  <2>1. n \in Nat /\ m \in Nat
    OBVIOUS
  <2>2. <<m, n>> \in Nat \X Nat /\ ~(m < n)
    BY <1>2, <2>1
  <2> QED
    BY <2>1, <2>2
<1> QED
  BY <1>3

(* How many of some places lie up to i.                                    *)
UpTo(places, i) == Cardinality({j \in places : j <= i})

LEMMA UpToGrows ==
  ASSUME NEW n \in Nat, NEW places \in SUBSET (1..n), NEW i \in Int, NEW j \in Int, i <= j
  PROVE  /\ UpTo(places, i) \in 0..Cardinality(places) /\ Cardinality(places) \in 0..n
         /\ UpTo(places, i) <= UpTo(places, j)
         /\ j \in places /\ i < j => UpTo(places, i) < UpTo(places, j)
<1>0. \A m \in places : m \in Nat /\ 1 <= m /\ m <= n
  OBVIOUS
<1> DEFINE to(k) == {m \in places : m <= k}
<1>1. IsFiniteSet(1..n) /\ Cardinality(1..n) = n
  BY FS_Interval
<1>2. IsFiniteSet(places) /\ Cardinality(places) <= n /\ Cardinality(places) \in Nat
  BY <1>1, FS_Subset, FS_CardinalityType
<1>3. /\ IsFiniteSet(to(i)) /\ Cardinality(to(i)) \in Nat /\ Cardinality(to(i)) <= Cardinality(places)
      /\ IsFiniteSet(to(j)) /\ Cardinality(to(j)) \in Nat
  BY <1>2, FS_Subset, FS_CardinalityType
<1>4. to(i) \subseteq to(j)
  <2>1. \A m \in places : m <= i => m <= j
    BY <1>0
  <2> QED
    BY <2>1
<1>5. Cardinality(to(i)) <= Cardinality(to(j))
  BY <1>3, <1>4, FS_Subset
<1>6. ASSUME j \in places, i < j PROVE Cardinality(to(i)) < Cardinality(to(j))
  BY <1>3, <1>4, <1>6, FS_Subset
<1> QED
  BY <1>2, <1>3, <1>5, <1>6 DEF UpTo

(* Every rank up to the number of the places is that of exactly one.       *)
LEMMA PlaceOfRank ==
  ASSUME NEW n \in Nat, NEW places \in SUBSET (1..n), NEW k \in 1..Cardinality(places)
  PROVE  \E i \in places : UpTo(places, i) = k
<1>0. \A j \in places : j \in Nat /\ 1 <= j /\ j <= n
  OBVIOUS
<1> DEFINE enough == {l \in Nat : UpTo(places, l) >= k}
<1>1. {j \in places : j <= n} = places /\ {j \in places : j <= 0} = {}
  <2>1. \A j \in places : j <= n /\ ~(j <= 0)
    BY <1>0
  <2> QED
    BY <2>1
<1>2. n \in enough /\ UpTo(places, 0) = 0
  <2>1. UpTo(places, 0) = 0 /\ UpTo(places, n) = Cardinality(places)
    BY <1>1, FS_EmptySet DEF UpTo
  <2>2. Cardinality(places) \in Nat
    BY UpToGrows
  <2> QED
    BY <2>1, <2>2
<1>3. PICK m \in enough : \A l \in enough : m <= l
  BY <1>2, LeastNat
<1>4. /\ m \in Nat \ {0} /\ UpTo(places, m) >= k /\ UpTo(places, m - 1) < k
      /\ UpTo(places, m) \in Nat /\ UpTo(places, m - 1) \in Nat
  BY <1>2, <1>3, UpToGrows
<1>5. \A j \in places : j <= m <=> j <= m - 1 \/ j = m
  BY <1>0, <1>4
<1>6. /\ m \in places /\ m \notin {j \in places : j <= m - 1}
      /\ {j \in places : j <= m} = {j \in places : j <= m - 1} \union {m}
      /\ IsFiniteSet({j \in places : j <= m - 1})
  <2>1. CASE m \notin places
    <3>1. {j \in places : j <= m} = {j \in places : j <= m - 1}
      BY <1>5, <2>1
    <3>2. UpTo(places, m) = UpTo(places, m - 1)
      BY <3>1 DEF UpTo
    <3> QED
      BY <1>4, <3>2
  <2>2. CASE m \in places
    <3>1. ~(m <= m - 1) /\ m <= m
      BY <1>4
    <3>2. {j \in places : j <= m - 1} \subseteq 1..n
      OBVIOUS
    <3>3. IsFiniteSet({j \in places : j <= m - 1})
      BY <3>2, FS_Interval, FS_Subset
    <3>4. {j \in places : j <= m} = {j \in places : j <= m - 1} \union {m}
      BY <1>5, <2>2, <3>1
    <3> QED
      BY <2>2, <3>1, <3>3, <3>4
  <2> QED
    BY <2>1, <2>2
<1>7. UpTo(places, m) = UpTo(places, m - 1) + 1
  BY <1>6, FS_AddElement DEF UpTo
<1> QED
  BY <1>4, <1>6, <1>7

(* Only keeps the members of S, and every one of them.                     *)
LEMMA OnlyKeeps ==
  ASSUME NEW T, NEW s \in Seq(T), NEW S
  PROVE  /\ Only(s, S) \in Seq(T) /\ Len(Only(s, S)) <= Len(s)
         /\ \A e \in ToSet(s) : e \in S => e \in ToSet(Only(s, S))
<1> DEFINE n == Len(s)
           places == {i \in DOMAIN s : s[i] \in S}
           place(k) == CHOOSE i \in places : UpTo(places, i) = k
           kept == [k \in 1..Cardinality(places) |-> s[place(k)]]
<1>1. n \in Nat /\ places \in SUBSET (1..n)
  OBVIOUS
<1>2. Only(s, S) = kept
  BY DEF Only, UpTo
<1>3. Cardinality(places) \in 0..n
  <2>1. 0 \in Int /\ 0 <= 0
    OBVIOUS
  <2> HIDE DEF places, n
  <2> QED
    BY <1>1, <2>1, UpToGrows
<1>4. ASSUME NEW k \in 1..Cardinality(places)
      PROVE  place(k) \in places /\ UpTo(places, place(k)) = k
  <2>1. \E i \in places : UpTo(places, i) = k
    BY <1>1, PlaceOfRank
  <2> QED
    BY <2>1
<1>5. kept \in Seq(T) /\ Len(kept) = Cardinality(places)
  <2>1. ASSUME NEW k \in 1..Cardinality(places) PROVE s[place(k)] \in T
    <3>1. place(k) \in DOMAIN s
      BY <1>4
    <3> HIDE DEF place
    <3> QED
      BY <3>1
  <2> DEFINE c == Cardinality(places)
  <2>2. c \in Nat
    BY <1>1, <1>3
  <2> HIDE DEF place, c
  <2>3. [k \in 1..c |-> s[place(k)]] \in Seq(T) /\ Len([k \in 1..c |-> s[place(k)]]) = c
    BY <2>1, <2>2 DEF c
  <2> QED
    BY <2>3 DEF c
<1>6. ASSUME NEW e \in ToSet(s), e \in S
      PROVE  e \in ToSet(kept)
  <2>1. PICK i \in places : s[i] = e
    BY <1>6 DEF ToSet
  <2> DEFINE k == UpTo(places, i)
  <2>2. i \in 1..n /\ i \in Nat /\ i \in Int /\ i - 1 \in Int /\ i <= i
    BY <1>1, <2>1
  <2>3. k \in 1..Cardinality(places)
    <3>1. i - 1 <= i /\ i - 1 < i
      BY <2>2
    <3>2. UpTo(places, i - 1) < UpTo(places, i) /\ UpTo(places, i - 1) \in 0..Cardinality(places)
      <4> HIDE DEF places, n
      <4> QED
        BY <1>1, <2>1, <2>2, <3>1, UpToGrows
    <3>3. UpTo(places, i) \in 0..Cardinality(places)
      <4> HIDE DEF places, n
      <4> QED
        BY <1>1, <2>1, <2>2, UpToGrows
    <3> QED
      BY <1>3, <3>2, <3>3
  <2>4. place(k) \in places /\ UpTo(places, place(k)) = UpTo(places, i)
    BY <1>4, <2>3
  <2>5. place(k) = i
    <3>1. place(k) \in Int /\ i \in Int
      BY <1>1, <2>1, <2>4
    <3>2. CASE place(k) < i
      BY <1>1, <2>1, <2>4, <3>1, <3>2, UpToGrows
    <3>3. CASE i < place(k)
      BY <1>1, <2>1, <2>4, <3>1, <3>3, UpToGrows
    <3> QED
      BY <3>1, <3>2, <3>3
  <2>6. kept[k] = e
    BY <2>1, <2>3, <2>5
  <2> QED
    BY <1>5, <2>3, <2>6 DEF ToSet
<1>7. Len(kept) <= n
  BY <1>1, <1>3, <1>5
<1> HIDE DEF kept
<1> QED
  BY <1>2, <1>5, <1>6, <1>7

(* The last n of a sequence.                                               *)
LEMMA LastOfEnds ==
  ASSUME NEW T, NEW s \in Seq(T), NEW n \in Nat \ {0}
  PROVE  /\ LastOf(s, n) \in Seq(T) /\ Len(LastOf(s, n)) <= n
         /\ \A i \in 1..Len(LastOf(s, n)) :
              LastOf(s, n)[i] = s[i + Len(s) - Len(LastOf(s, n))]
         /\ Len(LastOf(s, n)) = IF Len(s) <= n THEN Len(s) ELSE n
<1>1. CASE Len(s) <= n
  BY <1>1 DEF LastOf
<1>2. CASE ~(Len(s) <= n)
  <2>1. LastOf(s, n) = SubSeq(s, Len(s) - n + 1, Len(s)) /\ Len(s) \in Nat /\ Len(s) > n
    BY <1>2 DEF LastOf
  <2>2. Len(SubSeq(s, Len(s) - n + 1, Len(s))) = n
    BY <2>1
  <2>3. SubSeq(s, Len(s) - n + 1, Len(s)) \in Seq(T)
    BY <2>1
  <2>4. \A i \in 1..n : SubSeq(s, Len(s) - n + 1, Len(s))[i] = s[i + Len(s) - n]
    BY <2>1, <2>2
  <2> QED
    BY <1>2, <2>1, <2>2, <2>3, <2>4
<1> QED
  BY <1>1, <1>2

(* A sequence of numbers has a highest.                                    *)
LEMMA HighestIs ==
  ASSUME NEW s \in Seq(Nat)
  PROVE  /\ Highest(s) \in Nat /\ \A e \in ToSet(s) : e <= Highest(s)
         /\ s # <<>> => Highest(s) \in ToSet(s)
<1> DEFINE n == Len(s)
           tops(k) == {i \in 1..k : \A j \in 1..k : s[j] <= s[i]}
           bad == {k \in 1..n : tops(k) = {}}
<1>0. n \in Nat /\ DOMAIN s = 1..n /\ \A i \in 1..n : s[i] \in Nat
  OBVIOUS
<1>1. CASE s = <<>>
  BY <1>1 DEF Highest, ToSet
<1>2. CASE s # <<>>
  <2>1. bad = {}
    <3> SUFFICES ASSUME bad # {} PROVE FALSE
      OBVIOUS
    <3>0. bad \subseteq 1..n /\ bad \subseteq Nat
      OBVIOUS
    <3>a. \A k \in bad : tops(k) = {}
      OBVIOUS
    <3>b. \A k \in (1..n) \ bad : tops(k) # {}
      OBVIOUS
    <3> HIDE DEF bad, tops
    <3>1. PICK k \in bad : \A m \in bad : k <= m
      BY <3>0, LeastNat
    <3>2. k \in 1..n /\ tops(k) = {}
      BY <3>0, <3>a, <3>1
    <3>3. k # 1
      <4>1. 1 \in tops(1) <=> s[1] <= s[1]
        BY DEF tops
      <4>2. 1 \in 1..n
        BY <3>2, <1>0
      <4> QED
        BY <1>0, <3>2, <4>1, <4>2 DEF tops
    <3>4. k - 1 \in 1..n /\ k - 1 \notin bad
      BY <1>0, <3>1, <3>2, <3>3
    <3>5. PICK i \in 1..(k - 1) : \A j \in 1..(k - 1) : s[j] <= s[i]
      BY <3>4, <3>b DEF tops
    <3>6. /\ i \in 1..k /\ k \in 1..k /\ i \in 1..n /\ s[i] \in Nat /\ s[k] \in Nat
          /\ \A j \in 1..k : j \in 1..(k - 1) \/ j = k
          /\ \A j \in 1..k : s[j] \in Nat
      BY <1>0, <3>2, <3>4, <3>5
    <3>7. CASE s[k] <= s[i]
      <4>1. \A j \in 1..k : s[j] <= s[i]
        BY <3>5, <3>6, <3>7
      <4> QED
        BY <3>2, <3>6, <4>1 DEF tops
    <3>8. CASE s[i] <= s[k]
      <4>1. ASSUME NEW j \in 1..k PROVE s[j] <= s[k]
        <5>1. CASE j = k
          BY <3>6, <5>1
        <5>2. CASE j \in 1..(k - 1)
          <6>1. s[j] <= s[i] /\ s[j] \in Nat
            BY <3>5, <3>6, <5>2
          <6> QED
            BY <3>6, <3>8, <6>1
        <5> QED
          BY <3>6, <5>1, <5>2
      <4> QED
        BY <3>2, <3>6, <4>1 DEF tops
    <3> QED
      BY <3>6, <3>7, <3>8
  <2>2. n \in 1..n
    BY <1>0, <1>2
  <2>3. PICK i \in 1..n : \A j \in 1..n : s[j] <= s[i]
    BY <2>1, <2>2
  <2>4. s[i] \in ToSet(s) /\ \A e \in ToSet(s) : e \in Nat /\ s[i] >= e
    BY <1>0, <2>3 DEF ToSet
  <2>5. \E x \in ToSet(s) : \A y \in ToSet(s) : x >= y
    BY <2>4
  <2>6. Max(ToSet(s)) \in ToSet(s) /\ \A y \in ToSet(s) : Max(ToSet(s)) >= y
    BY <2>5 DEF Max
  <2> QED
    BY <1>2, <2>4, <2>6 DEF Highest
<1> QED
  BY <1>1, <1>2

(* The higher of two numbers.                                              *)
LEMMA HigherOf ==
  ASSUME NEW m \in Nat, NEW n \in Nat
  PROVE  /\ Max({m, n}) \in Nat /\ Max({m, n}) >= m /\ Max({m, n}) >= n
         /\ Max({m, n}) \in {m, n}
<1>1. \E x \in {m, n} : \A y \in {m, n} : x >= y
  OBVIOUS
<1>2. Max({m, n}) \in {m, n} /\ \A y \in {m, n} : Max({m, n}) >= y
  BY <1>1 DEF Max
<1> QED
  BY <1>2

(* A read gives the last lines of the file, or nothing.                    *)
LEMMA ReadsAre ==
  ASSUME log \in Seq(Nat)
  PROVE  /\ LastOf(log, BufferLimit) \in Seq(Nat) /\ ToSet(LastOf(log, BufferLimit)) \subseteq ToSet(log)
         /\ Persisted \in Reads
         /\ \A view \in Reads : /\ view \in Seq(Nat) /\ Len(view) <= BufferLimit
                                /\ ToSet(view) \subseteq ToSet(log)
<1>1. BufferLimit \in Nat \ {0}
  BY EventLimits
<1>2. <<>> \in Seq(Nat) /\ Len(<<>>) <= BufferLimit /\ ToSet(<<>>) = {}
  BY <1>1 DEF ToSet
<1>3. log \in Seq(ToSet(log))
  <2>1. \A i \in 1..Len(log) : log[i] \in ToSet(log)
    BY DEF ToSet
  <2> QED
    BY <2>1
<1> DEFINE last == LastOf(log, BufferLimit)
<1>4. last \in Seq(Nat) /\ last \in Seq(ToSet(log)) /\ Len(last) <= BufferLimit
  BY <1>1, <1>3, LastOfEnds
<1> HIDE DEF last
<1>5. ToSet(last) \subseteq ToSet(log)
  BY <1>4 DEF ToSet
<1> QED
  BY <1>2, <1>4, <1>5 DEF Reads, Persisted, last

(* Without a fault the ids are 1, 2, 3 ... and so are the lines of the     *)
(* file, and the counter is that of the last or was lost with the process. *)
InOrder ==
  /\ \A i \in DOMAIN log : log[i] = i
  /\ issued = log /\ counter \in {0, Len(log)}

(* Whatever fails, the counter is not below an id of this process.         *)
IdsInv ==
  /\ log \in Seq(Nat) /\ issued \in Seq(Nat) /\ counter \in Nat /\ failed \in BOOLEAN
  /\ before \in Nat /\ before <= Len(issued)
  /\ counter = 0 => before = Len(issued)
  /\ \A i \in DOMAIN issued : i > before => issued[i] <= counter
  /\ ~failed => InOrder

(* A file that shows itself shows the last id as its highest.              *)
LEMMA HighestIsLast ==
  ASSUME IdsInv, ~failed, NEW view, ~Hidden(view)
  PROVE  Highest(view) = Len(log)
<1>1. /\ BufferLimit \in Nat \ {0} /\ view = LastOf(log, BufferLimit) /\ log \in Seq(Nat)
      /\ \A i \in DOMAIN log : log[i] = i
  BY EventLimits DEF Hidden, IdsInv, InOrder
<1>2. view \in Seq(Nat) /\ ToSet(view) \subseteq ToSet(log)
  BY <1>1, ReadsAre
<1>3. /\ Highest(view) \in Nat /\ \A e \in ToSet(view) : e <= Highest(view)
      /\ view # <<>> => Highest(view) \in ToSet(view)
  BY <1>2, HighestIs
<1>4. ToSet(log) = 1..Len(log)
  BY <1>1 DEF ToSet
<1>5. CASE Len(log) = 0
  <2>1. view = <<>>
    BY <1>1, <1>5 DEF LastOf
  <2> QED
    BY <1>5, <2>1 DEF Highest
<1>6. CASE Len(log) # 0
  <2> DEFINE m == Len(view)
  <2>0. /\ Len(LastOf(log, BufferLimit)) = IF Len(log) <= BufferLimit THEN Len(log) ELSE BufferLimit
        /\ \A i \in 1..Len(LastOf(log, BufferLimit)) :
             LastOf(log, BufferLimit)[i] = log[i + Len(log) - Len(LastOf(log, BufferLimit))]
    BY <1>1, LastOfEnds
  <2>1. m = (IF Len(log) <= BufferLimit THEN Len(log) ELSE BufferLimit)
        /\ \A i \in 1..m : view[i] = log[i + Len(log) - m]
    BY <1>1, <2>0
  <2>2. Len(log) \in Nat \ {0} /\ m \in 1..Len(log) /\ m \in 1..m
    BY <1>1, <1>6, <2>1
  <2>3. view[m] = Len(log) /\ view # <<>>
    <3>1. m + Len(log) - m = Len(log) /\ Len(log) \in DOMAIN log
      BY <1>1, <2>2
    <3> QED
      BY <1>1, <2>1, <2>2, <3>1
  <2>4. Len(log) \in ToSet(view)
    BY <1>2, <2>2, <2>3 DEF ToSet
  <2>5. Highest(view) \in 1..Len(log)
    BY <1>2, <1>3, <1>4, <2>3
  <2> QED
    BY <1>3, <2>2, <2>4, <2>5
<1> QED
  BY <1>5, <1>6

(* The next id is above every one of this process and, unless the file has *)
(* failed, above every one before.                                         *)
LEMMA NextIdIsNew ==
  ASSUME IdsInv, NEW view \in Reads
  PROVE  /\ NextId(view) \in Nat \ {0}
         /\ counter < NextId(view)
         /\ ~failed /\ (counter = 0 => ~Hidden(view)) => NextId(view) = Len(log) + 1
<1>1. Highest(view) \in Nat /\ counter \in Nat /\ Len(log) \in Nat
  BY ReadsAre, HighestIs DEF IdsInv
<1>2. ~failed /\ ~Hidden(view) => Highest(view) = Len(log)
  BY HighestIsLast
<1>3. ~failed => counter \in {0, Len(log)}
  BY DEF IdsInv, InOrder
<1> QED
  BY <1>1, <1>2, <1>3 DEF NextId

(* What an emit does.                                                      *)
LEMMA EmitIs ==
  ASSUME Emit
  PROVE  \E view \in Reads :
           /\ counter' = NextId(view) /\ issued' = Append(issued, NextId(view))
           /\ buffer' = LastOf(Append(buffer, NextId(view)), BufferLimit)
           /\ log' \in {log, Append(log, NextId(view)), Append(log, Torn)}
           /\ failed' \in BOOLEAN
           /\ ~failed' => /\ ~failed /\ (counter = 0 => ~Hidden(view))
                          /\ log' = Append(log, NextId(view))
           /\ stream' = [c \in Clients |-> Published(c, NextId(view))]
           /\ UNCHANGED <<lastId, before>>
<1>1. PICK view \in Reads :
        /\ counter' = NextId(view) /\ issued' = Append(issued, NextId(view))
        /\ buffer' = LastOf(Append(buffer, NextId(view)), BufferLimit)
        /\ log' \in Written(NextId(view))
        /\ failed' = (failed \/ (counter = 0 /\ Hidden(view)) \/ log' # Append(log, NextId(view)))
        /\ stream' = [c \in Clients |-> Published(c, NextId(view))]
  BY DEF Emit
<1>2. log' \in {log, Append(log, NextId(view)), Append(log, Torn)}
  BY <1>1 DEF Written
<1> QED
  BY <1>1, <1>2 DEF Emit

(* Every step keeps the ids in order.                                      *)
LEMMA IdsSteps ==
  ASSUME IdsInv, [EventNext]_eventVars
  PROVE  /\ IdsInv'
         /\ issued' # issued =>
              \A i \in DOMAIN issued : i > before \/ ~failed' => issued[i] < issued'[Len(issued')]
<1>1. CASE Emit
  <2>1. PICK view \in Reads :
          /\ counter' = NextId(view) /\ issued' = Append(issued, NextId(view))
          /\ log' \in {log, Append(log, NextId(view)), Append(log, Torn)}
          /\ failed' \in BOOLEAN
          /\ ~failed' => /\ ~failed /\ (counter = 0 => ~Hidden(view))
                         /\ log' = Append(log, NextId(view))
          /\ before' = before
    BY <1>1, EmitIs
  <2> DEFINE id == NextId(view)
  <2>2. id \in Nat \ {0} /\ counter < id /\ (~failed' => id = Len(log) + 1)
    BY <2>1, NextIdIsNew
  <2>a. /\ counter' = id /\ issued' = Append(issued, id) /\ before' = before
        /\ log' \in {log, Append(log, id), Append(log, Torn)}
        /\ failed' \in BOOLEAN /\ (~failed' => ~failed /\ log' = Append(log, id))
    BY <2>1
  <2> HIDE DEF id
  <2>3. /\ log \in Seq(Nat) /\ issued \in Seq(Nat) /\ counter \in Nat /\ before \in Nat
        /\ before <= Len(issued)
        /\ \A i \in DOMAIN issued : i > before => issued[i] <= counter
        /\ ~failed => (\A i \in DOMAIN log : log[i] = i) /\ issued = log
    BY DEF IdsInv, InOrder
  <2>4. /\ issued' \in Seq(Nat) /\ Len(issued') = Len(issued) + 1 /\ issued'[Len(issued')] = id
        /\ DOMAIN issued' = 1..(Len(issued) + 1) /\ DOMAIN issued = 1..Len(issued)
        /\ \A i \in DOMAIN issued : issued'[i] = issued[i] /\ issued[i] \in Nat
    BY <2>a, <2>2, <2>3
  <2>5. log' \in Seq(Nat) /\ (~failed' => Len(log') = Len(log) + 1
                                         /\ \A i \in DOMAIN log' : log'[i] = i)
    <3>1. Torn \in Nat
      BY DEF Torn
    <3>2. log' \in Seq(Nat)
      <4>1. log \in Seq(Nat) /\ Append(log, id) \in Seq(Nat) /\ Append(log, Torn) \in Seq(Nat)
        <5>1. log \in Seq(Nat) /\ id \in Nat
          BY <2>2, <2>3
        <5> QED
          BY <3>1, <5>1
      <4> QED
        BY <2>a, <4>1, Zenon
    <3>3. ASSUME ~failed' PROVE Len(log') = Len(log) + 1 /\ \A i \in DOMAIN log' : log'[i] = i
      <4>1. log' = Append(log, id) /\ id = Len(log) + 1 /\ \A i \in DOMAIN log : log[i] = i
        BY <2>a, <2>2, <2>3, <3>3
      <4> QED
        BY <2>2, <2>3, <4>1
    <3> QED
      BY <3>2, <3>3
  <2>6. \A i \in DOMAIN issued : i > before \/ ~failed' => issued[i] < id
    <3> SUFFICES ASSUME NEW i \in DOMAIN issued, i > before \/ ~failed' PROVE issued[i] < id
      OBVIOUS
    <3>0. issued[i] \in Nat /\ id \in Nat /\ counter \in Nat /\ counter < id
      BY <2>2, <2>3, <2>4
    <3>1. CASE i > before
      <4>1. issued[i] <= counter
        BY <2>3, <3>1
      <4> QED
        BY <3>0, <4>1
    <3>2. CASE ~failed'
      <4>1. id = Len(log) + 1 /\ issued = log /\ log[i] = i
        BY <2>a, <2>2, <2>3, <3>2
      <4>2. log \in Seq(Nat) /\ i \in 1..Len(log)
        BY <2>3, <2>4, <4>1
      <4> QED
        BY <3>0, <4>1, <4>2
    <3> QED
      BY <3>1, <3>2
  <2>7. \A i \in DOMAIN issued' : i > before' => issued'[i] <= counter'
    <3> SUFFICES ASSUME NEW i \in DOMAIN issued', i > before PROVE issued'[i] <= id
      BY <2>a
    <3>1. CASE i \in DOMAIN issued
      <4>1. issued'[i] = issued[i] /\ issued[i] \in Nat /\ issued[i] <= counter
        BY <2>3, <2>4, <3>1
      <4> QED
        BY <2>2, <2>3, <4>1
    <3>2. CASE i = Len(issued')
      BY <2>2, <2>4, <3>2
    <3>3. i \in DOMAIN issued \/ i = Len(issued')
      <4>1. Len(issued) \in Nat
        BY <2>3
      <4> QED
        BY <2>4, <4>1
    <3> QED
      BY <3>1, <3>2, <3>3
  <2>8. ~failed' => InOrder'
    <3> SUFFICES ASSUME ~failed' PROVE InOrder'
      OBVIOUS
    <3>1. issued' = log' /\ counter' = Len(log')
      BY <2>a, <2>2, <2>3, <2>5
    <3> QED
      BY <2>5, <3>1 DEF InOrder
  <2>9. counter' = id /\ id # 0 /\ id \in Nat /\ before' <= Len(issued')
    <3>1. Len(issued) \in Nat
      BY <2>3
    <3>2. before' = before /\ before \in Nat /\ before <= Len(issued)
      BY <2>a, <2>3
    <3>3. Len(issued') = Len(issued) + 1
      BY <2>4
    <3> QED
      BY <2>a, <2>2, <3>1, <3>2, <3>3
  <2> QED
    BY <2>a, <2>3, <2>4, <2>5, <2>6, <2>7, <2>8, <2>9 DEF IdsInv
<1>2. CASE UNCHANGED <<log, issued, failed, counter, before>>
  BY <1>2 DEF IdsInv, InOrder
<1>3. ASSUME UNCHANGED <<log, issued, before>>, NEW view \in Reads, Load(view) PROVE IdsInv'
  <2> DEFINE h == Highest(view)
  <2>1. counter \in Nat /\ h \in Nat /\ counter' = Max({counter, h})
        /\ failed' = (failed \/ Hidden(view))
    BY <1>3, ReadsAre, HighestIs DEF Load, IdsInv
  <2>2. ~failed' => h = Len(log) /\ ~failed
    BY <2>1, HighestIsLast
  <2> HIDE DEF h
  <2>3. counter' \in Nat /\ counter' >= counter /\ counter' >= h /\ counter' \in {counter, h}
    BY <2>1, HigherOf
  <2>4. failed' \in BOOLEAN
    BY <2>1 DEF IdsInv
  <2>5. \A i \in DOMAIN issued : issued[i] \in Nat
    BY DEF IdsInv
  <2>6. \A i \in DOMAIN issued' : i > before' => issued'[i] <= counter'
    BY <1>3, <2>1, <2>3, <2>5 DEF IdsInv
  <2>7. counter' = 0 => before' = Len(issued')
    BY <1>3, <2>1, <2>3 DEF IdsInv
  <2>8. ~failed' => InOrder'
    BY <1>3, <2>2, <2>3 DEF IdsInv, InOrder
  <2> QED
    BY <1>3, <2>3, <2>4, <2>6, <2>7, <2>8 DEF IdsInv
<1>4. CASE Poll
  BY <1>3, <1>4 DEF Poll
<1>5. ASSUME NEW c \in Clients, Connect(c) PROVE IdsInv' /\ UNCHANGED issued
  BY <1>2, <1>3, <1>5 DEF Connect
<1>6. ASSUME NEW c \in Clients, Send(c) \/ Disconnect(c) PROVE IdsInv' /\ UNCHANGED issued
  BY <1>2, <1>6 DEF Send, Disconnect, history
<1>7. CASE EventRestart
  <2>1. counter' = 0 /\ before' = Len(issued) /\ UNCHANGED <<log, issued, failed>>
    BY <1>7 DEF EventRestart
  <2> QED
    BY <2>1 DEF IdsInv, InOrder
<1>8. CASE UNCHANGED eventVars
  BY <1>2, <1>8 DEF eventVars, history
<1> QED
  BY <1>1, <1>4, <1>5, <1>6, <1>7, <1>8 DEF EventNext, Poll, EventRestart, eventVars, history

(* The ids begin in order.                                                 *)
LEMMA IdsInit == EventInit => IdsInv
<1> SUFFICES ASSUME EventInit PROVE IdsInv
  OBVIOUS
<1>1. log = <<>> /\ issued = <<>> /\ counter = 0 /\ before = 0 /\ failed = FALSE
  BY DEF EventInit
<1>2. /\ log \in Seq(Nat) /\ issued \in Seq(Nat) /\ counter \in Nat /\ before \in Nat
      /\ failed \in BOOLEAN /\ before <= Len(issued) /\ before = Len(issued)
      /\ counter \in {0, Len(log)} /\ issued = log
      /\ (\A i \in DOMAIN log : FALSE) /\ (\A i \in DOMAIN issued : FALSE)
  <2>1. <<>> \in Seq(Nat) /\ Len(<<>>) = 0
    OBVIOUS
  <2>2. DOMAIN log = {} /\ DOMAIN issued = {}
    BY <1>1
  <2>3. /\ log \in Seq(Nat) /\ issued \in Seq(Nat) /\ failed \in BOOLEAN /\ issued = log
        /\ (\A i \in DOMAIN log : FALSE) /\ (\A i \in DOMAIN issued : FALSE)
    BY <1>1, <2>1, <2>2, Zenon
  <2>4. /\ counter \in Nat /\ before \in Nat /\ before <= Len(issued) /\ before = Len(issued)
        /\ counter \in {0, Len(log)}
    BY <1>1, <2>1
  <2> QED
    BY <2>3, <2>4
<1> QED
  BY <1>1, <1>2, Zenon DEF IdsInv, InOrder

(* No id is given twice in a process, whatever fails, with a buffer that   *)
(* forgets; nor over a restart, unless a write was lost or the file did not*)
(* show itself (packages/workflow_events.py, emit).                        *)
THEOREM IdsAreNew == EventSpec => IdsNeverReused
<1>1. EventInit => IdsInv
  BY IdsInit
<1>2. IdsInv /\ [EventNext]_eventVars => IdsInv'
  BY IdsSteps
<1>3. IdsInv /\ [EventNext]_eventVars
      => [issued' # issued =>
            \A i \in DOMAIN issued : i > before \/ ~failed' =>
              issued[i] < issued'[Len(issued')]]_eventVars
  BY IdsSteps
<1> QED
  BY <1>1, <1>2, <1>3, PTL DEF EventSpec, IdsNeverReused

-----------------------------------------------------------------------------
(* What a stream owes                                                      *)

Streams == [state : {"closed", "open", "hung"}, queue : Seq(Nat), backlog : Seq(Nat),
            owed : SUBSET Nat, got : SUBSET Nat, dropped : SUBSET Nat, behind : BOOLEAN]

(* What is on its way to the client.                                       *)
Waiting(s) == ToSet(s.backlog) \union ToSet(s.queue)

(* The client has, or will get, what it is owed.                           *)
Served(s) == s.owed \ s.dropped \subseteq s.got \union Waiting(s)

(* A client asks from an id it got.                                        *)
Sound(s, last) == (s.state = "open" => Served(s)) /\ (last = 0 \/ last \in s.got)

(* Without a fault, of a file of n events whose last are visible, unless   *)
(* the client was cut off behind: the connection owes all that is visible; *)
(* one that is away has what is visible up to the id it will ask from.     *)
Whole(s, last, n, visible) ==
  /\ last <= n
  /\ s.state = "open" => Waiting(s) \subseteq 1..n
  /\ ~s.behind /\ s.state = "open" => visible \subseteq s.owed
  /\ ~s.behind /\ s.state # "open" => \A e \in visible : e <= last => e \in s.got \union s.dropped

Shown == ToSet(LastOf(log, BufferLimit))

StreamInv ==
  /\ buffer \in Seq(Nat) /\ lastId \in [Clients -> Nat]
  /\ stream \in [Clients -> Streams]
  /\ \A c \in Clients : Sound(stream[c], lastId[c])
  /\ ~failed => /\ ToSet(buffer) \subseteq 1..Len(log)
                /\ \A c \in Clients : Whole(stream[c], lastId[c], Len(log), Shown)

(* Sequences as the bags of their members.                                 *)
LEMMA Members ==
  ASSUME NEW s \in Seq(Nat)
  PROVE  /\ ToSet(s) \subseteq Nat
         /\ \A e \in Nat : Append(s, e) \in Seq(Nat) /\ ToSet(Append(s, e)) = ToSet(s) \union {e}
         /\ s # <<>> => /\ Head(s) \in Nat /\ Tail(s) \in Seq(Nat)
                        /\ ToSet(s) = {Head(s)} \union ToSet(Tail(s))
         /\ \A t \in Seq(Nat) : s \o t \in Seq(Nat) /\ ToSet(s \o t) = ToSet(s) \union ToSet(t)
<1>1. ToSet(s) \subseteq Nat
  BY DEF ToSet
<1>2. ASSUME NEW e \in Nat
      PROVE  Append(s, e) \in Seq(Nat) /\ ToSet(Append(s, e)) = ToSet(s) \union {e}
  <2> DEFINE t == Append(s, e)
  <2>1. t \in Seq(Nat) /\ Len(t) = Len(s) + 1 /\ t[Len(s) + 1] = e /\ \A i \in 1..Len(s) : t[i] = s[i]
    OBVIOUS
  <2>2. DOMAIN t = DOMAIN s \union {Len(s) + 1} /\ DOMAIN s = 1..Len(s)
    BY <2>1
  <2> HIDE DEF t
  <2>3. ToSet(t) = ToSet(s) \union {e}
    BY <2>1, <2>2 DEF ToSet
  <2> QED
    BY <2>1, <2>3 DEF t
<1>3. ASSUME s # <<>>
      PROVE  Head(s) \in Nat /\ Tail(s) \in Seq(Nat) /\ ToSet(s) = {Head(s)} \union ToSet(Tail(s))
  <2> DEFINE t == Tail(s)
  <2>1. Head(s) = s[1] /\ Head(s) \in Nat /\ t \in Seq(Nat) /\ Len(t) = Len(s) - 1
        /\ \A i \in 1..Len(t) : t[i] = s[i + 1]
    BY <1>3
  <2>2. Len(s) \in Nat \ {0} /\ DOMAIN t = 1..(Len(s) - 1) /\ DOMAIN s = 1..Len(s)
    BY <1>3, <2>1
  <2>3. \A i \in DOMAIN s : i = 1 \/ (i - 1 \in DOMAIN t /\ t[i - 1] = s[i])
    BY <2>1, <2>2
  <2>4. 1 \in DOMAIN s /\ \A i \in DOMAIN t : i + 1 \in DOMAIN s /\ t[i] = s[i + 1]
    BY <2>1, <2>2
  <2> HIDE DEF t
  <2>5. ToSet(s) \subseteq {Head(s)} \union ToSet(t)
    BY <2>1, <2>3 DEF ToSet
  <2>6. {Head(s)} \union ToSet(t) \subseteq ToSet(s)
    BY <2>1, <2>4 DEF ToSet
  <2> QED
    BY <2>1, <2>5, <2>6 DEF t
<1>4. ASSUME NEW t \in Seq(Nat)
      PROVE  s \o t \in Seq(Nat) /\ ToSet(s \o t) = ToSet(s) \union ToSet(t)
  <2> DEFINE u == s \o t
  <2>1. /\ u \in Seq(Nat) /\ Len(u) = Len(s) + Len(t) /\ Len(s) \in Nat /\ Len(t) \in Nat
        /\ \A i \in 1..Len(u) : u[i] = IF i <= Len(s) THEN s[i] ELSE t[i - Len(s)]
    OBVIOUS
  <2>2. DOMAIN u = 1..(Len(s) + Len(t)) /\ DOMAIN s = 1..Len(s) /\ DOMAIN t = 1..Len(t)
    BY <2>1
  <2> HIDE DEF u
  <2>3. \A i \in DOMAIN u : (i \in DOMAIN s /\ u[i] = s[i])
                            \/ (i - Len(s) \in DOMAIN t /\ u[i] = t[i - Len(s)])
    BY <2>1, <2>2
  <2>4. \A i \in DOMAIN s : i \in DOMAIN u /\ u[i] = s[i]
    BY <2>1, <2>2
  <2>5. ASSUME NEW i \in DOMAIN t PROVE i + Len(s) \in DOMAIN u /\ u[i + Len(s)] = t[i]
    <3>1. /\ i + Len(s) \in 1..Len(u) /\ ~(i + Len(s) <= Len(s)) /\ (i + Len(s)) - Len(s) = i
      BY <2>1, <2>2
    <3> QED
      BY <2>1, <2>2, <3>1
  <2>6. ToSet(u) = ToSet(s) \union ToSet(t)
    BY <2>3, <2>4, <2>5 DEF ToSet
  <2> QED
    BY <2>1, <2>6 DEF u
<1> QED
  BY <1>1, <1>2, <1>3, <1>4

(* A sequence of numbers is one of its own members.                        *)
LEMMA OwnMembers ==
  ASSUME NEW s \in Seq(Nat)
  PROVE  s \in Seq(ToSet(s)) /\ \A T : s \in Seq(T) => ToSet(s) \subseteq T
<1>1. \A i \in 1..Len(s) : s[i] \in ToSet(s)
  BY DEF ToSet
<1>2. \A T : s \in Seq(T) => ToSet(s) \subseteq T
  BY DEF ToSet
<1> QED
  BY <1>1, <1>2

LEMMA LaterKeeps ==
  ASSUME NEW s \in Seq(Nat), NEW id \in Nat
  PROVE  /\ Later(s, id) \in Seq(Nat) /\ \A e \in ToSet(s) : e > id => e \in ToSet(Later(s, id))
         /\ ToSet(Later(s, id)) \subseteq ToSet(s)
<1> DEFINE S == {e \in ToSet(s) : e > id}
<1>1. \A e \in ToSet(s) : e > id => e \in S
  OBVIOUS
<1> HIDE DEF S
<1>2. Only(s, S) \in Seq(Nat) /\ \A e \in ToSet(s) : e \in S => e \in ToSet(Only(s, S))
  BY OnlyKeeps
<1>3. Only(s, S) \in Seq(ToSet(s))
  BY OwnMembers, OnlyKeeps
<1>4. ToSet(Only(s, S)) \subseteq ToSet(s)
  BY <1>2, <1>3, OwnMembers
<1> QED
  BY <1>1, <1>2, <1>4 DEF Later, S

(* What the file shows is in the buffer or in what is made of both.        *)
LEMMA MergedHolds ==
  ASSUME buffer \in Seq(Nat), NEW view \in Seq(Nat), Len(view) <= BufferLimit
  PROVE  /\ Merged(view) \in Seq(Nat)
         /\ ToSet(Merged(view)) \subseteq ToSet(buffer) \union ToSet(view)
         /\ \A e \in ToSet(view) : e \in ToSet(buffer) \/ e \in ToSet(Merged(view))
<1>1. BufferLimit \in Nat \ {0}
  BY EventLimits
<1>3. CASE buffer = <<>>
  BY <1>3 DEF Merged
<1>4. CASE buffer # <<>>
  <2> DEFINE t == Only(view, ToSet(view) \ ToSet(buffer))
             u == buffer \o t
             v == LastOf(u, BufferLimit)
  <2>1. t \in Seq(Nat) /\ Len(t) <= Len(view)
        /\ \A e \in ToSet(view) : e \in ToSet(buffer) \/ e \in ToSet(t)
    BY OnlyKeeps
  <2>2. Merged(view) = v
    BY <1>4 DEF Merged
  <2>a. t \in Seq(ToSet(view))
    BY OwnMembers, OnlyKeeps
  <2>b. ToSet(t) \subseteq ToSet(view)
    BY <2>1, <2>a, OwnMembers
  <2> HIDE DEF t
  <2>3. u \in Seq(Nat) /\ Len(u) = Len(buffer) + Len(t)
        /\ \A i \in 1..Len(t) : u[Len(buffer) + i] = t[i]
    BY <2>1
  <2>c. ToSet(u) = ToSet(buffer) \union ToSet(t)
    BY <2>1, Members
  <2> HIDE DEF u
  <2>4. /\ v \in Seq(Nat) /\ \A i \in 1..Len(v) : v[i] = u[i + Len(u) - Len(v)]
        /\ Len(v) = IF Len(u) <= BufferLimit THEN Len(u) ELSE BufferLimit
    BY <1>1, <2>3, LastOfEnds
  <2>d. v \in Seq(ToSet(u))
    BY <1>1, <2>3, OwnMembers, LastOfEnds
  <2> HIDE DEF v
  <2>e. ToSet(v) \subseteq ToSet(u)
    BY <2>4, <2>d, OwnMembers
  <2>5. ASSUME NEW i \in 1..Len(t) PROVE t[i] \in ToSet(v)
    <3> DEFINE k == Len(v) - Len(t) + i
    <3>0. Len(t) \in Nat /\ Len(v) \in Nat /\ Len(buffer) \in Nat /\ Len(view) \in Nat
      <4>1. \A s \in Seq(Nat) : Len(s) \in Nat
        OBVIOUS
      <4>2. t \in Seq(Nat) /\ v \in Seq(Nat) /\ buffer \in Seq(Nat) /\ view \in Seq(Nat)
        BY <2>1, <2>3, <2>4
      <4> QED
        BY <4>1, <4>2, Zenon
    <3>1. Len(t) <= BufferLimit
      BY <1>1, <2>1, <3>0
    <3>2. Len(t) <= Len(v) /\ i \in Nat /\ i >= 1 /\ i <= Len(t)
      BY <1>1, <2>3, <2>4, <3>0, <3>1
    <3>3. k \in 1..Len(v) /\ k + Len(u) - Len(v) = Len(buffer) + i
      BY <2>3, <3>0, <3>2
    <3>4. v[k] = t[i]
      BY <2>3, <2>4, <3>3
    <3>5. DOMAIN v = 1..Len(v)
      BY <2>4
    <3> HIDE DEF k
    <3> QED
      BY <3>3, <3>4, <3>5 DEF ToSet
  <2>6. \A e \in ToSet(t) : e \in ToSet(v)
    BY <2>1, <2>5 DEF ToSet
  <2> QED
    BY <2>1, <2>2, <2>4, <2>6, <2>b, <2>c, <2>e
<1> QED
  BY <1>3, <1>4

(* What a load leaves in memory.                                           *)
LEMMA LoadKeeps ==
  ASSUME IdsInv, StreamInv, NEW view \in Reads, Load(view), log' = log
  PROVE  /\ buffer' \in Seq(Nat) /\ failed' \in BOOLEAN
         /\ ~failed' => /\ ~failed /\ ToSet(buffer') \subseteq 1..Len(log')
                        /\ ToSet(view) = Shown
<1>1. /\ log \in Seq(Nat) /\ buffer \in Seq(Nat) /\ view \in Seq(Nat) /\ Len(view) <= BufferLimit
      /\ ToSet(view) \subseteq ToSet(log)
  BY ReadsAre DEF IdsInv, StreamInv
<1>2. buffer' = Merged(view) /\ failed' = (failed \/ Hidden(view))
  BY DEF Load
<1>3. buffer' \in Seq(Nat) /\ ToSet(buffer') \subseteq ToSet(buffer) \union ToSet(view)
  BY <1>1, <1>2, MergedHolds
<1>4. ASSUME ~failed' PROVE ~failed /\ ToSet(buffer') \subseteq 1..Len(log) /\ ToSet(view) = Shown
  <2>1. ~failed /\ view = LastOf(log, BufferLimit)
    BY <1>2, <1>4 DEF Hidden
  <2>2. ToSet(log) \subseteq 1..Len(log)
    BY <1>1, <2>1 DEF IdsInv, InOrder, ToSet
  <2>3. ToSet(buffer) \subseteq 1..Len(log)
    BY <2>1 DEF StreamInv
  <2> QED
    BY <1>1, <1>3, <2>1, <2>2, <2>3 DEF Shown
<1>5. failed' \in BOOLEAN
  BY <1>2 DEF IdsInv
<1> QED
  BY <1>3, <1>4, <1>5

(* Without a fault the file shows events only.                             *)
LEMMA ShownAre ==
  ASSUME IdsInv
  PROVE  Shown \subseteq Nat /\ (~failed => Shown \subseteq 1..Len(log))
<1>1. log \in Seq(Nat) /\ Shown \subseteq ToSet(log)
  BY ReadsAre DEF IdsInv, Shown
<1>2. ToSet(log) \subseteq Nat
  BY <1>1 DEF ToSet
<1>3. ~failed => ToSet(log) \subseteq 1..Len(log)
  BY <1>1 DEF IdsInv, InOrder, ToSet
<1> QED
  BY <1>1, <1>2, <1>3

(* One stream moves.                                                       *)
LEMMA StreamMoves ==
  ASSUME StreamInv, log' = log, buffer' \in Seq(Nat),
         NEW c \in Clients, NEW t \in Streams, NEW id \in Nat,
         stream' = [stream EXCEPT ![c] = t], lastId' = [lastId EXCEPT ![c] = id],
         Sound(t, id),
         ~failed' => /\ ~failed /\ ToSet(buffer') \subseteq 1..Len(log)
                     /\ Whole(t, id, Len(log), Shown)
  PROVE  StreamInv'
<1>1. \A d \in Clients : /\ stream'[d] = IF d = c THEN t ELSE stream[d]
                         /\ lastId'[d] = IF d = c THEN id ELSE lastId[d]
  BY DEF StreamInv
<1>2. stream' \in [Clients -> Streams] /\ lastId' \in [Clients -> Nat]
  BY DEF StreamInv
<1>3. Shown' = Shown
  BY DEF Shown
<1>4. \A d \in Clients : Sound(stream'[d], lastId'[d])
  BY <1>1 DEF StreamInv
<1>5. ASSUME ~failed', NEW d \in Clients PROVE Whole(stream'[d], lastId'[d], Len(log'), Shown')
  BY <1>1, <1>3, <1>5 DEF StreamInv
<1> QED
  BY <1>2, <1>4, <1>5 DEF StreamInv

(* What is left of a connection.                                           *)
LEMMA CutOffKeeps ==
  ASSUME IdsInv, StreamInv, NEW c \in Clients
  PROVE  /\ CutOff(c) \in Streams /\ Sound(CutOff(c), lastId[c])
         /\ ~failed => Whole(CutOff(c), lastId[c], Len(log), Shown)
<1> DEFINE s == stream[c]
           behind == s.behind \/ (s.state = "open" /\ \E e \in Waiting(s) \ s.got : e < lastId[c])
           t == CutOff(c)
<1>1. s \in Streams /\ Sound(s, lastId[c]) /\ lastId[c] \in Nat
  BY DEF StreamInv
<1>2. t = [Closed EXCEPT !.got = s.got, !.dropped = s.dropped, !.behind = behind]
  BY DEF CutOff, Waiting
<1>b. behind \in BOOLEAN
  BY <1>1 DEF Streams
<1> HIDE DEF behind, s
<1>3. Closed \in Streams /\ Closed.state = "closed"
  BY DEF Closed, Streams
<1>4. /\ t \in Streams /\ t.state = "closed" /\ t.got = s.got /\ t.dropped = s.dropped
      /\ t.behind = behind
  BY <1>1, <1>2, <1>3, <1>b DEF Streams
<1> HIDE DEF t
<1>5. Sound(t, lastId[c])
  BY <1>1, <1>4 DEF Sound
<1>6. ASSUME ~failed PROVE Whole(t, lastId[c], Len(log), Shown)
  <2>1. Whole(s, lastId[c], Len(log), Shown)
    BY <1>6 DEF StreamInv, s
  <2>2. ASSUME ~behind, NEW e \in Shown, e <= lastId[c] PROVE e \in s.got \union s.dropped
    <3>1. ~s.behind /\ (s.state = "open" => \A f \in Waiting(s) \ s.got : ~(f < lastId[c]))
      BY <2>2 DEF behind
    <3>2. CASE s.state # "open"
      BY <2>1, <2>2, <3>1, <3>2 DEF Whole
    <3>3. CASE s.state = "open"
      <4>1. e \in s.owed /\ Served(s)
        BY <1>1, <2>1, <3>1, <3>3 DEF Whole, Sound
      <4>2. CASE e \in Waiting(s) \ s.got
        <5>1. e \in Nat \ {0} /\ ~(e < lastId[c])
          BY <1>6, <3>1, <3>3, <4>2, ShownAre
        <5>2. e = lastId[c] /\ lastId[c] # 0
          BY <1>1, <2>2, <5>1
        <5> QED
          BY <1>1, <5>2 DEF Sound
      <4> QED
        BY <4>1, <4>2 DEF Served
    <3> QED
      BY <3>2, <3>3
  <2> QED
    BY <1>4, <2>1, <2>2 DEF Whole
<1> QED
  BY <1>4, <1>5, <1>6 DEF t

(* A client that connects is owed what the file shows, and has it or finds *)
(* it in the backlog or in the queue.                                      *)
LEMMA ConnectServes ==
  ASSUME IdsInv, StreamInv, NEW c \in Clients, Connect(c)
  PROVE  StreamInv'
<1> DEFINE s == stream[c]
           since == lastId[c]
           replay == Later(buffer, since)
<1>1. /\ s \in Streams /\ since \in Nat /\ buffer \in Seq(Nat) /\ Sound(s, since)
      /\ stream \in [Clients -> Streams] /\ lastId \in [Clients -> Nat] /\ log \in Seq(Nat)
  BY DEF StreamInv, IdsInv
<1>2. s.state = "closed" /\ log' = log /\ lastId' = [lastId EXCEPT ![c] = since]
  BY <1>1 DEF Connect
<1>3. replay \in Seq(Nat) /\ ToSet(replay) \subseteq ToSet(buffer)
      /\ \A e \in ToSet(buffer) : e > since => e \in ToSet(replay)
  BY <1>1, LaterKeeps
<1>4. ~failed => Whole(s, since, Len(log), Shown) /\ ToSet(buffer) \subseteq 1..Len(log)
  BY DEF StreamInv
<1> HIDE DEF replay
<1>5. CASE \E view \in Reads :
             /\ Load(view)
             /\ stream' = [stream EXCEPT ![c] =
                  [s EXCEPT !.state = "open", !.queue = replay,
                            !.backlog = Later(Merged(view), since), !.owed = Owed(c, view)]]
  <2>1. PICK view \in Reads :
             /\ Load(view)
             /\ stream' = [stream EXCEPT ![c] =
                  [s EXCEPT !.state = "open", !.queue = replay,
                            !.backlog = Later(Merged(view), since), !.owed = Owed(c, view)]]
    BY <1>5
  <2> DEFINE backlog == Later(Merged(view), since)
             owed == Owed(c, view)
             t == [s EXCEPT !.state = "open", !.queue = replay, !.backlog = backlog, !.owed = owed]
  <2>2. view \in Seq(Nat) /\ Len(view) <= BufferLimit
    BY <1>1, <2>1, ReadsAre
  <2>3. /\ Merged(view) \in Seq(Nat)
        /\ ToSet(Merged(view)) \subseteq ToSet(buffer) \union ToSet(view)
        /\ \A e \in ToSet(view) : e \in ToSet(buffer) \/ e \in ToSet(Merged(view))
    BY <1>1, <2>2, MergedHolds
  <2>4. /\ backlog \in Seq(Nat) /\ ToSet(backlog) \subseteq ToSet(buffer) \union ToSet(view)
        /\ \A e \in ToSet(view) : e > since => e \in ToSet(backlog) \union ToSet(replay)
    BY <1>1, <1>3, <2>3, LaterKeeps
  <2>5. /\ buffer' \in Seq(Nat) /\ failed' \in BOOLEAN
        /\ ~failed' => /\ ~failed /\ ToSet(buffer') \subseteq 1..Len(log)
                       /\ ToSet(view) = Shown
    BY <1>2, <2>1, LoadKeeps
  <2>6. ToSet(view) \subseteq Nat
    BY <2>2, Members
  <2>7. owed = IF failed' \/ s.behind THEN {e \in ToSet(view) : e > since} ELSE ToSet(view)
    BY DEF Owed
  <2>8. owed \in SUBSET Nat
    BY <2>6, <2>7
  <2> HIDE DEF owed, backlog
  <2>9. /\ t \in Streams /\ t.state = "open" /\ t.queue = replay /\ t.backlog = backlog
        /\ t.owed = owed /\ t.got = s.got /\ t.dropped = s.dropped /\ t.behind = s.behind
    BY <1>1, <1>3, <2>4, <2>8 DEF Streams
  <2>10. stream' = [stream EXCEPT ![c] = t]
    BY <2>1 DEF owed, backlog
  <2> HIDE DEF t, s
  <2>11. \A e \in owed : e \in s.got \union s.dropped \union ToSet(backlog) \union ToSet(replay)
    <3> SUFFICES ASSUME NEW e \in owed
                 PROVE  e \in s.got \union s.dropped \union ToSet(backlog) \union ToSet(replay)
      OBVIOUS
    <3>1. e \in ToSet(view) /\ e \in Nat
      BY <2>6, <2>7
    <3>2. CASE e > since
      BY <2>4, <3>1, <3>2
    <3>3. CASE ~(e > since)
      <4>1. ~failed' /\ ~s.behind
        BY <2>7, <3>3
      <4>2. e \in Shown /\ e <= since
        BY <1>1, <2>5, <3>1, <3>3, <4>1
      <4> QED
        BY <1>2, <1>4, <2>5, <4>1, <4>2 DEF Whole
    <3> QED
      BY <3>2, <3>3
  <2>12. Sound(t, since)
    BY <1>1, <2>9, <2>11 DEF Sound, Served, Waiting
  <2>13. ASSUME ~failed' PROVE Whole(t, since, Len(log), Shown)
    <3>1. since <= Len(log) /\ ToSet(buffer) \subseteq 1..Len(log) /\ ToSet(view) = Shown
          /\ Shown \subseteq 1..Len(log)
      BY <1>4, <2>5, <2>13, ShownAre DEF Whole
    <3>2. Waiting(t) \subseteq 1..Len(log)
      BY <1>3, <2>4, <2>9, <3>1 DEF Waiting
    <3>3. ~s.behind => owed = Shown
      BY <2>7, <2>13, <3>1
    <3> QED
      BY <2>9, <3>1, <3>2, <3>3 DEF Whole
  <2> QED
    BY <1>1, <1>2, <2>5, <2>9, <2>10, <2>12, <2>13, StreamMoves
<1>6. CASE /\ stream' = [stream EXCEPT ![c] =
                [s EXCEPT !.state = "hung", !.queue = SubSeq(replay, 1, QueueLimit)]]
           /\ UNCHANGED <<buffer, counter, failed>> /\ Len(replay) > QueueLimit
  <2> DEFINE first == SubSeq(replay, 1, QueueLimit)
             t == [s EXCEPT !.state = "hung", !.queue = first]
  <2>1. first \in Seq(Nat)
    BY <1>3, <1>6, EventLimits
  <2>2. stream' = [stream EXCEPT ![c] = t]
    BY <1>6
  <2> HIDE DEF first
  <2>3. /\ t \in Streams /\ t.state = "hung" /\ t.got = s.got /\ t.dropped = s.dropped
        /\ t.behind = s.behind
    BY <1>1, <2>1 DEF Streams
  <2> HIDE DEF t, s
  <2>4. Sound(t, since) /\ (~failed => Whole(t, since, Len(log), Shown))
    BY <1>1, <1>2, <1>4, <2>3 DEF Sound, Whole
  <2> QED
    BY <1>1, <1>2, <1>4, <1>6, <2>2, <2>3, <2>4, StreamMoves
<1> QED
  BY <1>5, <1>6 DEF Connect, replay

(* A stream after a new event: in its queue, or dropped by one that is     *)
(* full, or not for it.                                                    *)
LEMMA PublishedIs ==
  ASSUME StreamInv, NEW c \in Clients, NEW id \in Nat,
         NEW s, NEW t, s = stream[c], t = Published(c, id)
  PROVE  /\ t \in Streams /\ t.state = s.state /\ t.got = s.got /\ t.behind = s.behind
         /\ s.owed \subseteq t.owed /\ (s.state = "open" => id \in t.owed)
         /\ s.dropped \subseteq t.dropped
         /\ Waiting(s) \subseteq Waiting(t) /\ Waiting(t) \subseteq Waiting(s) \union {id}
         /\ t.owed \ t.dropped \subseteq s.owed \union (Waiting(t) \intersect {id})
<1> DEFINE queue == Append(s.queue, id)
           owed == s.owed \union {id}
           dropped == s.dropped \union {id}
<1>1. s \in Streams
  BY DEF StreamInv
<1>2. queue \in Seq(Nat) /\ ToSet(queue) = ToSet(s.queue) \union {id}
  BY <1>1, Members DEF Streams
<1>3. owed \in SUBSET Nat /\ dropped \in SUBSET Nat /\ owed = s.owed \union {id}
      /\ dropped = s.dropped \union {id}
  BY <1>1 DEF Streams
<1>4. \/ t = s /\ s.state # "open"
      \/ t = [s EXCEPT !.owed = owed, !.queue = queue]
      \/ t = [s EXCEPT !.owed = owed, !.dropped = dropped]
  BY DEF Published, Registered
<1> HIDE DEF queue, owed, dropped
<1>5. CASE t = s /\ s.state # "open"
  <2>1. s.owed \ s.dropped \subseteq s.owed
    OBVIOUS
  <2> QED
    BY <1>1, <1>5, <2>1
<1>6. CASE t = [s EXCEPT !.owed = owed, !.queue = queue]
  <2>1. /\ t \in Streams /\ t.state = s.state /\ t.owed = owed /\ t.queue = queue
        /\ t.dropped = s.dropped /\ t.got = s.got /\ t.backlog = s.backlog /\ t.behind = s.behind
    BY <1>1, <1>2, <1>3, <1>6 DEF Streams
  <2>2. Waiting(t) = Waiting(s) \union {id}
    BY <1>2, <2>1 DEF Waiting
  <2> QED
    BY <1>3, <2>1, <2>2
<1>7. CASE t = [s EXCEPT !.owed = owed, !.dropped = dropped]
  <2>1. /\ t \in Streams /\ t.state = s.state /\ t.owed = owed /\ t.queue = s.queue
        /\ t.dropped = dropped /\ t.got = s.got /\ t.backlog = s.backlog /\ t.behind = s.behind
    BY <1>1, <1>3, <1>7 DEF Streams
  <2>2. Waiting(t) = Waiting(s)
    BY <2>1 DEF Waiting
  <2> QED
    BY <1>3, <2>1, <2>2
<1> QED
  BY <1>4, <1>5, <1>6, <1>7

(* One more line: what the file shows is what it showed, and the line.     *)
LEMMA ShownGrows ==
  ASSUME log \in Seq(Nat), NEW id \in Nat, log' = Append(log, id)
  PROVE  Shown' \subseteq Shown \union {id}
<1> DEFINE n == BufferLimit
           l == LastOf(log, n)
           m == LastOf(log', n)
<1>1. n \in Nat \ {0} /\ log' \in Seq(Nat) /\ Len(log') = Len(log) + 1 /\ Len(log) \in Nat
      /\ log'[Len(log')] = id /\ \A i \in 1..Len(log) : log'[i] = log[i]
  BY EventLimits
<1>2. /\ l \in Seq(Nat) /\ Len(l) = IF Len(log) <= n THEN Len(log) ELSE n
      /\ \A i \in 1..Len(l) : l[i] = log[i + Len(log) - Len(l)]
  BY <1>1, LastOfEnds
<1>3. /\ m \in Seq(Nat) /\ Len(m) = IF Len(log') <= n THEN Len(log') ELSE n
      /\ \A i \in 1..Len(m) : m[i] = log'[i + Len(log') - Len(m)]
  <2> DEFINE longer == log'
  <2>1. longer \in Seq(Nat) /\ n \in Nat \ {0}
    BY <1>1
  <2> HIDE DEF longer, n
  <2>2. /\ LastOf(longer, n) \in Seq(Nat)
        /\ Len(LastOf(longer, n)) = IF Len(longer) <= n THEN Len(longer) ELSE n
        /\ \A i \in 1..Len(LastOf(longer, n)) :
             LastOf(longer, n)[i] = longer[i + Len(longer) - Len(LastOf(longer, n))]
    BY <2>1, LastOfEnds
  <2> QED
    BY <2>2 DEF longer
<1> HIDE DEF l, m, n
<1>4. ASSUME NEW i \in 1..Len(m) PROVE m[i] \in ToSet(l) \union {id}
  <2> DEFINE j == i + Len(log') - Len(m)
             k == j + Len(l) - Len(log)
  <2>0. Len(m) \in Nat /\ Len(l) \in Nat /\ Len(log') \in Nat /\ i \in Nat /\ 1 <= i /\ i <= Len(m)
        /\ Len(log) \in Nat /\ n \in Nat /\ Len(log') = Len(log) + 1
    BY <1>1, <1>2, <1>3
  <2>a. m[i] = log'[j]
    BY <1>3
  <2>b. Len(m) = IF Len(log') <= n THEN Len(log') ELSE n
    BY <1>3
  <2>c. Len(l) = IF Len(log) <= n THEN Len(log) ELSE n
    BY <1>2
  <2>1. j \in 1..Len(log') /\ m[i] = log'[j]
    BY <2>0, <2>a, <2>b
  <2>2. CASE j = Len(log')
    BY <1>1, <2>1, <2>2
  <2>3. CASE j # Len(log')
    <3>a. j \in Nat /\ 1 <= j /\ j <= Len(log)
      BY <2>0, <2>1, <2>3
    <3>b. Len(log) < n => j \in 1..Len(log) /\ k \in 1..Len(l) /\ k + Len(log) - Len(l) = j
      <4> HAVE Len(log) < n
      <4>1. Len(l) = Len(log)
        BY <2>0, <2>c
      <4>2. /\ k \in Nat /\ 1 <= k /\ k <= Len(l) /\ k + Len(log) - Len(l) = j
        BY <2>0, <3>a, <4>1
      <4> QED
        BY <2>0, <3>a, <4>2
    <3>c. ~(Len(log) < n) => j \in 1..Len(log) /\ k \in 1..Len(l) /\ k + Len(log) - Len(l) = j
      <4> HAVE ~(Len(log) < n)
      <4>1. Len(l) = n /\ Len(m) = n
        BY <2>0, <2>b, <2>c
      <4>2. /\ k \in Nat /\ 1 <= k /\ k <= Len(l) /\ k + Len(log) - Len(l) = j
        BY <2>0, <3>a, <4>1
      <4> QED
        BY <2>0, <3>a, <4>2
    <3>1. j \in 1..Len(log) /\ k \in 1..Len(l) /\ k + Len(log) - Len(l) = j
      BY <3>b, <3>c
    <3> HIDE DEF j, k
    <3>2. l[k] = m[i]
      BY <1>1, <1>2, <2>1, <3>1
    <3>3. DOMAIN l = 1..Len(l)
      BY <1>2
    <3> QED
      BY <3>1, <3>2, <3>3 DEF ToSet
  <2> QED
    BY <2>2, <2>3
<1>5. ToSet(m) \subseteq ToSet(l) \union {id}
  <2>1. DOMAIN m = 1..Len(m)
    BY <1>3
  <2> QED
    BY <1>4, <2>1 DEF ToSet
<1> QED
  BY <1>5 DEF Shown, l, m, n

(* A new event reaches every stream or is dropped by it.                   *)
LEMMA EmitServes ==
  ASSUME StreamInv, IdsInv, Emit
  PROVE  StreamInv'
<1>1. PICK view \in Reads :
        /\ buffer' = LastOf(Append(buffer, NextId(view)), BufferLimit)
        /\ ~failed' => /\ ~failed /\ (counter = 0 => ~Hidden(view))
                       /\ log' = Append(log, NextId(view))
        /\ stream' = [c \in Clients |-> Published(c, NextId(view))]
        /\ UNCHANGED lastId
  BY EmitIs
<1> DEFINE id == NextId(view)
           long == Append(buffer, id)
<1>2. id \in Nat /\ (~failed' => ~failed /\ id = Len(log) + 1 /\ log' = Append(log, id))
  BY <1>1, NextIdIsNew
<1>3. stream' = [c \in Clients |-> Published(c, id)] /\ buffer' = LastOf(long, BufferLimit)
      /\ lastId' = lastId
  BY <1>1
<1>4. long \in Seq(Nat) /\ ToSet(long) = ToSet(buffer) \union {id}
  BY <1>2, Members DEF StreamInv
<1> HIDE DEF id, long
<1>5. BufferLimit \in Nat \ {0} /\ log \in Seq(Nat) /\ Len(log) \in Nat
  BY EventLimits DEF IdsInv
<1>6. buffer' \in Seq(Nat) /\ ToSet(buffer') \subseteq ToSet(buffer) \union {id}
  <2>1. buffer' \in Seq(ToSet(long)) /\ buffer' \in Seq(Nat)
    BY <1>3, <1>4, <1>5, OwnMembers, LastOfEnds
  <2> QED
    BY <1>4, <2>1, OwnMembers
<1>7. stream' \in [Clients -> Streams]
  BY <1>2, <1>3, PublishedIs
<1>8. ASSUME NEW c \in Clients
      PROVE  /\ Sound(stream'[c], lastId'[c])
             /\ ~failed' => Whole(stream'[c], lastId'[c], Len(log'), Shown')
  <2> DEFINE s == stream[c]
             t == Published(c, id)
  <2>1. stream'[c] = t /\ lastId'[c] = lastId[c] /\ lastId[c] \in Nat
    BY <1>3 DEF StreamInv
  <2>2. Sound(s, lastId[c]) /\ (~failed => Whole(s, lastId[c], Len(log), Shown))
    BY DEF StreamInv
  <2>3. /\ t.state = s.state /\ t.got = s.got /\ t.behind = s.behind
        /\ s.owed \subseteq t.owed /\ (s.state = "open" => id \in t.owed)
        /\ s.dropped \subseteq t.dropped
        /\ Waiting(s) \subseteq Waiting(t) /\ Waiting(t) \subseteq Waiting(s) \union {id}
        /\ t.owed \ t.dropped \subseteq s.owed \union (Waiting(t) \intersect {id})
    BY <1>2, PublishedIs
  <2> HIDE DEF s, t
  <2>4. Sound(t, lastId[c])
    BY <2>2, <2>3 DEF Sound, Served
  <2>5. ASSUME ~failed' PROVE Whole(t, lastId[c], Len(log'), Shown')
    <3>1. ~failed /\ id = Len(log) + 1 /\ log' = Append(log, id)
      BY <1>2, <2>5
    <3>2. Len(log') = Len(log) + 1 /\ Shown' \subseteq Shown \union {id}
      BY <1>2, <1>5, <3>1, ShownGrows
    <3>3. lastId[c] <= Len(log) /\ lastId[c] <= Len(log') /\ ~(id <= lastId[c])
          /\ 1..Len(log) \subseteq 1..Len(log') /\ id \in 1..Len(log')
      BY <1>5, <2>1, <2>2, <3>1, <3>2 DEF Whole
    <3> QED
      BY <2>2, <2>3, <3>1, <3>2, <3>3 DEF Whole
  <2> QED
    BY <2>1, <2>4, <2>5 DEF t
<1>9. ASSUME ~failed' PROVE ToSet(buffer') \subseteq 1..Len(log')
  <2>1. id = Len(log) + 1 /\ log' = Append(log, id) /\ ToSet(buffer) \subseteq 1..Len(log)
    BY <1>2, <1>9 DEF StreamInv
  <2>2. Len(log') = Len(log) + 1
    BY <1>2, <1>5, <2>1
  <2>3. 1..Len(log) \subseteq 1..Len(log') /\ id \in 1..Len(log')
    BY <1>5, <2>1, <2>2
  <2> QED
    BY <1>6, <2>1, <2>3
<1> QED
  BY <1>3, <1>6, <1>7, <1>8, <1>9 DEF StreamInv

(* What is sent leaves its queue and is with the client.                   *)
LEMMA SendServes ==
  ASSUME IdsInv, StreamInv, NEW c \in Clients, Send(c)
  PROVE  StreamInv'
<1> DEFINE s == stream[c]
<1>0. /\ s \in Streams /\ s.state = "open" /\ Sound(s, lastId[c]) /\ lastId[c] \in Nat
      /\ stream \in [Clients -> Streams] /\ buffer \in Seq(Nat)
      /\ ~failed => Whole(s, lastId[c], Len(log), Shown) /\ ToSet(buffer) \subseteq 1..Len(log)
  BY DEF StreamInv, Send
<1>1. /\ UNCHANGED <<log, buffer, failed>>
      /\ \/ /\ s.backlog # <<>> /\ lastId' = [lastId EXCEPT ![c] = Head(s.backlog)]
            /\ stream' = [stream EXCEPT ![c] =
                 [s EXCEPT !.backlog = Tail(s.backlog), !.got = s.got \union {Head(s.backlog)}]]
         \/ /\ s.queue # <<>> /\ lastId' = [lastId EXCEPT ![c] = Head(s.queue)]
            /\ stream' = [stream EXCEPT ![c] =
                 [s EXCEPT !.queue = Tail(s.queue), !.got = s.got \union {Head(s.queue)}]]
  BY <1>0 DEF Send, Streams, history
<1>2. ASSUME NEW t \in Streams, NEW e \in Nat,
             t.state = "open", t.behind = s.behind, t.owed = s.owed, t.dropped = s.dropped,
             t.got = s.got \union {e}, Waiting(s) = Waiting(t) \union {e},
             stream' = [stream EXCEPT ![c] = t], lastId' = [lastId EXCEPT ![c] = e]
      PROVE  StreamInv'
  <2>1. Sound(t, e)
    BY <1>0, <1>2 DEF Sound, Served
  <2>2. ASSUME ~failed' PROVE ~failed /\ Whole(t, e, Len(log), Shown)
    <3>1. ~failed /\ Whole(s, lastId[c], Len(log), Shown) /\ Len(log) \in Nat
      BY <1>0, <1>1, <2>2 DEF IdsInv
    <3>2. e \in 1..Len(log)
      BY <1>0, <1>2, <3>1 DEF Whole
    <3> QED
      BY <1>0, <1>2, <3>1, <3>2 DEF Whole
  <2>3. log' = log /\ buffer' \in Seq(Nat)
        /\ (~failed' => ~failed /\ ToSet(buffer') \subseteq 1..Len(log) /\ Whole(t, e, Len(log), Shown))
    BY <1>0, <1>1, <2>2
  <2> QED
    BY <1>2, <2>1, <2>3, StreamMoves
<1>3. CASE /\ s.backlog # <<>> /\ lastId' = [lastId EXCEPT ![c] = Head(s.backlog)]
           /\ stream' = [stream EXCEPT ![c] =
                [s EXCEPT !.backlog = Tail(s.backlog), !.got = s.got \union {Head(s.backlog)}]]
  <2> DEFINE e == Head(s.backlog)
             rest == Tail(s.backlog)
             got == s.got \union {e}
             t == [s EXCEPT !.backlog = rest, !.got = got]
  <2>1. s.backlog \in Seq(Nat) /\ s.got \in SUBSET Nat
    BY <1>0 DEF Streams
  <2>2. e \in Nat /\ rest \in Seq(Nat) /\ ToSet(s.backlog) = {e} \union ToSet(rest)
    BY <1>3, <2>1, Members
  <2>3. got \in SUBSET Nat /\ got = s.got \union {e}
    BY <2>1, <2>2
  <2>4. stream' = [stream EXCEPT ![c] = t] /\ lastId' = [lastId EXCEPT ![c] = e]
    BY <1>3
  <2> HIDE DEF e, rest, got, s
  <2>5. /\ t \in Streams /\ t.state = s.state /\ t.owed = s.owed /\ t.dropped = s.dropped
        /\ t.got = got /\ t.backlog = rest /\ t.queue = s.queue /\ t.behind = s.behind
    BY <1>0, <2>2, <2>3 DEF Streams
  <2> HIDE DEF t
  <2>6. Waiting(s) = Waiting(t) \union {e}
    BY <2>2, <2>5 DEF Waiting
  <2> QED
    BY <1>0, <1>2, <2>2, <2>3, <2>4, <2>5, <2>6
<1>4. CASE /\ s.queue # <<>> /\ lastId' = [lastId EXCEPT ![c] = Head(s.queue)]
           /\ stream' = [stream EXCEPT ![c] =
                [s EXCEPT !.queue = Tail(s.queue), !.got = s.got \union {Head(s.queue)}]]
  <2> DEFINE e == Head(s.queue)
             rest == Tail(s.queue)
             got == s.got \union {e}
             t == [s EXCEPT !.queue = rest, !.got = got]
  <2>1. s.queue \in Seq(Nat) /\ s.got \in SUBSET Nat
    BY <1>0 DEF Streams
  <2>2. e \in Nat /\ rest \in Seq(Nat) /\ ToSet(s.queue) = {e} \union ToSet(rest)
    BY <1>4, <2>1, Members
  <2>3. got \in SUBSET Nat /\ got = s.got \union {e}
    BY <2>1, <2>2
  <2>4. stream' = [stream EXCEPT ![c] = t] /\ lastId' = [lastId EXCEPT ![c] = e]
    BY <1>4
  <2> HIDE DEF e, rest, got, s
  <2>5. /\ t \in Streams /\ t.state = s.state /\ t.owed = s.owed /\ t.dropped = s.dropped
        /\ t.got = got /\ t.backlog = s.backlog /\ t.queue = rest /\ t.behind = s.behind
    BY <1>0, <2>2, <2>3 DEF Streams
  <2> HIDE DEF t
  <2>6. Waiting(s) = Waiting(t) \union {e}
    BY <2>2, <2>5 DEF Waiting
  <2> QED
    BY <1>0, <1>2, <2>2, <2>3, <2>4, <2>5, <2>6
<1> QED
  BY <1>1, <1>3, <1>4

(* A client that leaves has, or will be owed, what is shown; a new one has *)
(* nothing to miss.                                                        *)
LEMMA DisconnectServes ==
  ASSUME IdsInv, StreamInv, NEW c \in Clients, Disconnect(c)
  PROVE  StreamInv'
<1>1. /\ UNCHANGED <<log, buffer, failed>> /\ buffer' \in Seq(Nat) /\ lastId[c] \in Nat
      /\ lastId \in [Clients -> Nat] /\ Len(log) \in Nat
      /\ ~failed' => ~failed /\ ToSet(buffer') \subseteq 1..Len(log)
  BY DEF Disconnect, history, StreamInv, IdsInv
<1>2. CASE stream' = [stream EXCEPT ![c] = CutOff(c)] /\ UNCHANGED lastId
  <2>1. lastId' = [lastId EXCEPT ![c] = lastId[c]]
    BY <1>1, <1>2
  <2>2. CutOff(c) \in Streams /\ Sound(CutOff(c), lastId[c])
        /\ (~failed => Whole(CutOff(c), lastId[c], Len(log), Shown))
    BY CutOffKeeps
  <2> QED
    BY <1>1, <1>2, <2>1, <2>2, StreamMoves
<1>3. CASE stream' = [stream EXCEPT ![c] = Closed] /\ lastId' = [lastId EXCEPT ![c] = 0]
  <2>1. Closed \in Streams /\ Sound(Closed, 0)
    BY DEF Closed, Streams, Sound
  <2>2. ASSUME ~failed PROVE Whole(Closed, 0, Len(log), Shown)
    <3>1. Shown \subseteq 1..Len(log) /\ Closed.state = "closed" /\ 0 <= Len(log)
      BY <1>1, <2>2, ShownAre DEF Closed
    <3>2. \A e \in Shown : ~(e <= 0)
      BY <1>1, <3>1
    <3> QED
      BY <3>1, <3>2 DEF Whole
  <2> QED
    BY <1>1, <1>3, <2>1, <2>2, StreamMoves
<1> QED
  BY <1>2, <1>3 DEF Disconnect

(* Nobody is refused what was in the file when it connected or came since, *)
(* unless its queue was full, for any clients, limits, faults and restarts:*)
(* what get_events merges and subscribe replays leaves no gap between them,*)
(* nor, as long as the file works and no connection is cut off in a backlog*)
(* that is out of order, does a reconnection by Last-Event-ID.             *)
THEOREM NothingIsSkipped == EventSpec => []NothingSkipped
<1>1. EventInit => IdsInv /\ StreamInv
  <2> SUFFICES ASSUME EventInit PROVE IdsInv /\ StreamInv
    OBVIOUS
  <2>1. IdsInv
    BY IdsInit
  <2>2. /\ log = <<>> /\ buffer = <<>> /\ stream = [c \in Clients |-> Closed]
        /\ lastId = [c \in Clients |-> 0]
    BY DEF EventInit
  <2>3. Closed \in Streams /\ Sound(Closed, 0) /\ Closed.state = "closed"
    BY DEF Closed, Streams, Sound
  <2>4. buffer \in Seq(Nat) /\ Len(log) = 0 /\ ToSet(buffer) = {} /\ Shown = {}
    <3>1. LastOf(log, BufferLimit) = <<>>
      BY <2>2, EventLimits DEF LastOf
    <3> QED
      BY <2>2, <3>1 DEF Shown, ToSet
  <2>5. Whole(Closed, 0, Len(log), Shown)
    BY <2>3, <2>4 DEF Whole
  <2>6. /\ stream \in [Clients -> Streams] /\ lastId \in [Clients -> Nat]
        /\ \A c \in Clients : stream[c] = Closed /\ lastId[c] = 0
    BY <2>2, <2>3
  <2> QED
    BY <2>1, <2>3, <2>4, <2>5, <2>6 DEF StreamInv
<1>2. IdsInv /\ StreamInv /\ [EventNext]_eventVars => IdsInv' /\ StreamInv'
  <2> SUFFICES ASSUME IdsInv, StreamInv, [EventNext]_eventVars PROVE IdsInv' /\ StreamInv'
    OBVIOUS
  <2>1. IdsInv'
    BY IdsSteps
  <2>2. CASE Emit
    BY <2>1, <2>2, EmitServes
  <2>3. CASE Poll
    <3>1. PICK view \in Reads : Load(view) /\ UNCHANGED <<log, stream, lastId>>
      BY <2>3 DEF Poll
    <3>2. /\ buffer' \in Seq(Nat)
          /\ ~failed' => ~failed /\ ToSet(buffer') \subseteq 1..Len(log')
      BY <3>1, LoadKeeps
    <3>3. Shown' = Shown
      BY <3>1 DEF Shown
    <3> QED
      BY <2>1, <3>1, <3>2, <3>3 DEF StreamInv
  <2>4. CASE EventRestart
    <3>1. stream' = [c \in Clients |-> CutOff(c)] /\ buffer' = <<>> /\ UNCHANGED <<log, lastId, failed>>
      BY <2>4 DEF EventRestart
    <3>2. /\ stream' \in [Clients -> Streams]
          /\ \A c \in Clients : /\ Sound(stream'[c], lastId'[c])
                                /\ ~failed' => Whole(stream'[c], lastId'[c], Len(log'), Shown')
      BY <3>1, CutOffKeeps DEF Shown
    <3>3. buffer' \in Seq(Nat) /\ ToSet(buffer') = {}
      BY <3>1 DEF ToSet
    <3> QED
      BY <2>1, <3>1, <3>2, <3>3 DEF StreamInv
  <2>5. ASSUME NEW c \in Clients, Connect(c) PROVE StreamInv'
    BY <2>5, ConnectServes
  <2>6. ASSUME NEW c \in Clients, Send(c) PROVE StreamInv'
    BY <2>6, SendServes
  <2>7. ASSUME NEW c \in Clients, Disconnect(c) PROVE StreamInv'
    BY <2>7, DisconnectServes
  <2>8. CASE UNCHANGED eventVars
    BY <2>1, <2>8 DEF eventVars, history, StreamInv, Shown
  <2> QED
    BY <2>1, <2>2, <2>3, <2>4, <2>5, <2>6, <2>7, <2>8 DEF EventNext
<1>3. StreamInv => NothingSkipped
  BY DEF StreamInv, Sound, NothingSkipped, Served, Waiting
<1> QED
  BY <1>1, <1>2, <1>3, PTL DEF EventSpec
=============================================================================
