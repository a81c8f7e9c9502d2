------------------------------- MODULE PdfImport -------------------------------
(***************************************************************************)
(* The import of one batch of PDF resumes                                  *)
(* (services/agent_service/pdf_import_service.py, POST /pdf-import): files *)
(* in a staging directory are read, screened and saved concurrently, a     *)
(* batch at a time, and ranked in the end; and the ranking HR asks for     *)
(* again (POST /{id}/pdf-import/report/regenerate).                        *)
(*                                                                         *)
(* A file is what it holds; two that differ may hold the same text.        *)
(***************************************************************************)
EXTENDS Integers, FiniteSets

CONSTANTS Files,
          Uploads,       \* what the files of a batch may hold
          TextOf,        \* the text in it, "" if it cannot be read
          Concurrency,   \* PDF_IMPORT_CONCURRENCY
          MaxRankings,   \* rankings HR asks for
          PdfFaults      \* subset of {"db"}: writes that go wrong

ASSUME PdfLimits ==
  /\ Files \subseteq Nat /\ IsFiniteSet(Files)
  /\ Concurrency \in Nat \ {0} /\ MaxRankings \in Nat /\ PdfFaults \subseteq {"db"}
  /\ \A u \in Uploads : DOMAIN u = Files

VARIABLES
  content,     \* the upload
  import,      \* run_pdf_import_job: its await
  file,        \* process_one of each file: its await
  seen,        \* seen_binary_hashes and seen_text_hashes
  progress,    \* the job's progress dict
  shown,       \* pdf_import in the workflow's config
  importRow,   \* the workflow's status
  staged,      \* files of the staging directory
  saved,       \* files whose candidate is in the database
  ranker,      \* the ranking HR asked for: its await, its progress dict
  rankings,
  lost         \* history: a write of progress went wrong

importVars ==
  <<content, import, file, seen, progress, shown, importRow, staged, saved, ranker, rankings, lost>>

Initially == [processing |-> 0, completed |-> 0, duplicate |-> 0, failed |-> 0,
              state |-> "queued", ranking |-> "queued"]

NoRanker == [at |-> "none", progress |-> Initially]

(* start_pdf_import has stored the files and the row.                      *)
ImportInit ==
  /\ content \in Uploads
  /\ import = "start" /\ file = [f \in Files |-> "queued"] /\ seen = {}
  /\ progress = Initially /\ shown = Initially /\ importRow = "SCREENING"
  /\ staged = Files /\ saved = {}
  /\ ranker = NoRanker /\ rankings = 0 /\ lost = FALSE

Working == {"hash", "extract", "count", "screen", "save", "done", "duplicate", "failed"}

-----------------------------------------------------------------------------

(* A write of progress, and one that raises                                *)
Writes(p) == shown' = p /\ UNCHANGED lost
Loses     == "db" \in PdfFaults /\ lost' = TRUE /\ UNCHANGED shown

ImportBegins ==
  /\ import = "start"
  /\ progress' = [progress EXCEPT !.state = "processing"]
  /\ \/ Writes(progress') /\ import' = "batch"
     \/ Loses /\ import' = "partial"
  /\ UNCHANGED <<content, file, seen, importRow, staged, saved, ranker, rankings>>

(* The next files, once the last ones are through                          *)
Batch ==
  /\ import = "batch"
  /\ \A f \in Files : file[f] \in {"queued", "over"}
  /\ LET queued == {f \in Files : file[f] = "queued"}
     IN IF queued = {} THEN import' = "finish" /\ UNCHANGED file
        ELSE /\ \E next \in SUBSET queued :
                  /\ Cardinality(next) = Concurrency \/ (Cardinality(next) < Concurrency /\ next = queued)
                  /\ \A f \in next, g \in queued \ next : f < g
                  /\ file' = [f \in Files |-> IF f \in next THEN "hash" ELSE file[f]]
             /\ UNCHANGED import
  /\ UNCHANGED <<content, seen, progress, shown, importRow, staged, saved, ranker, rankings, lost>>

Goes(f, at) == file' = [file EXCEPT ![f] = at]

(* The finally block of process_one                                        *)
Leaves(f) == Goes(f, "over") /\ staged' = staged \ {f}

(* Mutant of HashRegistered: looked up, but not registered.                *)
HashRegisteredLate(f, key, at) ==
  IF key \in seen THEN Goes(f, "duplicate") /\ UNCHANGED seen
                  ELSE Goes(f, at) /\ UNCHANGED seen

(* Under the state lock a hash is looked up and registered.                *)
HashRegistered(f, key, at) ==
  IF key \in seen THEN Goes(f, "duplicate") /\ UNCHANGED seen
                  ELSE Goes(f, at) /\ seen' = seen \union {key}

(* A job that broke off may have removed the file by now.                  *)
Hash(f) ==
  /\ file[f] = "hash"
  /\ IF f \notin staged THEN Goes(f, "failed") /\ UNCHANGED seen
     ELSE HashRegistered(f, <<"file", content[f]>>, "extract")
  /\ UNCHANGED <<content, import, progress, shown, importRow, staged, saved, ranker, rankings, lost>>

Extract(f) ==
  /\ file[f] = "extract"
  /\ IF f \notin staged \/ TextOf[content[f]] = "" THEN Goes(f, "failed") /\ UNCHANGED seen
     ELSE HashRegistered(f, <<"text", TextOf[content[f]]>>, "count")
  /\ UNCHANGED <<content, import, progress, shown, importRow, staged, saved, ranker, rankings, lost>>

(* screen_visa_only, then _save_screened_candidate: either may raise.      *)
Screen(f) ==
  /\ file[f] = "screen"
  /\ Goes(f, "save") \/ Goes(f, "failed")
  /\ UNCHANGED <<content, import, seen, progress, shown, importRow, staged, saved, ranker, rankings, lost>>

Save(f) ==
  /\ file[f] = "save"
  /\ \/ Goes(f, "done") /\ saved' = saved \union {f}
     \/ Goes(f, "failed") /\ UNCHANGED saved
  /\ UNCHANGED <<content, import, seen, progress, shown, importRow, staged, ranker, rankings, lost>>

Less(n) == IF n = 0 THEN 0 ELSE n - 1

(* Mutant of Updated: a duplicate is not counted.                          *)
UpdatedNoDuplicate(kind) ==
  CASE kind = "count"  -> [progress EXCEPT !.processing = @ + 1]
    [] kind = "done"   -> [progress EXCEPT !.processing = Less(@), !.completed = @ + 1]
    [] kind = "failed" -> [progress EXCEPT !.processing = Less(@), !.failed = @ + 1]
    [] OTHER           -> progress

(* update: a file that failed before it was counted takes another one out. *)
Updated(kind) ==
  CASE kind = "count"     -> [progress EXCEPT !.processing = @ + 1]
    [] kind = "done"      -> [progress EXCEPT !.processing = Less(@), !.completed = @ + 1]
    [] kind = "failed"    -> [progress EXCEPT !.processing = Less(@), !.failed = @ + 1]
    [] kind = "duplicate" -> [progress EXCEPT !.duplicate = @ + 1]

(* The dict is changed and written under the state lock.  An exception     *)
(* leads to the failed count; one there leaves process_one, and gather     *)
(* raises it while the other files go on.                                  *)
Count(f) ==
  /\ file[f] \in {"count", "done", "duplicate", "failed"}
  /\ progress' = Updated(file[f])
  /\ \/ /\ Writes(progress')
        /\ IF file[f] = "count" THEN Goes(f, "screen") /\ UNCHANGED staged ELSE Leaves(f)
        /\ UNCHANGED import
     \/ /\ Loses
        /\ IF file[f] = "failed"
             THEN Leaves(f) /\ import' = IF import = "batch" THEN "partial" ELSE import
             ELSE Goes(f, "failed") /\ UNCHANGED <<staged, import>>
  /\ UNCHANGED <<content, seen, importRow, saved, ranker, rankings>>

-----------------------------------------------------------------------------
(* The end of the job                                                      *)

(* The finally block of run_pdf_import_job                                 *)
CleanUp == import' = "over" /\ staged' = {}

(* _finish_workflow writes what the config says, not what the job knows.   *)
FinishWorkflow ==
  /\ import = "finish"
  /\ \/ /\ Writes([shown EXCEPT !.processing = 0, !.state = "completed"])
        /\ importRow' = "SCREENING_COMPLETED"
        /\ progress' = [progress EXCEPT !.processing = 0, !.state = "completed"]
        /\ import' = "rankStart"
     \/ Loses /\ import' = "partial" /\ UNCHANGED <<importRow, progress>>
  /\ UNCHANGED <<content, file, seen, staged, saved, ranker, rankings>>

FinishPartial ==
  /\ import = "partial"
  /\ \/ /\ Writes([shown EXCEPT !.processing = 0, !.state = "partial_failed"])
        /\ importRow' = "PARTIAL_FAILED"
     \/ Loses /\ UNCHANGED importRow
  /\ CleanUp
  /\ UNCHANGED <<content, file, seen, progress, saved, ranker, rankings>>

(* run_pdf_import_ranking: a step before and one after the report          *)
RankBegins ==
  /\ import = "rankStart"
  /\ progress' = [progress EXCEPT !.ranking = "ranking"]
  /\ \/ Writes(progress') /\ import' = "ranking"
     \/ Loses /\ import' = "partial"
  /\ UNCHANGED <<content, file, seen, importRow, staged, saved, ranker, rankings>>

Ranks ==
  /\ import = "ranking"
  /\ progress' \in {[progress EXCEPT !.ranking = r] : r \in {"completed", "failed"}}
  /\ \/ Writes(progress') /\ CleanUp
     \/ Loses /\ import' = "partial" /\ UNCHANGED staged
  /\ UNCHANGED <<content, file, seen, importRow, saved, ranker, rankings>>

(* The user cancels: the files' tasks with the job's.  A ranking is cut    *)
(* short with its finally block, which writes that it is under way.        *)
ImportCancelled ==
  /\ import \in {"start", "batch", "finish", "rankStart", "ranking"}
  /\ LET cut == {f \in Files : file[f] \in Working}
     IN /\ file' = [f \in Files |-> IF f \in cut THEN "over" ELSE file[f]]
        /\ staged' = staged \ cut
  /\ IF import = "ranking" THEN shown' = progress ELSE UNCHANGED shown
  /\ import' = "partial"
  /\ UNCHANGED <<content, seen, progress, importRow, saved, ranker, rankings, lost>>

(* The process ends; the next one clears the staging directories and marks *)
(* rows that say SCREENING.                                                *)
ImportRestart ==
  /\ import \notin {"over", "none"} \/ ranker # NoRanker
  /\ import' = "none" /\ file' = [f \in Files |-> "over"]
  /\ staged' = {} /\ ranker' = NoRanker
  /\ importRow' = IF importRow = "SCREENING" THEN "PARTIAL_FAILED" ELSE importRow
  /\ UNCHANGED <<content, seen, progress, shown, saved, rankings, lost>>

-----------------------------------------------------------------------------
(* POST /{id}/pdf-import/report/regenerate, whenever HR likes: the ranking *)
(* works on the progress of this moment.                                   *)
Regenerate ==
  /\ rankings < MaxRankings /\ ranker = NoRanker /\ shown.ranking # "ranking"
  /\ rankings' = rankings + 1
  /\ ranker' = [at |-> "start", progress |-> shown]
  /\ UNCHANGED <<content, import, file, seen, progress, shown, importRow, staged, saved, lost>>

RankerBegins ==
  /\ ranker.at = "start"
  /\ \/ /\ ranker' = [at |-> "rank", progress |-> [ranker.progress EXCEPT !.ranking = "ranking"]]
        /\ Writes(ranker'.progress)
     \/ Loses /\ ranker' = NoRanker
  /\ UNCHANGED <<content, import, file, seen, progress, importRow, staged, saved, rankings>>

RankerEnds ==
  /\ ranker.at = "rank"
  /\ \/ \E r \in {"completed", "failed"} : Writes([ranker.progress EXCEPT !.ranking = r])
     \/ Loses
  /\ ranker' = NoRanker
  /\ UNCHANGED <<content, import, file, seen, progress, importRow, staged, saved, rankings>>

-----------------------------------------------------------------------------

FileStep(f) == Hash(f) \/ Extract(f) \/ Screen(f) \/ Save(f) \/ Count(f)

JobStep == ImportBegins \/ Batch \/ FinishWorkflow \/ FinishPartial \/ RankBegins \/ Ranks

ImportNext ==
  \/ JobStep \/ ImportCancelled \/ ImportRestart
  \/ Regenerate \/ RankerBegins \/ RankerEnds
  \/ \E f \in Files : FileStep(f)

ImportSpec == ImportInit /\ [][ImportNext]_importVars

-----------------------------------------------------------------------------

ImportTypeOK ==
  /\ import \in {"start", "batch", "finish", "partial", "rankStart", "ranking", "over", "none"}
  /\ file \in [Files -> {"queued", "over"} \union Working]
  /\ staged \subseteq Files /\ saved \subseteq Files
  /\ importRow \in {"SCREENING", "SCREENING_COMPLETED", "PARTIAL_FAILED"}
  /\ \A f \in Files : file[f] \in Working => f \in staged \/ import = "over"

(* However the files of a batch overlap, two that hold the same text do    *)
(* not become two candidates.                                              *)
NoTwins ==
  \A f, g \in saved : TextOf[content[f]] = TextOf[content[g]] => f = g

(* At the end of a batch the counts account for every file, and say how    *)
(* many candidates there are, unless a write of them went wrong.           *)
CountsAdd ==
  progress.state = "completed" /\ ~lost =>
    /\ progress.completed = Cardinality(saved)
    /\ progress.completed + progress.duplicate + progress.failed = Cardinality(Files)

(* No resume is kept on the disk when the job is over, finished, cancelled *)
(* or broken off, nor after a restart ("delete every source on completion",*)
(* pdf_import_service.py:286).                                             *)
SourcesRemoved == import \in {"over", "none"} => staged = {}
=============================================================================
