------------------------------- MODULE Screening -------------------------------
(***************************************************************************)
(* The results of one workflow and the shortlists made of them: a card's   *)
(* snapshot and its screening, the screening job, the judgment of replies  *)
(* and the scan of the chats, and the archive of talents                   *)
(* (services/agent_service/screening_service.py,                           *)
(* followup_conversation_service.py, packages/db/repositories.py).         *)
(*                                                                         *)
(* A snapshot is its place in the order of capture, a result its place in  *)
(* the order of creation.  What a task does between two awaits on the      *)
(* model, or holding SQLite's write lock, is one step.                     *)
(***************************************************************************)
EXTENDS Naturals, Sequences, SequencesExt, FiniteSets, FiniteSetsExt

CONSTANTS Persons,         \* candidate_identity_hash
          Outcomes,        \* what the model answers: pairs of score and level
          MinScore, TopK,  \* config.screening
          MaxSnapshots, MaxJobs, MaxJudgments

ASSUME ScreeningLimits ==
  /\ {MinScore, TopK, MaxSnapshots, MaxJobs, MaxJudgments} \subseteq Nat \ {0}
  /\ \A o \in Outcomes : o.score \in Nat

VARIABLES
  person,      \* whom each snapshot shows
  unscreened,  \* snapshots whose screening the fetch waits for
  results,     \* candidate_screening_results
  lists,       \* the shortlists: their entries, and whether a batch made them
  shortlist,   \* shortlist_id of the workflow, 0 for none
  job,         \* run_screening_job
  judges,      \* the judgment and the scan: what they read before they ask
  archive,     \* best_score and last_score of a person
  jobs, judgments

ranked == <<lists, shortlist, job, jobs>>
screeningVars == <<person, unscreened, results, ranked, judges, archive, judgments>>

Judges == {"judgment", "scan"}
Idle   == [at |-> "idle"]

ScreeningInit ==
  /\ person = <<>> /\ unscreened = {} /\ results = <<>>
  /\ lists = <<>> /\ shortlist = 0 /\ job = Idle /\ jobs = 0
  /\ judges = [a \in Judges |-> Idle] /\ judgments = 0
  /\ archive = [p \in Persons |-> [best |-> 0, last |-> 0]]

-----------------------------------------------------------------------------
(* Results and shortlists                                                  *)

Rankable == {"observe", "followup"}

RowsOf(rows, i) == {k \in DOMAIN rows : rows[k].snap = i}

(* list_latest_by_workflow: the last row of the highest round              *)
Latest(rows, i) ==
  CHOOSE k \in RowsOf(rows, i) : \A j \in RowsOf(rows, i) :
    rows[j].round < rows[k].round \/ (rows[j].round = rows[k].round /\ j <= k)

(* get_latest_for_candidate: any row of the highest round                  *)
OfLastRound(rows, i) ==
  {k \in RowsOf(rows, i) : \A j \in RowsOf(rows, i) : rows[j].round <= rows[k].round}

(* Mutant of PerPerson: every snapshot for itself.                         *)
PerPersonNot(S) == S

(* _dedupe_screening_outputs_by_identity: of the results of one person the *)
(* one with the highest score, and of these the latest snapshot's.         *)
PerPerson(S) ==
  {r \in S : \A s \in S : person[s.snap] = person[r.snap] =>
     s.score < r.score \/ (s.score = r.score /\ s.snap <= r.snap)}

(* _collect_rankable_screening and the cut at top_k; equal scores come in  *)
(* any order.                                                              *)
Shortlists(S) ==
  LET listed == {r \in S : r.level \in Rankable /\ (r.level = "observe" => r.score >= MinScore)}
      sorted == {s \in SetToSeqs(listed) :
                   \A i, j \in DOMAIN s : i < j => s[i].score >= s[j].score}
  IN {SubSeq(s, 1, Min({TopK, Len(s)})) : s \in sorted}

Current(rows) ==
  {rows[Latest(rows, i)] : i \in {i \in DOMAIN person : RowsOf(rows, i) # {}}}

Archived(rows, p) == {k \in DOMAIN rows : person[rows[k].snap] = p /\ rows[k].level \in Rankable}

(* Mutant of Talent: the last score is taken for the best.                 *)
TalentLast(rows, p) ==
  LET mine == Archived(rows, p)
  IN IF mine = {} THEN archive[p]
     ELSE [best |-> rows[Max(mine)].score, last |-> rows[Max(mine)].score]

(* TalentArchiveRepository.upsert_from_screening, for one row after another*)
Talent(rows, p) ==
  LET mine == Archived(rows, p)
  IN IF mine = {} THEN archive[p]
     ELSE [best |-> Max({archive[p].best} \union {rows[k].score : k \in mine}),
           last |-> rows[Max(mine)].score]

(* ScreeningRepository.save_result, for each of the rows                   *)
SaveResults(rows) ==
  /\ results' = results \o rows
  /\ archive' = [p \in Persons |-> Talent(rows, p)]

Row(i, round, o) == [snap |-> i, round |-> round, score |-> o.score, level |-> o.level]

-----------------------------------------------------------------------------
(* A card of the fetch: visa_screen_and_persist_one                        *)

SaveSnapshot(p) ==
  /\ Len(person) < MaxSnapshots
  /\ person' = Append(person, p)
  /\ unscreened' = unscreened \union {Len(person')}
  /\ UNCHANGED <<results, ranked, judges, archive, judgments>>

Screen(i) ==
  /\ i \in unscreened
  /\ unscreened' = unscreened \ {i}
  /\ \/ \E o \in Outcomes : SaveResults(<<Row(i, 1, o)>>)
     \/ UNCHANGED <<results, archive>>       \* the model or the write failed
  /\ UNCHANGED <<person, ranked, judges, judgments>>

-----------------------------------------------------------------------------
(* run_screening_job: finalize_shortlist or run_screening_batch            *)

(* finalize_shortlist has read all it needs.                               *)
FinalizeReads ==
  /\ job = Idle /\ jobs < MaxJobs
  /\ \E l \in Shortlists(PerPerson(Current(results))) : job' = [at |-> "finalize", entries |-> l]
  /\ jobs' = jobs + 1
  /\ UNCHANGED <<person, unscreened, results, lists, shortlist, judges, archive, judgments>>

FinalizeWrites ==
  /\ job.at = "finalize"
  /\ lists' = Append(lists, [entries |-> job.entries, batch |-> FALSE])
  /\ job' = [at |-> "mark", list |-> Len(lists')]
  /\ UNCHANGED <<person, unscreened, results, shortlist, jobs, judges, archive, judgments>>

BatchReads ==
  /\ job = Idle /\ jobs < MaxJobs
  /\ job' = [at |-> "batch", snapshots |-> DOMAIN person]
  /\ jobs' = jobs + 1
  /\ UNCHANGED <<person, unscreened, results, lists, shortlist, judges, archive, judgments>>

Failure == [score |-> 0, level |-> "reject"]

(* run_screening_batch screens every snapshot it read anew, in round 1, and*)
(* lists its own results; one transaction to the end.                      *)
BatchCommits ==
  /\ job.at = "batch"
  /\ \E answer \in [job.snapshots -> Outcomes \union {Failure}] :
       LET rows == [i \in 1..Cardinality(job.snapshots) |-> Row(i, 1, answer[i])]
       IN /\ SaveResults(rows)
          /\ \E l \in Shortlists(ToSet(rows)) :
               lists' = Append(lists, [entries |-> l, batch |-> TRUE])
  /\ job' = [at |-> "mark", list |-> Len(lists')]
  /\ UNCHANGED <<person, unscreened, shortlist, jobs, judges, judgments>>

(* Cancelled, or an exception of the database                              *)
JobFails ==
  /\ job # Idle /\ job' = Idle
  /\ UNCHANGED <<person, unscreened, results, lists, shortlist, jobs, judges, archive, judgments>>

JobMarks ==
  /\ job.at = "mark"
  /\ shortlist' = job.list /\ job' = Idle
  /\ UNCHANGED <<person, unscreened, results, lists, jobs, judges, archive, judgments>>

-----------------------------------------------------------------------------
(* apply_reply_enrichment, and the scan, which does not refresh the list   *)

JudgeReads(a, i) ==
  /\ judges[a] = Idle /\ judgments < MaxJudgments
  /\ \E k \in OfLastRound(results, i) :
       judges' = [judges EXCEPT ![a] =
         [at |-> "asks", snap |-> i, score |-> results[k].score, list |-> shortlist]]
  /\ judgments' = judgments + 1
  /\ UNCHANGED <<person, unscreened, results, ranked, archive>>

(* The score stays, but for a missing one; the level is the model's.  The  *)
(* list is the one the workflow had when its row was read.                 *)
JudgeWrites(a) ==
  /\ judges[a].at = "asks"
  /\ LET j == judges[a] IN
     \E level \in Rankable \union {"exclude"} :
       /\ SaveResults(<<Row(j.snap, 2, [score |-> IF j.score = 0 THEN 65 ELSE j.score,
                                        level |-> level])>>)
       /\ IF a = "scan" \/ j.list = 0 THEN UNCHANGED lists
          ELSE \E l \in Shortlists(PerPerson(Current(results'))) :
                 lists' = [lists EXCEPT ![j.list] = [entries |-> l, batch |-> FALSE]]
  /\ judges' = [judges EXCEPT ![a] = Idle]
  /\ UNCHANGED <<person, unscreened, shortlist, job, jobs, judgments>>

JudgeFails(a) ==
  /\ judges[a] # Idle
  /\ judges' = [judges EXCEPT ![a] = Idle]
  /\ UNCHANGED <<person, unscreened, results, ranked, archive, judgments>>

ScreeningNext ==
  \/ \E p \in Persons : SaveSnapshot(p)
  \/ \E i \in 1..MaxSnapshots : Screen(i)
  \/ FinalizeReads \/ FinalizeWrites \/ BatchReads \/ BatchCommits \/ JobFails \/ JobMarks
  \/ \E a \in Judges, i \in DOMAIN person : JudgeReads(a, i)
  \/ \E a \in Judges : JudgeWrites(a) \/ JudgeFails(a)

ScreeningSpec == ScreeningInit /\ [][ScreeningNext]_screeningVars

-----------------------------------------------------------------------------
(* Properties                                                              *)

(* Whoever made a shortlist last and whatever came in meanwhile: it names  *)
(* no snapshot twice, is in the order of the scores and within top_k, and  *)
(* only a batch may list one person twice (screening_service.py).          *)
ListSound ==
  /\ shortlist <= Len(lists)
  /\ \A l \in DOMAIN lists :
       LET e == lists[l].entries IN
       /\ Len(e) <= TopK
       /\ \A i, j \in DOMAIN e : i < j =>
            /\ e[i].score >= e[j].score /\ e[i].snap # e[j].snap
            /\ ~lists[l].batch => person[e[i].snap] # person[e[j].snap]

(* The archive keeps the best score a person ever had without being        *)
(* eliminated, through every screening and judgment of every snapshot      *)
(* (repositories.py, upsert_from_screening).                               *)
ArchiveKeepsBest ==
  \A p \in Persons :
    archive[p].best = Max({0} \union {results[k].score : k \in Archived(results, p)})
=============================================================================
