# HRagent in TLA+

This directory specifies the parts of HRagent where several coroutines, routes,
requests and external effects meet: the life of a workflow and its background
jobs, the shared browser, the search for candidates and the dialogs on the way
through each card, the messages that automation and people send to the same
candidates, what becomes of their answers, and the smaller services around them.
The modules are read from the code; paths below are relative to `src/`.

## 1. The system

HRagent runs a recruiting *workflow*: a FastAPI process (`apps/api`) starts
background coroutines that drive one Chromium per login profile through
Playwright, collect candidates on Liepin, screen them with language-model
agents, and write to them in the platform's chat. State lives in a database
(SQLite by default), in module-level dictionaries of the API process, in the
browser, and in the chat windows of a third party. A Temporal worker
(`services/workflow_worker`) is a second, older driver of the same flow.

All coroutines share **one event loop** (a second loop for Playwright exists on
Windows only, `packages/asyncio_compat.py`). Code between two `await`s is
atomic; everything else interleaves. That is the granularity of the models.

### Components

| Component | State it keeps | Operations | Modelled in |
|---|---|---|---|
| Pause and cancel flags `packages/workflow_control.py` | `_global_paused`, `_paused`, `_cancelled` | pause/resume (global, one workflow), request_cancel, clear, wait_if_paused | `WorkflowControl` |
| Task registry `packages/background_tasks.py` | live tasks by workflow | spawn, cancel_workflow_tasks, shutdown | `WorkflowLifecycle` |
| Fetch and screening jobs `apps/api/job_runner.py` | row status, the flags in its `finally` | run_fetch_job, run_screening_job | `WorkflowLifecycle` |
| Startup reconciliation `packages/workflow_runtime.py` | rows | marks in-progress rows of a dead process | `WorkflowLifecycle` |
| Workflow routes `apps/api/routes/workflows.py` | — | start, screen, pause, resume, cancel, delete | `WorkflowLifecycle` |
| IM autopilot `im_autopilot.py` | `_monitor_running`, stop events, one lock per workflow | start, stop, monitor, cycle, catch-up, outreach after a card | `WorkflowLifecycle`, `ImOutreach` |
| Follow-up conversations `followup_conversation_service.py` | conversations and messages | prepare, confirm, continue, scan replies, ask for résumés | `ImOutreach` |
| Candidate dialogue `candidate_dialogue_service.py` | dialogue drafts | process pending replies, draft, send | `ImOutreach` |
| Message routes `messages.py`, `conversations.py`, `followup.py` | — | edit, send one, the buttons of the console | `ImOutreach` |
| IM batches `im_chat_runner.py`, `im_contact_match.py` | a page of the shared browser | find a contact, send, read | `ImContacts`, `ImOutreach`, `BrowserPool` |
| Browser pool `browser_pool.py`, `browser.py` | profile → (browser, reference count), one lock | acquire, release, new_page | `BrowserPool` |
| Résumé library `resume_library_viewer.py`, `resume_library_nav.py`, `resume_library_row_match.py` | one page per profile, three caches | open a candidate's résumé, close | `ResumeLibrary`, `BrowserPool` |
| Fetch runner and card loop `runner.py`, `extract_popup.py`, `extract_monitor.py` | counters, recoveries, seen candidates | search, pages, cards | `SearchLoop` |
| Fallbacks `experience_fallback.py`, `keyword_fallback.py` | — | next band of years, next keywords | `SearchFallback` |
| Dialogs of a card `extract_popup.py`, `job_select_match.py` | layers of the page, job dialog tracker | open, collect, chat, choose the job, get back | `CardDialogs` |
| Screening `screening_service.py`, `repositories.py` | results, shortlists, archive | screen, batch, rank, judge | `Screening` |
| Reply judgment `reply_judgment_runner.py`, `reply_summary_agent.py` | running set, stop event, progress, report | start, stop, run | `ReplyJudgment` |
| Workflow events `packages/workflow_events.py` | buffers, subscriber queues, log files | emit, subscribe, replay | `EventBus` |
| PDF import `pdf_import_service.py` | progress, hashes, staging directory | import files concurrently, rank | `PdfImport` |
| Login set-up `login_init.py` | one login session, its window | start, relogin, complete, cancel, refresh | `LoginSetup` |
| Temporal workflows and reply ingestion `services/workflow_worker`, `services/reply_ingestion_worker` | workflow state, signals | recruiting workflow, conversation, scan, ingest | `CandidateConversation` |
| Candidate identity `packages/candidate_identity.py` | — | fingerprints | a given relation in `SearchLoop`, `Screening` |
| Keep awake, agents, console, migrations | see section 6 | | not modelled |

### What is hard here

* **Flags shared by unrelated jobs.** The pause is global, the cancel flag is per
  workflow but cleared by the `finally` of whichever job ends first.
* **Decisions older than their use.** A route reads the row, awaits, and acts; the
  IM cycle reads its candidates before it takes the lock; a judgment refreshes the
  shortlist it read before it asked the model; a row of the résumé library is
  clicked at the place a cached list gave it.
* **CancelledError in every await**, from a user's cancel and from the shutdown
  alike, running handlers that write to the database.
* **Partial failure between effect and record.** A message leaves through the
  browser, its row is marked in another session, and a cancel, a crash, a retry or
  an unseen delivery falls between them.
* **A page nobody controls.** Cards come back, dialogs come late and over the next
  card, lists move between the look and the click.
* **Loops that end only by their limits**: fallbacks, recoveries, retries, rounds.
* **Reference counting with failures** in acquiring, using and closing.
* **Crash and restart**: rows that say FETCHING with no job behind them, ids that go on from a file.

## 2. The modules

| Module | What it is |
|---|---|
| `WorkflowControl` | The flags of `workflow_control.py` as operators on three variables |
| `WorkflowLifecycle` | Row, jobs, routes, shutdown and restart of workflows |
| `SharedBrowser` | Abstract: what the pool promises to those who share a browser |
| `BrowserPool` | The pool with its lock, its clients and the viewer; refines `SharedBrowser` |
| `ImOutreach` | Conversations of one workflow under all tasks that write, send and record messages |
| `ImContacts` | Whose chat window a batch of sends or reads works in |
| `SearchFallback`, `SearchLoop` | A fetch: the changes of a search, and the loop over searches, pages and cards |
| `CardDialogs` | The dialogs of the site on the way through a card |
| `ResumeLibrary` | Opening a résumé through folders, pages and three caches |
| `Screening` | Results, shortlists and the archive under everybody who writes them |
| `ReplyJudgment` | The final judgment and its report |
| `CandidateConversation` | The recruiting workflow, one conversation under Temporal, and the ingestion of replies |
| `EventBus`, `LoginSetup`, `PdfImport` | The three services of these names |
| `WorkflowLifecycleProofs`, `BrowserPoolProofs`, `ImOutreachProofs`, `SearchLoopProofs`, `ImContactsProofs` | Theorems about the module of the same name |
| `ServicesProofs` | Theorems about `ReplyJudgment`, `PdfImport`, `LoginSetup`, `EventBus` |
| `CandidateProofs` | Theorems about `CandidateConversation`, `CardDialogs` |
| `ResultsProofs` | Theorems about `ResumeLibrary`, `Screening` |
| `MC...` | Instances for TLC |

`MCServices` and `MCCandidate` put modules that share no state into one instance. A
behaviour is one of theirs (`part` says whose) and the others rest; so the run checks each
in all of its own interleavings and does not multiply them with the others'. They EXTEND their
parts, so that a run and a theorem speak of the same definition. They keep what
belongs together in one place: the services of the API process, and what happens to one
candidate after another.

### 2.1 WorkflowLifecycle

*State.* `status[w]` is the row (`NEW` before it exists, `DELETED` after);
`globalPaused`, `paused`, `cancelled` are the three module variables of
`workflow_control.py`; `job[w]` is a set of slots, each holding one background
task with the await (`pc`) it is suspended in, whether it was registered under
the workflow (`reg`), whether `Task.cancel()` was called and not yet delivered
(`killed`); `imStop` and `monitoring` are the autopilot's stop events and
`_monitor_running`; `route[w]` is the HTTP call that is between two awaits; `up`
says that the process is not shutting down. `fresh` in a job is a history
variable: no cancel since the user asked for the job.

*Actions.* A fetch job runs `FetchBoot` → `FetchMark` → (`FetchGate` → `FetchCard`)* →
`FetchSave`, then screens in the same task (`ScreenMark` … `ScreenSave`); an
exception or a cancellation goes to the handler of its `except` clause
(`JobHandler`), whose `finally` clears the flags. The autopilot is `ImBoot`,
`MonitorBoot`, `MonitorGate`, `CycleBegin`, `CycleMark`, `CycleGate`, `CycleSend`,
`CycleDone`, `ImLeave`. `Deliver` is the arrival of CancelledError in whichever await the task
is in. The routes are `Start`, `TriggerScreening`, `PauseExecution`,
`ResumeExecution`, `CancelRead`/`CancelApply`/`CancelWrite`,
`DeleteApply`/`DeleteClear`/`DeleteCommit`, `StartImAutopilot`,
`StopImAutopilot`/`StopImWrite`; a route with awaits that matter is several actions.
`Shutdown` cancels all tasks; `Restart` loses the memory and reconciles rows.
A crash is a `Restart` without the `Deliver` steps that a shutdown would have had.

*Abstractions.* One route per workflow is between two awaits at a time. Whether the reply
judgment runs (it allows a pause) is a free choice, `judging`. Cards, candidates and
screening results are not represented: a unit of work is `WorkPcs`. A write under way when a task is
cancelled commits or does not (`InFlightWrite`). `Faults` says whether status
writes (`"db"`) and the preparation of the browser profile (`"profile"`) may fail.

### 2.2 BrowserPool and SharedBrowser

*State.* `refs` and `chrome` are the pool's entry (`refs = 0`: no entry), `lock` its
asyncio lock, `viewerRef` and `viewerPage` the viewer's two dictionaries; `pc[u]` is
the await of each client; `lost` collects the tasks whose Chromium was closed under them.

*Actions.* `Begin`, `Acquire` (under the lock: count, or start), `StartDone` /
`StartFail`, `OpenPage` / `OpenFail`, `Finish`, `PageClosed` / `PageCloseFail`,
`Release` (count down, or close under the lock), `CloseDone` / `CloseFail`,
`Cancel`, `ChromeGone`; `ViewerOpen`, `ViewerClose`. `NotAcquired` is the `finally` of
`run_fetch_task` after an acquisition that failed: it releases all the same
(`pc = "bareRelease"`). The IM batches acquire *before* their `try`.

*Abstractions.* One profile: entries of different profiles share the lock and
nothing else. The refinement maps the tasks that rely on the browser to
`holders` and Chromium to `running`; counts, lock and awaits are the implementation's.

### 2.3 ImOutreach

*State.* `conv[c]` are the candidate's conversations, oldest first, each with its status, type,
`need` (need_resume_request) and messages; a message has its writer, status, the reply it answers,
`free` (auto_send_allowed), and as history the number of times it left. `chat[c]` is the
metadata chat_initiated / prior_communication, `level[c]` the latest screening,
`review` the review mode, `imLock` the lock of the workflow. `task[t]` is a coroutine: what it is, where it is, whom it has still
to look at (`items`), which text it is generating (`plan`), which messages it has
still to send (`left`) and has seen leave (`oks`).

*Actions.* Requests: `Contact` (the fetch contacts a card and awaits the outreach),
`Cycle`, `Press` (four buttons), `SendOne`, `SendReply`, `DraftReply`, `Edit`,
`SetReview`. Steps: `Read` (first session), `Acquire` (lock), `Prepare` and `Save`
(a draft is looked up, generated in an await, committed), `Prepared` (review mode looked at), `Deliver`
(one message through the browser), `Mark` (last session), `Store` (scan and judge replies),
`NextOutreach` (enrichment actions one by one). `Abort` is an exception, a cancellation or
a shutdown in any await; it loses the results of a batch half sent.
A task in a cycle goes catch-up → scan → outreach → dialogue (`NextStage`).

*What a scan reads.* `Readable` is what the window yields: an answer of the candidate, or, without
one, **our own last message** (`_read_latest_inbound` falls back to the last bubble of anybody). So in
a conversation with something stored as a reply the automation may be answering itself, and
`FirstContactOnce` speaks only of those with nothing stored.

*Abstractions.* A message's text is its identity. Drafts that one session commits
together are committed one at a time (an `Abort` in between leaves fewer of them in the code).
The marks of one session are one step. `Deliveries` counts pairs of a message and the number of the
time it left, which is the sum of their counts as a set. Pause and stop are `WorkflowLifecycle`'s, the serial
judgment `ReplyJudgment`'s.

### 2.4 ImContacts

*State.* `row[p]` is what the list's row of a person shows, `known[c]` what the database holds of a
candidate, `list` the rows from the top; `todo` the rest of the batch, `pc` where it is with the
first, `picked` whose row was matched, `window` whose chat is open; `sent` and `result` what came of it.

*Actions.* `OpenTab`, `NextOne`, `Look` (the list is read and matched, and read again up to
`Retries` times), `Click`, then `Type` and `Verify`, or `ReadReply`; `Aborts`; `ListChanges` at any
moment. The score of a row is `_score_contact_match`'s: full name, surname, a name within the text, age,
school, degree, nearness of time; a candidate with a masked name asks for a higher threshold.

*Abstractions.* A school is shown whole or not at all (the score for a common prefix is left
out); marks (`data-hr-im-contact`) stay with their rows; that the window follows the click is the
variable `follows`, an assumption of the property since no code checks it.

### 2.5 SearchFallback and SearchLoop

*State.* `band` and `words` are the current search, `triedBands` and `triedWords` what was tried;
`seen`, `kept`, `captured`, `failed` and `contacts` what came of the cards; `batch` the counters of
one `extract_from_popup_cards`, `monitor` those of its `ExtractStuckMonitor`; `overlay` what covers the page.

*Actions.* `Search`, `NoResults`, `StartBatch`, `Look` (one turn of the card loop: observe, recover,
pick a card, scroll, turn the page), the outcomes of a card, and `Decide`: enough, a new band,
fewer keywords, or the end. Each look at the page is a choice; a card is a pair of candidate and
appearance, and a candidate may come back as another card. `Cancel` is the flag of the cancel route, `BrokenOff` its
`task.cancel()` (and a shutdown, or a page that fails outside a `try`): it arrives in any await, also of a card, whose
candidate may be identified, contacted or counted by then and on no list. `CardKept` counts first and waits
afterwards, and an exception in that wait puts a kept candidate among the failed as well.

*Abstractions.* Years are intervals, keywords the set of their words, with the protected ones, their compounds and
the screening-only ones as constants. Filling in the search form is one step. The tasks of the outreach after a
card are `ImOutreach`'s.

### 2.6 CardDialogs

*State.* `layers` is the page as a stack of layers over the list, each with its candidate; `at` the
await of `_process_one_card`; `tracker`, `caller`, `cycle` the job dialog's handler, whose
tracker is a global of the module; `exits` the way back; `folder`, `chats` and `owed` the
site: who is collected, who was asked under which job, whose dialog is still to come; `record` our mark.

*Actions.* `Judge` (open, read, screen), `Favorite`, `ChooseFolder`, `GotIt`, `Chat`, `Mark`; the handler
`HandlerTurn`, `HandlerSkips`, `HandlerGivesUp`, `HandlerEnds`; `Recover`, `Clear`; `Leaves`, `Arrives`,
`Dismiss`, `Forces`, `Forcing`, `ForceList`; `SiteShows` puts up a dialog that comes late,
`OtherFetch` resets the tracker for a fetch of another workflow.

*Abstractions.* A click does what the site makes of it, nothing included. Which folder is chosen, and how a
button is found, is left out; the job is the configured one, the first of the list, or none.

### 2.7 ResumeLibrary

*State.* `list` is the site's library; `shown` the tab: the folder and page selected, the rows in it, and whether they are
theirs yet (`settled`). `inPlace` says whose scanned tops still hold; `folderCache`, `rowCache`, `matchCache` are the three module
dictionaries; `request` is the one request served, `outcome` how the last one ended; `known` is history: whose rows were read when they were
the page's own, nobody having turned the tab since.

*Actions.* `Ask`; `Navigate`, `SelectFolder`, `WaitForRows` (any rows will do, as in `_wait_right_list_ready`); `GoToCached`,
`ScanCached` and, when that fails, `BeginAgain`; `ScanPage`, `NextPage`; `Locate` and `Click` (the row is found and, an await later, whatever is in
its place is clicked), `Retry` with a refresh that the cache answers; `GivesUpOpening`. On the site `RowsArrive` some time after
a click, `Scrolls`, `ListChanges` (candidates are collected or removed) and `TabTurned`. The match is
`find_resume_library_row`: each field scored, all above their thresholds, ranked, and ambiguous when two are too close.

*What goes stale.* A click selects at once and leaves the old rows until the new ones arrive, so old rows can be scanned and are
then cached under the new key. The top of a row is its place in the list until anything scrolls, the clicks of the code included;
afterwards `_find_row_locator` may take any row with the same surname that shows the age (`LooksLike`), and before that the nearest
within one row, 80 px being about one. A page number that cannot be read (`"unnumbered"`) makes a
click on "next" pass unchecked and the page count as the first. Every fault of `Faults` is on in the run and allowed in the theorems.

*What is claimed of it.* The name of the person who opens is right, always. The person fits in every field, and the rows in the cache are the
tab's, **where the rows read were the page's own and have not moved since** (`sure`, `known`); without that the
code can open a look-alike, and section 3.3 says so. The conditions are about what the site did, which the code cannot see.

*Abstractions.* Education is left out of the score; names of companies pass for each other by a given relation; the ages a row
shows anywhere in its text are the set `numbers`.

### 2.8 Screening

*State.* `person` says whom each snapshot shows, `results` are the rows of
candidate_screening_results in order of creation, `lists` the shortlists, `shortlist` the workflow's,
`archive` the talent archive; `job` and `judges` the tasks that have read and not yet written.

*Actions.* `SaveSnapshot`, `Screen` (a card); `FinalizeReads`/`FinalizeWrites` and `BatchReads`/
`BatchCommits` with `JobMarks`/`JobFails`; `JudgeReads`/`JudgeWrites`/`JudgeFails` for the judgment,
which refreshes the list, and the scan, which does not.

*Abstractions.* The archive is updated row by row in the code (`upsert_from_screening`); `Talent` says what comes of
all rows: the best score so far and that of the last row, of those not eliminated. A model's answer is a score and a level out of `Outcomes`. A session that holds SQLite's
write lock from its first write is one step.

### 2.9 ReplyJudgment

*State.* `running`, `stopEvent`, `phase`, `reportReady` are the runner's maps; `stage`, `toRead`, `unread`, `chosen` the
serial reading; `covered` what the report in the making takes into account, `reported` what the stored one does; `stored`
the replies in the database, `screened` how often each candidate was screened for one; `inbound` what a scan has read. `judged` counts the
runner's judgments of each reply, and `rescored` says whom a scan screened since the report was begun.

*Actions.* `StartRoute`, `Stop`, `RunBegins`, `List`, `Read`, `Judge`, `Enrich`, `Report`, `Persist`, `Stored`, `RunFinishes`, `Fail`,
`JudgmentRestart`; the scan for unread replies beside the runner, `ScanReads` and `ScanWrites`; and `Answer` by candidates.
A reply is the n-th of a candidate, and only the latest can be read; two with the same text are one to the code and so to the model.

*The scan* reads chats and stores replies and screenings in one transaction, whatever the runner does, also while the report is
ranked, stored or announced. Nothing takes the announcement back, so `ReportIsFresh` speaks of the candidates no scan has screened since the report was begun.
One scan is under way at a time (`MaxScans` in all); the judging of its own agent is part of `ScanWrites`, which stores an answer or does not.

### 2.10 CandidateConversation

*State.* `parent` is the activity RecruitingWorkflow waits for, `pc` and `state` the child's, `latest` the signalled
reply, `conv` the database row, `chat`, `ingested`, `posts` the replies on their way; `delivered` and `retries` are history.

*Actions.* `Recruit` and `Converse` are the turns of the two Temporal workflows, `Signal` their signal,
`CandidateWrites` the site, `Scan` and `Ingest` the worker and the route it posts to. `SendAgain` is an activity that is retried
after its message had left. When the parent closes its child is terminated (no parent_close_policy is given).

### 2.11 EventBus, LoginSetup, PdfImport

`EventBus`: `log` the file, `buffer` and `counter` the memory, `stream[c]` a connection with its queue and backlog; `Emit`,
`Poll`, `Connect`, `Send`, `Disconnect`, `EventRestart`. An event is its id. A write is done, lost, or leaves a broken line (`Written`), and a
read shows the file or nothing (`Reads`); a broken line hides the whole file (`Persisted`). `failed` remembers that either happened. `behind` says that a
client was cut off before an event older than the id it will ask from, which a backlog out of order makes possible; `owed` is
what a connection owes: **everything the file showed**, less what the client asked to skip only when the file has failed or the client is behind (`Owed`).
`Only` is a `SelectSeq` without an operator as its argument, which the provers could not expand.

`LoginSetup`: `login` and `window` the session, `op[o]` a request with its await, `open` the windows on the screen; a request
is one step up to its first await, then one per await, and any two overlap, as the code has no lock here. HR may close a window by hand. The first page
(`NewPageFails`), the login page (`GotoFails`) and a close may fail, the error of a close being swallowed and the window
forgotten (`CloseWindow`). `strays` collects the windows the code loses so, or by clearing the name of a window that was set while
it awaited the close of another; `NoStrayWindow` says that it loses no others.

`PdfImport`: `file[f]` the await of each file's `process_one`, `seen` the hashes, `progress` the job's dictionary, `shown`
its last written copy, `staged` the directory, `saved` the candidates; `Hash`, `Extract`, `Screen`, `Save`, `Count`, the
ranking, `Cancel`, `Restart`, and the ranking HR asks for again with a progress dictionary of its own.

## 3. The runs

| Run | Instance | What it shows |
|---|---|---|
| `life_one` | 1 workflow, 2 jobs, 2 rounds, profile faults; all routes, shutdown, crash | `PauseFlagsAgree`, `MonitorFlagExact`, `FetchRowsAreOwned`, `DeletedStaysDeleted`, `CancelStopsPipeline` in every interleaving |
| `life_live` | 2 jobs, 4 user requests, fair | `CancelledJobsEnd`, `ResumedJobsEnd`, `FetchingIsLeft` with jobs that interfere |
| `pool_leaks` | 2 fetches, 2 IM tasks, viewer, closer; page and close faults | `RefsCoverHolders`, `NeverClosedInUse`, and the refinement `SharesBrowser`: counts leak, browsers are not lost |
| `pool_live` | 1 fetch, 1 IM task, every fault and cancellation, fair | `LockServesAll`: whoever asks for the lock, to take or to release, is done with it |
| `outreach` | 1 candidate, 2 tasks, 2 started tasks | `NeverOverstated`, `ReviewHolds`, `OneConversation`, `FirstContactOnce` |
| `search` | 2 candidates, 3 cards, target 2, two requests, 4 words | `WithinRequest`, `EachCandidateOnce`, `AccountedFor`, `TargetAndReason`, `SearchAdvances`, `FetchEnds` |
| `services` | event log with a failing file, login with overlaps and failing windows, PDF import, judgment beside a scan, contacts; one at a time | `NothingSkipped`, `IdsNeverReused`; `NoStrayWindow`, `VerifyingEnds`; `NoTwins`, `CountsAdd`; `JudgedOnce`, `ReportIsFresh`, `RunEnds`; `OnlyNamesakes` |
| `candidate` | conversation, card dialogs, résumé library with late rows, scrolling and every fault, screening; one at a time | `AskedAtMost`, `ConversationEnds`; `CollectedFirst`, `CardEnds`; `OpenedQualifies`, `CacheIsShown`; `ListSound`, `ArchiveKeepsBest` |
| `v_pause`, `v_pool_start`, `v_held`, `v_stream` | small | violated: see 3.3 |

The liveness properties are `CancelledJobsEnd`, `ResumedJobsEnd`, `FetchingIsLeft`, `LockServesAll`, `FetchEnds`, `VerifyingEnds`,
`RunEnds`, `ConversationEnds` and `CardEnds`; `SharesBrowser` is a refinement; `DeletedStaysDeleted`, `CancelStopsPipeline`,
`SearchAdvances` and `IdsNeverReused` are about steps. The type invariants of the modules are conjuncts of the proofs and no runs are spent on them.

### 3.1 Bounds

* `Slots`: jobs of one workflow at a time. Two are needed for a job that clears the flags of
  another and for two monitors; the second slot of a fetch is also what a re-screening takes.
* `MaxRounds` (lifecycle): cards, screenings and cycles per job; two, so that a cancel can fall between two.
* `MaxRequests` (life_live, v_pause): user requests; four suffice for start, pause, cancel or
  delete, and resume. With the budget spent and all jobs ended nothing more can happen, hence
  `CHECK_DEADLOCK FALSE` there.
* `MaxRefs`: no task begins while the leaked count exceeds it. With leaks the count can
  be stuck at the bound, hence `CHECK_DEADLOCK FALSE` in the pool runs.
* `MaxStarts`: tasks begun in ImOutreach. Two: the interference of any two of them, a cycle being four
  stages of one; the violation that needs a third says three. Contact with a candidate of
  prior communication takes no start.
* Search: three cards of two candidates give a candidate that comes back in another appearance; every
  limit of the loops (attempts, scrolls, no progress, overlay, same state) two or three and one recovery, so that each is
  reached and each is left in time; a request of all bands and one of two; four words, one of each class.
  The real limits are larger numbers in the same guards.
* Services: a buffer longer than a queue, as in the code (2000 and 200), and both shorter than the four events; one console that leaves and
  comes back, a poll doing to the memory what others would; one restart. Two requests for the login session at once, three windows, so that one is lost and the
  profile is used again. Three files, two at a time, with copies, other files of the same text and unreadable ones; one ranking HR asks for; writes that fail.
  Two candidates with two replies, two runs of the judgment and one scan, restarts. Three contacts, two of one surname and one whose preview
  mentions it, each row full or masked; a batch of two; one change of the list; two tries of six.
* Candidate: two rounds, two replies, one send tried again, each reply posted once; two cards, every limit one more than what it takes to work;
  four candidates, of whom two pass for each other and one differs from them in a field, on two pages of two in one folder, another folder empty;
  one change of the folders and two requests, so that the second meets the caches of the first, for one candidate with look-alikes on the first
  page and one on the second;
  two persons over two snapshots, one score on each side of the minimum, a shortlist of two, one job and one judgment. It is the largest run (1.4 million states).
* Symmetry: slots, fetchers, messengers and tasks are interchangeable; it is used in runs with safety properties only.
* In `search`, `services` and `candidate` a fetch, a request or a conversation ends for good and the budgets run out: `CHECK_DEADLOCK FALSE`.

### 3.2 Fairness

`WF` of every job and route step: asyncio runs each ready task, and the awaits it stands in
(database, browser, sleep) return or time out. Nothing is assumed of users: the properties about
ends of jobs are conditional on `<>[]~globalPaused`. For the pool's lock, `SF` of acquiring and
releasing: `asyncio.Lock` serves its waiters in order, so one who waits while
the lock keeps becoming free gets it. `WF` of the fetch, of a card, of a login request and of the judgment's runner: every call on the page
and every call of a model has a timeout. `WF` of the conversation: Temporal runs what is ready and its waits have timeouts; no
candidate is assumed to answer. The outreach run has no fairness and no liveness property.

### 3.3 Where the code and its texts disagree

Stated and run:

* `v_pause`, `PauseIsUsers`: deleting a workflow pauses every other one. `request_cancel` sets the global pause and nobody lifts it.
* `v_pool_start`, `NeverClosedInUse`: a fetch whose browser did not start releases a reference it never took, and closes Chromium under an IM task. A fetch cancelled while it waits for the pool's lock does the same (`Faults = {"cancel"}`).
* `v_held`, `HeldBackStaysHeld`: the automatic outreach sends whatever unsent message the conversation has, also an answer held back for HR.
* `v_stream`, `StreamsStart`: a console that connects to a workflow with more buffered events than a queue holds (200) waits in the replay for ever, and gets nothing.

Read off the models and not run:

* *Lifecycle.* A cancel with no job alive leaves its flag, and the next screening ends at its first checkpoint (`workflows.py:894`).
  The handler that says "server shutdown" also runs for a user's cancel (`job_runner.py:132`).
  The cancel decides from a status read before an await; a screening cancelled in between leaves its row in SCREENING (`workflows.py:900`).
  Stopping the IM agent does not lift a global pause although the answer says that fetching may go on (`followup.py:208`).
  CONVERSATIONS_STARTED can overwrite FETCHING or SCREENING, read one await earlier (`im_autopilot.py:94`).
  An IM start by hand is spawned without `workflow_id` and survives a cancel (`followup.py:262`).
  The profile is prepared before the `try`, so a profile that cannot be prepared leaves the row CREATED until a restart (`job_runner.py:36`).
  `patch_config` reads a JSON column, changes it and writes it back; of two at once one is lost.
* *Pool.* An IM batch whose page does not open never gives its reference back (`im_chat_runner.py:322`); with such leaks Chromium keeps running.
* *Outreach.* Two preparations at once, one of them by a button, make two conversations for a candidate, and every later lookup of the pair raises (`followup_conversation_service.py:452`, whose docstring allows parallel calls).
  Catch-up writes to candidates of prior communication, which the outreach after a card skips (`im_autopilot.py:115`, `:496`); it does not retry a failed send, whose message counts as pending (`outreach_draft_utils.py:12`); and a follow-up conversation that needs a résumé gets the request in every cycle, since only a conversation of type resume_request counts as asked.
  Each scan stores the same reply again under a new id, and each copy is answered (`followup_conversation_service.py:860`).
  Without an answer in the window our own message is stored and judged as the candidate's (`im_chat_runner.py:260`), although there is an outcome for "no new reply" (`:485`).
* *Contacts.* A namesake whose row has a near time (14 + 20 points) outscores the candidate's full name without one (25), so `OnlyNamesakes` is what holds, and not that the text goes to the candidate. Nothing checks that the window followed the click; the check after a send passes on an older message of the same beginning; rows outside the viewport are not listed.
* *Search.* A request like "7年", "7-7年" or "7年以上" falls back to 3-5 years; a search without any result never relaxes its keywords; a candidate that was saved and could not be contacted is not counted. A cancel that arrives inside a card loses its candidate, contacted or not, from both lists (`extract_popup.py:1878`; only `Exception` is caught at `:2232`).
* *Dialogs.* With no job position that matches, the dialog is dismissed, the handler returns True, and the candidate is recorded as contacted although no chat began ("开聊成功后写入 metadata", `extract_popup.py:1744`). A job dialog later than 0.9 s is taken for success; one met on the way back is answered without the job's title, with the first. `_is_list_interactive` says "无残留浮层" (`:640`) and ignores two kinds of layers, which then cover the next card. `_wait_contact_confirmed` is not called.
* *Résumé library.* A folder that is reused is not reloaded, so a candidate collected meanwhile is not found in a folder of one page. `_refresh_matched_row` answers from the cache though its comment (`:1448`) says that it relocates, so a retry keeps a top that its own scrolling has made stale, and a namesake of another company within 80 px, or anywhere, can be opened (`:1429`). Rows of the old folder or page that are still shown when the wait ends are scanned and cached under the new key (`:1024`, `:1084`), and a page number that cannot be read lets a click on "next" pass unchecked (`:1089`). With an unrecognised selection (`"verify"`) the old folder's cache stays; if the tab is turned by hand (`"byHand"`) it is not noticed.
* *Screening.* The judgment refreshes the shortlist it read before the model was asked (`followup_conversation_service.py:241`), not the current one; the scan stores its result and refreshes none; a batch writes round 1 again and lists its own results, whatever judgments say, one person twice if there are two snapshots. Of two rows of the last round `get_latest_for_candidate` takes any, `list_latest_by_workflow` the newest. A score of 0 becomes 65 on judgment.
* *Judgment.* A second reply with the same text is never judged; a stop between the spawn and the clear is lost; a stop during the report's commit leaves a stored report that the status denies; what a scan stores after the candidates were listed is missing in the report that is announced.
* *Events.* A client that connects gets the buffered events twice, from the backlog and from its queue. Lines missing in memory are appended at the end, out of order (`workflow_events.py:203`): after a restart and an event the console shows none of the older ones, since it takes ascending ids only (`LogConsole.vue:51`, `:80`), and a client that is cut off in such a backlog asks from the newer id and never gets them. One line that cannot be read hides the whole file and ids start over (`:84`); a write that fails lets an id be given again after a restart (`:98`), which a console that knows the id then skips.
* *Login.* A window stays on the screen with nobody knowing it, and locks the profile, when its close fails (`login_init.py:137`), when `new_page` or the login page fails after the launch (`:148`), and when a request clears the name of a window that another opened while it awaited a close. `clear_and_relogin` while a login is waiting closes the window and opens none, because `start_login_init` returns at once, against its docstring (`:180`, "清除本地登录缓存并打开猎聘登录页。").
* *PDF import.* A copy of a file that failed counts as a duplicate; a failure before "processing" takes another file out of the count; a failed write of "failed" makes the batch give up while its other files go on; ranking again writes a stale copy of the counts; a crash or a cancel leaves ranking_state at "ranking".
* *Temporal.* `conv.temporal_workflow_id` is never set, so the API never signals; the child is terminated when the parent closes, which is right away; a retried send sends again; a reply signalled during the send is lost (`candidate_conversation_workflow.py:80`) and the conversation waits for the timeout; the decision taken inline is overwritten with NO_REPLY; a scan whose request times out posts the same reply again, and it is processed twice (the instance has `MaxPosts = 1`).

## 4. What is proved

For every value of the constants within the assumptions each module names. The proofs need
no bound of section 3.1. Each inductive invariant was first checked by TLC on the instance of its run.
All safety properties and all properties about steps of the passing runs have a theorem, and so has the refinement.

`WorkflowLifecycleProofs` (any set of workflows and slots, any `MaxRounds > 0`, any `Faults`):

* `TypeCorrect`, and with it `JobsOK`: each job's kind fits the code it is in, and **a fetch or
  screening job that a cancel has seen is killed or in its shutdown handler**. That last part is
  what makes the cancel theorem inductive: the flag alone may have been cleared by another job.
* `PauseFlagsAlwaysAgree`: inductive with the type invariant; each operation of the flags is one lemma case.
* `MonitorFlagAlwaysExact`: inductive with `JobsOK`, which ties the pcs of the loop to the kind.
* `DeletionIsFinal`, `CancelIsEffective`: action properties from the same invariant. All of these
  also cover failing status writes (`"db"`), which the runs leave out.
* `RowsAreOwned` (`FetchRowsAreOwned`), from `OwnershipInv`: a fetch before its first write is alone and its row
  says CREATED, unless a cancel has killed it; a row that says FETCHING or CREATED has a live fetch, a route mid-way or a shutdown. Which write a job makes and whether it goes on, marks its row,
  leaves it or ends silently is one lemma (`JobRowStep`), whatever the kind of the job. With failing
  writes the claim is false (a job ends without its last write), hence its condition `"db" \notin Faults`.

`BrowserPoolProofs`, under `NoStartFaults` (browsers start and jobs are not cancelled; the
run `v_pool_start` shows that the claims fail without it), for any number of tasks:

* `PoolInv` is `TypeOK`, `RefsCoverHolders`, and three facts about the lock: who holds it is
  starting or closing; who starts found no reference; who closes left no holder. Without the lock facts the
  count is not inductive, because between the close and the removal of the entry it is off by one.
* `CountAlwaysCovers`, `NobodyLosesTheBrowser`, `PoolTypeCorrect` follow; `PoolSharesBrowser` maps every
  step to `Take`, `Drop`, `HandOver`, `Start`, `Stop` or a stutter of `SharedBrowser`.

`ImOutreachProofs` (any candidates, any finite set of tasks: `TasksAssumption`, for counting; any number of starts). Every
action has one lemma that says which fields of the task and of the conversations it changes; the invariants look at these only.

* `OutreachTypeCorrect`, from `OutreachInv` = `TypeOK` and `TasksInv`: what a task plans, has left to send
  or has seen leave exists in the conversations, whatever other tasks appended meanwhile, and fits its kind.
* `ReviewIsKept` (`ReviewHolds`), from `ReviewInv`: while the review was never off, no message left
  by automation and no task of it comes to send; the dialogue, which reads the setting once, read it as on.
* `RecordIsCovered` (`NeverOverstated`), from `RecordInv`: what is marked as sent **plus what tasks have seen leave and not marked
  yet** is at most what left. Without that credit the marks of the last session are not covered; two tasks that
  send the same draft each have a delivery of their own.
* `OneConversationOpened` (`OneConversation`), from `AutoInv`: `Tidy` (one conversation, one open draft) and `Alone` (outreach is prepared and
  sent by the holder of the lock, and planned where none is open), as long as HR pressed no button.
* `FirstContactIsOnce` (`FirstContactOnce`), from `FirstInv`: `Once` (a message that left and is still pending is in the hands of the task
  that sent it) and `Unsent` (what a task is about to send has not left), as long as in addition no delivery was lost.

`SearchLoopProofs` (any candidates, cards, requests, words and limits; `RequestsAssumption`: a request is a range below
`Forever` and has finitely many keywords; `PageAssumption`), from `SearchInv` = `TypeOK`, `PlanInv`, `CardsInv`, `CountInv`:
`SearchStaysWithin`, `CandidatesCountOnce`, `EverybodyAccountedFor`, `TargetRespected`, and the action property `SearchesAdvance`.
`PlanInv` says that the band is one of the request's and the indispensable words are left; `CardsInv` that
who was not identified is nowhere, neither listed nor contacted; `CountInv` that a card is taken up below the target only. The cancellation of the
task in any await (`BrokenOff`) is a case of each: `EverybodyAccountedFor` then allows one identified candidate on no list, the one in hand.

`ServicesProofs`:

* `RepliesJudgedOnce` from `OnceInv` (a reply being judged was never judged; a judged one is stored, but a scan may have stored others); `ReportsAreFresh`
  from `ReportInv`: while a report is made, stored and announced nobody screens but scans, and whom they screen is in `rescored`.
* `TextsAreImportedOnce` (`NoTwins`): a file claims its text when the hash is registered, and no two claim the same;
  `SourcesDoNotRemain`: the staging directory is empty when the job is over.
* `ImportsAreCounted` (`CountsAdd`), from `CountedInv`: the counts are the sizes of the sets of files that ended in
  each way, unless a write was lost; a file that is saved has still to be counted or is over.
* `NoWindowIsLost` (`NoStrayWindow`), for any overlap of requests and any faults, from `WindowInv`: there is one window at most, and unless it is
  lost in a way `strays` records, it is named or its page is loading.
* `IdsAreNew` (`IdsNeverReused`), from `IdsInv`: whatever fails, the counter is not below an id of this process; and as long as nothing has
  failed the lines of the file are 1, 2, 3 ... and the counter is that of the last or unset. So within a process ids only grow, and over
  restarts they do unless the file has failed; with a failure they are given again, which the claim says by its condition.
* `NothingIsSkipped` (`NothingSkipped`), from `StreamInv`: each event owed is with the client, in its backlog or in its queue, unless the queue was full; and
  as long as nothing failed and the client was not cut off behind, all that the file shows is owed or, while it is away, already got or refused up to the id it
  will ask from. Sequences are looked at as the sets of their members.

`CandidateProofs`:

* `NobodyIsPestered`, that is `AskedAtMost`, from `CountInv`: what was
  delivered is bounded by the rounds that are over, the reminder and the retries, with one more
  between a send and the end of its round.
* `DialogsCollectFirst`, for any candidates and any limits. From the click on a card to the
  confirmation of its collection every layer of the collection is its own, because a résumé only opens over a
  bare list; and every job dialog, on the page or still to come, belongs to somebody who lies in the folder.

`ImContactsProofs`: `BatchesReachNamesakes` (`OnlyNamesakes`): a row that does not bear the name scores nothing, and from the match
to the result the picked row is the target's.

`ResultsProofs`:

* `TheRightResumeOpens` (`OpenedQualifies`) and `CachesAreCurrent` (`CacheIsShown`), from `LibraryInv`, for any `Faults`, any lateness of rows and any scrolling.
  `SiteInv`: of the pages after the one the tab is on no rows known to be their own are kept, and of this one only those it shows (`Fresh`); that is inductive because
  pages are only turned forward, and a click on a folder forgets its rows. `RequestInv`: the row about to be clicked qualifies, and if it
  is known to be the page's and nothing scrolled, it is at its top and, once located, in its place (`Stands`).
* `ListsAreSound` (`ListSound`) and `BestIsKept` (`ArchiveKeepsBest`), from `ScreeningInv`: every list, also one that a job or a judgment has
  made and not written yet, is in order, within its length and of snapshots that exist. That ranking a finite set gives a sequence
  in order, and that a row is its person's best, comes from the lemma `FirstOfMany` (finitely many things have a first in any total order).

Induction over the numbers is used in the form of a least counterexample (`WFMin` of the library), since the theorems with an
operator for a parameter cannot be instantiated here.

Only model-checked: the liveness properties `CancelledJobsEnd`, `ResumedJobsEnd`, `FetchingIsLeft`, `LockServesAll`, `FetchEnds`, `VerifyingEnds`,
`RunEnds`, `ConversationEnds` and `CardEnds`, under fairness, which the prover does not reach. The four violated properties are TLC's as well. That
`Talent` says what the code's row-by-row update computes, and `Only` what a `SelectSeq` does, is read off the definitions and not
proved: it would need induction over the data.

## 5. Properties and the hazards they are for

`PROJECT.json` lists each hazard at its line with the properties that would catch it. In short: flags
and jobs (`PauseFlagsAgree`, `CancelStopsPipeline`, `MonitorFlagExact`, `FetchRowsAreOwned`, `DeletedStaysDeleted` and the three liveness
properties); references (`RefsCoverHolders`, `NeverClosedInUse`, `SharesBrowser`, `LockServesAll`); effects and
records (`NeverOverstated`, `FirstContactOnce`, `OneConversation`, `ReviewHolds`, `AskedAtMost`, `CollectedFirst`, `AccountedFor`,
`EachCandidateOnce`, `JudgedOnce`, `NoTwins`); whose it is (`OnlyNamesakes`, `OpenedQualifies`, `CacheIsShown`); what is shown (`ListSound`,
`ArchiveKeepsBest`, `ReportIsFresh`, `CountsAdd`, `NothingSkipped`, `IdsNeverReused`); and loops (`SearchAdvances`, `FetchEnds`, `CardEnds`, `ConversationEnds`, `RunEnds`, `VerifyingEnds`).

## 6. Not modelled

* The page itself: selectors, the search form, the city picker, the scan of unread chats; what is read from a résumé's text, and how a fingerprint is computed from it. They have no state that another component relies on, but for the parts above, and cannot be stated without the third party's page.
* Prompts and the parsing of language-model agents (search intent, preferences, criteria, résumés): their answers are choices.
* `_run_url_direct_fetch`, a fetch of a list of addresses without search or fallback; `outreach_service`'s drafts for a whole shortlist and the start of conversations for it.
* `clear_workflow` of the event bus; retries of Temporal activities other than the send; the retry of a locked SQLite write, whose session rolled back before.
* `keep_awake` (one system call of Windows under a thread lock), the second event loop of Windows, the web console, migrations, scripts and deployment files.
* Two processes of the API at once: flags, locks and the pool are dictionaries of one process.
