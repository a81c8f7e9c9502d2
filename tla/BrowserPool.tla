----------------------------- MODULE BrowserPool -----------------------------
(***************************************************************************)
(* The Chromium of one browser profile and the tasks that share it:        *)
(* services/fetch_worker/browser_pool.py, its two kinds of clients         *)
(* (run_fetch_task of runner.py; the IM batches of im_chat_runner.py) and  *)
(* the resume library viewer (resume_library_viewer.py), whose open and    *)
(* close run as two tasks.  Entries of different profiles are independent  *)
(* but for the pool's lock.                                                *)
(*                                                                         *)
(* A step is what a task does between two awaits; pc names the await.      *)
(***************************************************************************)
EXTENDS Naturals, FiniteSets

CONSTANTS Fetchers,   \* fetch tasks
          Messengers, \* IM tasks
          viewer,     \* the task that opens the viewer's page
          closer,     \* the task that closes it
          nobody,     \* holds the lock when it is free
          MaxRefs,    \* bound: no task begins while the count exceeds it
          Faults      \* what may go wrong, see FaultsAssumption

ASSUME FaultsAssumption == Faults \subseteq {"start", "page", "pageClose", "close", "cancel"}

Jobs == Fetchers \union Messengers
Users == Jobs \union {viewer, closer}

ASSUME MaxRefsAssumption == MaxRefs \in Nat

ASSUME UsersAssumption ==
  /\ IsFiniteSet(Fetchers) /\ IsFiniteSet(Messengers)
  /\ Fetchers \intersect Messengers = {}
  /\ viewer # closer /\ viewer \notin Jobs /\ closer \notin Jobs
  /\ nobody \notin Users

VARIABLES pc,         \* where each task is suspended
          refs,       \* reference count in _pool, 0 when there is no entry
          chrome,     \* the Chromium of the entry runs
          lock,       \* who is inside browser_pool._lock
          viewerRef,  \* _browser_refs of the viewer
          viewerPage, \* _viewer_pages holds a page that is not closed
          lost        \* tasks whose Chromium was closed under them

vars == <<pc, refs, chrome, lock, viewerRef, viewerPage, lost>>

Pcs == {"idle", "acquire", "starting", "opening", "using", "closingPage",
        "release", "bareRelease", "closing"}

(* Tasks that took a reference and still rely on it.                       *)
Holders ==
  {u \in Jobs : pc[u] \in {"opening", "using", "closingPage", "release"}}
    \union (IF viewerRef THEN {viewer} ELSE {})
    \union {u \in {closer} : pc[u] = "release"}

Goto(u, p) == pc' = [pc EXCEPT ![u] = p]

Init ==
  /\ pc = [u \in Users |-> "idle"]
  /\ refs = 0
  /\ chrome = FALSE
  /\ lock = nobody
  /\ viewerRef = FALSE
  /\ viewerPage = FALSE
  /\ lost = {}

-----------------------------------------------------------------------------
(* acquire_browser                                                         *)

Begin(u) ==
  /\ u \in Jobs /\ pc[u] = "idle" /\ refs <= MaxRefs
  /\ Goto(u, "acquire")
  /\ UNCHANGED <<refs, chrome, lock, viewerRef, viewerPage, lost>>

(* What follows acquire_browser at once: the viewer notes its reference.   *)
Acquired(u) ==
  /\ Goto(u, "opening")
  /\ viewerRef' = (viewerRef \/ u = viewer)

(* Mutant of Acquire: an entry that is there is used without counting.     *)
AcquireUncounted(u) ==
  /\ pc[u] = "acquire" /\ lock = nobody
  /\ \/ refs > 0 /\ Acquired(u) /\ UNCHANGED <<refs, lock>>
     \/ refs = 0 /\ Goto(u, "starting") /\ lock' = u /\ UNCHANGED <<refs, viewerRef>>
  /\ UNCHANGED <<chrome, viewerPage, lost>>

Acquire(u) ==
  /\ pc[u] = "acquire" /\ lock = nobody
  /\ \/ refs > 0 /\ refs' = refs + 1 /\ Acquired(u) /\ UNCHANGED lock
     \/ refs = 0 /\ Goto(u, "starting") /\ lock' = u /\ UNCHANGED <<refs, viewerRef>>
  /\ UNCHANGED <<chrome, viewerPage, lost>>

StartDone(u) ==
  /\ pc[u] = "starting"
  /\ refs' = 1
  /\ chrome' = TRUE
  /\ lock' = nobody
  /\ Acquired(u)
  /\ UNCHANGED <<viewerPage, lost>>

(* Leaving acquire_browser with an exception: run_fetch_task's finally     *)
(* block releases all the same, the others have no try block there.        *)
NotAcquired(u) == Goto(u, IF u \in Fetchers THEN "bareRelease" ELSE "idle")

StartFail(u) ==
  /\ "start" \in Faults
  /\ pc[u] = "starting"
  /\ NotAcquired(u)
  /\ lock' = nobody
  /\ UNCHANGED <<refs, chrome, viewerRef, viewerPage, lost>>

-----------------------------------------------------------------------------
(* The page                                                                *)

(* BrowserManager.new_page, which starts Chromium again when a failing     *)
(* close had left the manager without a context.                           *)
OpenPage(u) ==
  /\ pc[u] = "opening" /\ u \notin lost
  /\ Goto(u, IF u = viewer THEN "idle" ELSE "using")
  /\ viewerPage' = (viewerPage \/ u = viewer)
  /\ chrome' = TRUE
  /\ UNCHANGED <<refs, lock, viewerRef, lost>>

(* It raises: run_fetch_task releases, the IM batches and the viewer do not*)
OpenFail(u) ==
  /\ pc[u] = "opening"
  /\ "page" \in Faults \/ u \in lost \/ ~chrome
  /\ Goto(u, IF u \in Fetchers THEN "release" ELSE "idle")
  /\ lost' = lost \ {u}
  /\ UNCHANGED <<refs, chrome, lock, viewerRef, viewerPage>>

(* The work with the page is over, or raised.                              *)
Finish(u) ==
  /\ pc[u] = "using"
  /\ Goto(u, "closingPage")
  /\ UNCHANGED <<refs, chrome, lock, viewerRef, viewerPage, lost>>

(* The finally block up to release_browser; an exception of page.close is  *)
(* swallowed by _close_im_page and by the closing of the viewer.           *)
PageClosed(u) ==
  /\ pc[u] = "closingPage"
  /\ IF u = closer
       THEN Goto(u, IF viewerRef THEN "release" ELSE "idle") /\ viewerRef' = FALSE
       ELSE Goto(u, "release") /\ UNCHANGED viewerRef
  /\ UNCHANGED <<refs, chrome, lock, viewerPage, lost>>

(* run_fetch_task does not swallow it, and its release_browser is skipped. *)
PageCloseFail(u) ==
  /\ u \in Fetchers /\ pc[u] = "closingPage"
  /\ "pageClose" \in Faults \/ u \in lost
  /\ Goto(u, "idle")
  /\ lost' = lost \ {u}
  /\ UNCHANGED <<refs, chrome, lock, viewerRef, viewerPage>>

-----------------------------------------------------------------------------
(* release_browser                                                         *)

(* Mutant of Release: the browser is closed one reference too early.       *)
ReleaseEarly(u) ==
  /\ pc[u] \in {"release", "bareRelease"} /\ lock = nobody
  /\ \/ refs = 0 /\ Goto(u, "idle") /\ UNCHANGED <<refs, lock>>
     \/ refs > 2 /\ refs' = refs - 1 /\ Goto(u, "idle") /\ UNCHANGED lock
     \/ refs \in {1, 2} /\ lock' = u /\ Goto(u, "closing") /\ UNCHANGED refs
  /\ lost' = lost \ {u}
  /\ UNCHANGED <<chrome, viewerRef, viewerPage>>

Release(u) ==
  /\ pc[u] \in {"release", "bareRelease"} /\ lock = nobody
  /\ \/ refs = 0 /\ Goto(u, "idle") /\ UNCHANGED <<refs, lock>>
     \/ refs > 1 /\ refs' = refs - 1 /\ Goto(u, "idle") /\ UNCHANGED lock
     \/ refs = 1 /\ lock' = u /\ Goto(u, "closing") /\ UNCHANGED refs
  /\ lost' = lost \ {u}
  /\ UNCHANGED <<chrome, viewerRef, viewerPage>>

(* Chromium is gone, with the pages of whoever still used it.              *)
ChromeGone ==
  /\ chrome' = FALSE
  /\ viewerPage' = FALSE
  /\ lost' = lost \union Holders \union {u \in Users : pc[u] = "opening"}

CloseDone(u) ==
  /\ pc[u] = "closing"
  /\ ChromeGone
  /\ refs' = 0
  /\ lock' = nobody
  /\ Goto(u, "idle")
  /\ UNCHANGED viewerRef

(* Mutant of CloseFail: the lock is not given back on an exception.        *)
CloseFailKeepsLock(u) ==
  /\ {"close", "cancel"} \intersect Faults # {}
  /\ pc[u] = "closing"
  /\ ChromeGone \/ UNCHANGED <<chrome, viewerPage, lost>>
  /\ Goto(u, "idle")
  /\ UNCHANGED <<refs, lock, viewerRef>>

(* mgr.close() raises or is cancelled: the entry stays, with the count it  *)
(* had, whether or not Chromium still runs.                                *)
CloseFail(u) ==
  /\ {"close", "cancel"} \intersect Faults # {}
  /\ pc[u] = "closing"
  /\ ChromeGone \/ UNCHANGED <<chrome, viewerPage, lost>>
  /\ lock' = nobody
  /\ Goto(u, "idle")
  /\ UNCHANGED <<refs, viewerRef>>

(* Task.cancel() of a job, delivered in any other await of its own: a task *)
(* that finds the lock free goes on without suspending.                    *)
Cancel(u) ==
  /\ "cancel" \in Faults /\ u \in Jobs
  /\ pc[u] \in {"acquire", "release", "bareRelease"} => lock # nobody
  /\ \/ pc[u] \in {"acquire", "starting"} /\ NotAcquired(u)
     \/ pc[u] = "opening" /\ Goto(u, IF u \in Fetchers THEN "release" ELSE "idle")
     \/ pc[u] = "using" /\ Goto(u, "closingPage")
     \/ pc[u] \in {"closingPage", "release", "bareRelease"} /\ Goto(u, "idle")
  /\ lock' = IF lock = u THEN nobody ELSE lock
  /\ lost' = IF pc[u] = "using" THEN lost ELSE lost \ {u}
  /\ UNCHANGED <<refs, chrome, viewerRef, viewerPage>>

-----------------------------------------------------------------------------
(* The resume library viewer                                               *)

(* _ensure_viewer_page when there is no usable page; with a reference noted*)
(* but no entry in the pool it raises and changes nothing.                 *)
ViewerOpen ==
  /\ pc[viewer] = "idle" /\ ~viewerPage
  /\ \/ ~viewerRef /\ refs <= MaxRefs /\ Goto(viewer, "acquire")
     \/ viewerRef /\ refs > 0 /\ Goto(viewer, "opening")
  /\ UNCHANGED <<refs, chrome, lock, viewerRef, viewerPage, lost>>

(* close_resume_library_viewer_for_profile                                 *)
ViewerClose ==
  /\ pc[closer] = "idle"
  /\ \/ viewerPage /\ Goto(closer, "closingPage") /\ UNCHANGED viewerRef
     \/ ~viewerPage /\ viewerRef /\ Goto(closer, "release") /\ viewerRef' = FALSE
  /\ viewerPage' = FALSE
  /\ UNCHANGED <<refs, chrome, lock, lost>>

-----------------------------------------------------------------------------
Resume(u) ==
  \/ StartDone(u) \/ StartFail(u)
  \/ OpenPage(u) \/ OpenFail(u)
  \/ PageClosed(u) \/ PageCloseFail(u)
  \/ CloseDone(u) \/ CloseFail(u)

UserStep(u) ==
  \/ Begin(u) \/ Acquire(u) \/ Resume(u) \/ Finish(u) \/ Release(u) \/ Cancel(u)

Next == (\E u \in Users : UserStep(u)) \/ ViewerOpen \/ ViewerClose

Spec == Init /\ [][Next]_vars

(* Browser calls return or time out; asyncio.Lock serves its waiters in    *)
(* order, so whoever waits while the lock keeps becoming free gets it.     *)
Fairness ==
  \A u \in Users : WF_vars(Resume(u)) /\ SF_vars(Acquire(u)) /\ SF_vars(Release(u))

FairSpec == Spec /\ Fairness

-----------------------------------------------------------------------------
(* Properties                                                              *)

(* The pool's dictionary, lock and clients have their types.               *)
TypeOK ==
  /\ pc \in [Users -> Pcs]
  /\ refs \in Nat
  /\ chrome \in BOOLEAN
  /\ lock \in Users \union {nobody}
  /\ viewerRef \in BOOLEAN
  /\ viewerPage \in BOOLEAN
  /\ lost \subseteq Users

(* The reference count covers every task that relies on the browser, so    *)
(* that no release, of the fetch, of an IM batch or of the viewer, closes  *)
(* Chromium under another: leaks are possible, early closes are not.       *)
RefsCoverHolders == refs >= Cardinality(Holders)

(* No task that holds a reference loses its browser (browser_pool.py:1,    *)
(* "multi-tab in parallel", and :42, "does not interfere with the fetch    *)
(* page").                                                                 *)
NeverClosedInUse == lost \intersect Holders = {}

(* The pool keeps its promise to the tasks that share the browser.         *)
Shared == INSTANCE SharedBrowser WITH holders <- Holders, running <- chrome

SharesBrowser == Shared!Spec

(* A task that asks for the browser gets an answer, and one that releases  *)
(* it is done with it, whatever the other tasks do with the lock and       *)
(* wherever they are cancelled (browser_pool.py, _lock).                   *)
LockServesAll ==
  \A u \in Users :
    /\ pc[u] \in {"acquire", "starting"} ~> pc[u] \notin {"acquire", "starting"}
    /\ pc[u] \in {"release", "bareRelease", "closing"} ~> pc[u] = "idle"
=============================================================================
