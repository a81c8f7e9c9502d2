------------------------------ MODULE LoginSetup ------------------------------
(***************************************************************************)
(* The one login session of the API process                                *)
(* (services/fetch_worker/login_init.py, apps/api/routes/browser_setup.py):*)
(* a window in which HR logs in at the site, and the check afterwards that *)
(* the browser profile holds the login.                                    *)
(*                                                                         *)
(* An operation is a request; it interleaves at its awaits, which are its  *)
(* pcs, and any await may raise.  The window used by a check is closed in  *)
(* its finally block and left out.                                         *)
(***************************************************************************)
EXTENDS Naturals, FiniteSets

CONSTANTS Ops,        \* requests that may be under way at once
          MaxWindows, \* windows ever opened
          Faults      \* what may fail of a window: its first page, the login
                      \* page in it, its close

ASSUME LoginLimits == MaxWindows \in Nat \ {0} /\ Faults \subseteq {"page", "goto", "close"}

VARIABLES
  login,    \* _session.status
  window,   \* _browser and _page, 0 when None
  op,       \* the request in each slot: its await, the window it speaks of
  open,     \* windows on the screen
  opened,   \* how many there ever were
  strays    \* history: the windows lost in a way the code does not prevent

loginVars == <<login, window, op, open, opened, strays>>

Idle == [at |-> "none", win |-> 0]

LoginInit ==
  /\ login = "idle" /\ window = 0
  /\ op = [o \in Ops |-> Idle]
  /\ open = {} /\ opened = 0 /\ strays = {}

OpGoes(o, at, win) == op' = [op EXCEPT ![o] = [at |-> at, win |-> win]]
Returns(o) == op' = [op EXCEPT ![o] = Idle]

Arrives(o) == op[o] = Idle /\ UNCHANGED <<window, open, opened, strays>>

-----------------------------------------------------------------------------
(* The routes, up to their first await                                     *)

(* start_login_init, after its check that nobody is waiting                *)
StartBegins(o) == login' = "waiting" /\ OpGoes(o, "startClose", window')

Start(o) ==
  /\ Arrives(o) /\ login # "waiting"
  /\ StartBegins(o)

(* clear_and_relogin: close the window, clear the profile, start.          *)
Relogin(o) ==
  /\ Arrives(o)
  /\ OpGoes(o, "reloginClose", window)
  /\ UNCHANGED login

Complete(o) ==
  /\ Arrives(o) /\ login = "waiting" /\ window # 0
  /\ login' = "verifying"
  /\ OpGoes(o, "detect", window)

CancelLogin(o) ==
  /\ Arrives(o)
  /\ OpGoes(o, "cancelClose", window)
  /\ UNCHANGED login

Refresh(o) ==
  /\ Arrives(o) /\ login # "waiting"
  /\ login' = "verifying"
  /\ OpGoes(o, "verify", 0)

-----------------------------------------------------------------------------
(* What they do after an await                                             *)

(* Mutant of CloseWindow: the window is forgotten but not closed.          *)
CloseForgets(o) == window' = 0 /\ UNCHANGED <<open, strays>>

(* _close_browser_impl: the window it found is closed in an await, whose   *)
(* error is swallowed; then the names are cleared, whatever they say by    *)
(* now.  Lost are a window that did not close and one named meanwhile.     *)
CloseWindow(o) ==
  LET win == op[o].win IN
  /\ open' = open \ {win} \/ ("close" \in Faults /\ open' = open)
  /\ window' = IF win = 0 THEN window ELSE 0
  /\ strays' = IF win = 0 THEN strays ELSE strays \union ({win, window} \intersect open')

(* _start_browser_impl, first half                                         *)
StartCloses(o) ==
  /\ op[o].at = "startClose"
  /\ CloseWindow(o)
  /\ OpGoes(o, "opening", 0)
  /\ UNCHANGED <<login, opened>>

(* The profile serves one browser at a time.                               *)
Launched == opened < MaxWindows /\ open = {} /\ opened' = opened + 1 /\ open' = {opened'}

(* A new window; the names are set once the login page has loaded.         *)
WindowOpens(o) ==
  /\ op[o].at = "opening" /\ Launched
  /\ OpGoes(o, "loading", opened')
  /\ UNCHANGED <<login, window, strays>>

PageLoads(o) ==
  /\ op[o].at = "loading" /\ op[o].win \in open
  /\ window' = op[o].win
  /\ Returns(o)
  /\ UNCHANGED <<login, open, opened, strays>>

(* The except clause closes the window the names speak of, not the one     *)
(* that was launched.                                                      *)
StartRaises(o) == login' = "error" /\ OpGoes(o, "failClose", window) /\ UNCHANGED window

LaunchFails(o) ==
  /\ op[o].at = "opening"
  /\ StartRaises(o)
  /\ UNCHANGED <<open, opened, strays>>

(* new_page raises after the launch.                                       *)
NewPageFails(o) ==
  /\ op[o].at = "opening" /\ "page" \in Faults /\ Launched
  /\ strays' = strays \union open'
  /\ StartRaises(o)

GotoFails(o) ==
  /\ op[o].at = "loading"
  /\ "goto" \in Faults \/ op[o].win \notin open
  /\ strays' = strays \union ({op[o].win} \intersect open)
  /\ StartRaises(o)
  /\ UNCHANGED <<open, opened>>

FailCloses(o) ==
  /\ op[o].at = "failClose"
  /\ CloseWindow(o)
  /\ Returns(o)
  /\ UNCHANGED <<login, opened>>

(* Relogin goes on as a start, which does nothing while one is waiting.    *)
ReloginCloses(o) ==
  /\ op[o].at = "reloginClose"
  /\ CloseWindow(o)
  /\ IF login = "waiting" THEN Returns(o) /\ UNCHANGED login ELSE StartBegins(o)
  /\ UNCHANGED opened

CancelCloses(o) ==
  /\ op[o].at = "cancelClose"
  /\ CloseWindow(o)
  /\ login' = IF login = "waiting" THEN "idle" ELSE login
  /\ Returns(o)
  /\ UNCHANGED opened

(* detect_page_type in _complete_login_impl: still the login page; or its  *)
(* window can be closed; or the window is gone and the call raises.        *)
Detected(o) ==
  /\ op[o].at = "detect"
  /\ \/ op[o].win \in open /\ login' = "waiting" /\ Returns(o)
     \/ op[o].win \in open /\ UNCHANGED login /\ OpGoes(o, "completeClose", op[o].win)
     \/ op[o].win \notin open /\ login' = "error" /\ Returns(o)
  /\ UNCHANGED <<window, open, opened, strays>>

(* Then the login is checked in a browser of its own; here an error of the *)
(* close is not swallowed.                                                 *)
CompleteCloses(o) ==
  /\ op[o].at = "completeClose"
  /\ \/ /\ open' = open \ {op[o].win} /\ window' = 0
        /\ strays' = strays \union ({window} \intersect open')
        /\ OpGoes(o, "verify", 0) /\ UNCHANGED login
     \/ /\ "close" \in Faults
        /\ login' = "error" /\ Returns(o) /\ UNCHANGED <<window, open, strays>>
  /\ UNCHANGED opened

(* Mutant of Verified: a check that raises leaves the status alone.        *)
VerifiedUnguarded(o) ==
  /\ op[o].at = "verify"
  /\ login' \in {"ready", login}
  /\ Returns(o)
  /\ UNCHANGED <<window, open, opened, strays>>

(* _apply_verify_result, or the except clause                              *)
Verified(o) ==
  /\ op[o].at = "verify"
  /\ login' \in {"ready", "error"}
  /\ Returns(o)
  /\ UNCHANGED <<window, open, opened, strays>>

(* HR closes a window by hand.                                             *)
ClosedByHand ==
  /\ open # {} /\ open' = {}
  /\ UNCHANGED <<login, window, op, opened, strays>>

Step(o) ==
  \/ StartCloses(o) \/ WindowOpens(o) \/ PageLoads(o)
  \/ LaunchFails(o) \/ NewPageFails(o) \/ GotoFails(o) \/ FailCloses(o)
  \/ ReloginCloses(o) \/ CancelCloses(o)
  \/ Detected(o) \/ CompleteCloses(o) \/ Verified(o)

LoginNext ==
  \/ ClosedByHand
  \/ \E o \in Ops :
       Start(o) \/ Relogin(o) \/ Complete(o) \/ CancelLogin(o) \/ Refresh(o) \/ Step(o)

LoginSpec == LoginInit /\ [][LoginNext]_loginVars

(* Every call on a window has a timeout.                                   *)
FairLoginSpec == LoginSpec /\ \A o \in Ops : WF_loginVars(Step(o))

-----------------------------------------------------------------------------

Ats == {"none", "startClose", "opening", "loading", "failClose", "reloginClose", "cancelClose",
        "detect", "completeClose", "verify"}

LoginTypeOK ==
  /\ login \in {"idle", "waiting", "verifying", "ready", "error"}
  /\ window \in 0..opened /\ opened \in 0..MaxWindows
  /\ op \in [Ops -> [at : Ats, win : 0..MaxWindows]]
  /\ open \subseteq 1..opened /\ strays \subseteq 1..opened

(* A window on the screen is the session's, or a request is busy with it:  *)
(* one that nobody knows keeps the browser profile locked.  However        *)
(* requests overlap, a window is lost only if its first page or the login  *)
(* page failed, if its close failed, or if it was named while a request was*)
(* closing another one.                                                    *)
NoStrayWindow ==
  \A w \in open \ strays : w = window \/ \E o \in Ops : op[o].win = w

(* The check that the console waits for has an outcome.                    *)
VerifyingEnds == (login = "verifying") ~> (login # "verifying")
=============================================================================
