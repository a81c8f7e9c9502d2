---------------------------- MODULE SharedBrowser ----------------------------
(***************************************************************************)
(* What browser_pool.py promises the tasks that share the Chromium of a    *)
(* profile: any of them may take it and give it back at any time, and it   *)
(* is stopped only while nobody has it.                                    *)
(***************************************************************************)
CONSTANT Users

VARIABLES holders,   \* who relies on the browser
          running    \* Chromium runs

vars == <<holders, running>>

Init == holders = {} /\ running = FALSE

(* The browser may be started by, or for, the one who takes it.            *)
Take(u) ==
  /\ u \notin holders
  /\ holders' = holders \union {u}
  /\ running' \in {running, TRUE}

Drop(u) ==
  /\ u \in holders
  /\ holders' = holders \ {u}
  /\ UNCHANGED running

(* The viewer leaves the giving back to the task that closes it.           *)
HandOver(u, v) ==
  /\ u \in holders /\ v \notin holders
  /\ holders' = (holders \ {u}) \union {v}
  /\ UNCHANGED running

Start == running' = TRUE /\ UNCHANGED holders

Stop ==
  /\ holders = {}
  /\ running' = FALSE
  /\ UNCHANGED holders

Next ==
  \/ \E u \in Users : Take(u) \/ Drop(u)
  \/ \E u, v \in Users : HandOver(u, v)
  \/ Start \/ Stop

Spec == Init /\ [][Next]_vars
=============================================================================
