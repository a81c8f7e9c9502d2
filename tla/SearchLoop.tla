------------------------------ MODULE SearchLoop ------------------------------
(***************************************************************************)
(* One fetch: searches on the recruiting site and the collection of the    *)
(* result cards until the target is met or nothing is left to try          *)
(* (services/fetch_worker/runner.py, extract_popup.py, extract_monitor.py).*)
(* What the site shows is not ours: each look at the page is a choice.     *)
(*                                                                         *)
(* A card is a candidate as some page shows it; the same candidate may     *)
(* come back as another card.  One fetch has its page for itself, so a     *)
(* helper that only works on the page is one step.  The streak of the job  *)
(* dialog is left out: it is reset in the step that takes it to its limit. *)
(***************************************************************************)
EXTENDS SearchFallback

CONSTANTS Candidates,
          Cards,             \* pairs <<candidate, appearance>>
          Requests,          \* requested years of experience
          Wordings,          \* requested keywords, a set of sets of words
          Target,            \* target_count
          AttemptsPerCard, MinAttempts, ScrollLimit,        \* extract_popup.py
          NoProgressLimit, OverlayLimit, SameStateLimit,    \* extract_monitor.py
          MaxRecoveries

ASSUME LimitsAssumption ==
  /\ Target \in Nat \ {0}
  /\ {AttemptsPerCard, MinAttempts, ScrollLimit, NoProgressLimit, OverlayLimit,
      SameStateLimit, MaxRecoveries} \subseteq Nat \ {0}
ASSUME CardsAssumption == Cards \subseteq Candidates \X Nat
(* Forever and more is what the code takes for "without a limit".          *)
ASSUME RequestsAssumption ==
  /\ Requests \subseteq (0..(Forever - 1)) \X Nat
  /\ \A w \in Wordings : IsFiniteSet(w)

VARIABLES
  pc,          \* the await of the fetch, see Pcs
  request,     \* requested_experience
  asked,       \* the keywords of the request
  band,        \* current_experience
  triedBands,  \* tried_experiences
  words,       \* current_keywords
  triedWords,  \* tried_keywords
  seen,        \* seen_candidate_fps: candidates
  captured,    \* len(saved_ids) + len(snapshots_data)
  kept,        \* the candidates in these two lists
  failed,      \* failed_items by candidate; Page when it names none
  contacts,    \* history: how often the chat of a candidate was opened
  batch,       \* the locals of extract_from_popup_cards
  monitor,     \* ExtractStuckMonitor
  overlay,     \* what covers the result list
  cancelled    \* the workflow's cancel flag

input  == <<request, asked>>
plan   == <<band, triedBands, words, triedWords>>
result == <<seen, captured, kept, failed, contacts>>
page   == <<batch, monitor, overlay>>
vars   == <<pc, input, plan, result, page, cancelled>>

Page == "page"
ASSUME PageAssumption == Page \notin Candidates

Pcs == {"search", "results", "loop", "card", "decide", "done", "raised"}
Overlays == {"none", "resume", "job"}

NoCard == <<>>
NewBatch(base) ==
  [attempt |-> 0, base |-> base, cards |-> {}, card |-> NoCard, scrolls |-> 0,
   exhausted |-> FALSE]

(* The streaks are counted up to their limit: what lies above is compared  *)
(* with the limit only.                                                    *)
NewMonitor == [last |-> 0, idle |-> 0, covered |-> 0, same |-> 0, key |-> <<>>, recoveries |-> 0]

Init ==
  /\ pc = "search"
  /\ request \in Requests
  /\ asked \in Wordings
  /\ band = InitialBand(request) /\ triedBands = {}
  /\ words = asked /\ triedWords = {asked}
  /\ seen = {} /\ captured = 0 /\ kept = {} /\ failed = {}
  /\ contacts = [c \in Candidates |-> 0]
  /\ batch = NewBatch(0) /\ monitor = NewMonitor /\ overlay = "none"
  /\ cancelled = FALSE

-----------------------------------------------------------------------------
(* The search loop of _run_lpt_search_fetch                                *)

(* run_lpt_search and the reruns: any of their steps on the page may raise;*)
(* a filter that cannot be set is reported and left.                       *)
PageSearched == pc' \in {"results", "raised"}

(* The checkpoint, then a search with the current band and keywords.       *)
Search ==
  /\ pc = "search"
  /\ \/ cancelled /\ pc' = "raised" /\ UNCHANGED triedBands
     \/ ~cancelled /\ triedBands' = triedBands \union {band} /\ PageSearched
  /\ overlay' = "none"
  /\ UNCHANGED <<input, band, words, triedWords, result, batch, monitor, cancelled>>

NextBand == Least(UntriedBands(request, triedBands))

(* A search without cards: another band, never other keywords.             *)
NoResults ==
  /\ pc = "results"
  /\ IF UntriedBands(request, triedBands) # {}
       THEN band' = NextBand /\ pc' = "search" /\ UNCHANGED failed
       ELSE failed' = failed \union {Page} /\ pc' = "done" /\ UNCHANGED band
  /\ UNCHANGED <<input, triedBands, words, triedWords, seen, captured, kept, contacts,
                 page, cancelled>>

(* extract_from_popup_cards begins; it may find no card after all.         *)
StartBatch ==
  /\ pc = "results"
  /\ batch' = NewBatch(captured)
  /\ monitor' = NewMonitor
  /\ \/ pc' = "loop" /\ UNCHANGED failed
     \/ pc' = "decide" /\ failed' = failed \union {Page}
  /\ UNCHANGED <<input, plan, seen, captured, kept, contacts, overlay, cancelled>>

(* Mutant of Decide: the fetch ends without a word about it.               *)
DecideSilently ==
  /\ pc = "decide"
  /\ UNCHANGED <<band, failed>>
  /\ pc' = "done"
  /\ UNCHANGED <<words, triedWords, triedBands, input, seen, captured, kept, contacts,
                 page, cancelled>>

(* After a batch: enough, or another band, or - when the list was exhausted*)
(* - other keywords with the first band again, or the end.                 *)
Decide ==
  /\ pc = "decide"
  /\ LET short == captured < Target
         more  == UntriedBands(request, triedBands) # {}
         drop  == batch.exhausted /\ Relaxations(words, triedWords) # {}
     IN \/ /\ short /\ more
           /\ band' = NextBand /\ pc' = "search"
           /\ UNCHANGED <<words, triedWords, triedBands, failed>>
        \/ /\ short /\ ~more /\ drop
           /\ words' \in Relaxations(words, triedWords)
           /\ triedWords' = triedWords \union {words'}
           /\ band' = InitialBand(request) /\ triedBands' = {}
           /\ pc' \in {"search", "raised"}      \* rerun_lpt_search_with_keywords
           /\ UNCHANGED failed
        \/ /\ ~short \/ (~more /\ ~drop)
           /\ failed' = IF captured = 0 THEN failed \union {Page} ELSE failed
           /\ pc' = "done"
           /\ UNCHANGED plan
  /\ UNCHANGED <<input, seen, captured, kept, contacts, page, cancelled>>

-----------------------------------------------------------------------------
(* The loop of extract_from_popup_cards                                    *)

MaxAttempts(target) == MaxOf(target * AttemptsPerCard, MinAttempts)

Remaining == Target - batch.base

LoopEnds ==
  /\ pc = "loop"
  /\ captured >= Target \/ batch.attempt >= MaxAttempts(Remaining)
  /\ pc' = "decide"
  /\ UNCHANGED <<input, plan, result, page, cancelled>>

LoopCancelled ==
  /\ pc = "loop" /\ captured < Target /\ batch.attempt < MaxAttempts(Remaining)
  /\ cancelled
  /\ pc' = "raised"
  /\ UNCHANGED <<input, plan, result, page, cancelled>>

Interactive(shown, over) == over = "none" /\ shown # {}

Streak(n, limit, goes) == IF ~goes THEN 0 ELSE MinOf(n + 1, limit)

(* ExtractStuckMonitor.on_loop_start                                       *)
Observed(shown) ==
  LET processed == captured - batch.base
      key == <<Cardinality(shown), overlay>>
  IN [monitor EXCEPT !.last = MaxOf(processed, @),
        !.idle = Streak(@, NoProgressLimit, processed <= monitor.last),
        !.covered = Streak(@, OverlayLimit, ~Interactive(shown, overlay)),
        !.same = Streak(@, SameStateLimit, key = monitor.key),
        !.key = key]

(* ExtractStuckMonitor._evaluate                                           *)
Stuck(m) ==
  \/ m.idle >= NoProgressLimit
  \/ m.covered >= OverlayLimit
  \/ m.same >= SameStateLimit
  \/ overlay # "none" /\ m.covered >= 2

(* What _force_recovery_to_list and _ensure_back_to_list leave: the list,  *)
(* or whatever could not be closed.                                        *)
BackToList(ok) == overlay' \in IF ok THEN {"none"} ELSE Overlays

(* A stuck loop: force the list back, or give the batch up.                *)
Recovery(m) ==
  /\ Stuck(m) /\ monitor.recoveries < MaxRecoveries
  /\ \E ok \in BOOLEAN, n \in 0..Cardinality(Cards) :
       /\ BackToList(ok)
       /\ monitor' = [m EXCEPT !.idle = 0, !.covered = 0, !.same = 0,
                        !.key = <<n, overlay'>>, !.recoveries = @ + 1]
       /\ pc' = IF ok THEN "loop" ELSE "decide"
       /\ failed' = IF ok THEN failed ELSE failed \union {Page}
  /\ batch' = [batch EXCEPT !.attempt = @ + 1]

(* A card nobody looked at in this batch is taken up.                      *)
PickCard(m, shown) ==
  /\ shown \ batch.cards # {}
  /\ \E card \in shown \ batch.cards :
       batch' = [batch EXCEPT !.attempt = @ + 1, !.scrolls = 0, !.card = card,
                   !.cards = @ \union {card}]
  /\ pc' = "card"
  /\ monitor' = m
  /\ UNCHANGED <<overlay, failed>>

(* Mutant of Scroll: only scrolling counts as an attempt.                  *)
ScrollUncounted(m, shown) ==
  /\ shown \ batch.cards = {}
  /\ IF shown = {} THEN batch' = [batch EXCEPT !.attempt = @ + 1]
                  ELSE batch' = [batch EXCEPT !.scrolls = 0]
  /\ pc' = "loop"
  /\ monitor' = m
  /\ UNCHANGED <<overlay, failed>>

(* try_lpt_next_search_page clicked and the list was refreshed.            *)
NextPage ==
  batch' = [batch EXCEPT !.attempt = @ + 1, !.scrolls = 0] /\ pc' = "loop"

(* Nothing new in sight: the next page, or scroll, or the list is at its   *)
(* end.  A page without any card is scrolled only.                         *)
Scroll(m, shown) ==
  /\ shown \ batch.cards = {}
  /\ \/ /\ shown = {}
        /\ batch' = [batch EXCEPT !.attempt = @ + 1] /\ pc' = "loop"
     \/ shown # {} /\ NextPage
     \/ /\ shown # {}
        /\ LET end == batch.scrolls + 1 >= ScrollLimit IN
           /\ batch' = [batch EXCEPT !.attempt = @ + 1, !.scrolls = @ + 1, !.exhausted = end]
           /\ pc' = IF end THEN "decide" ELSE "loop"
  /\ monitor' = m
  /\ UNCHANGED <<overlay, failed>>

(* One turn of the loop, up to the card.                                   *)
Look ==
  /\ pc = "loop" /\ captured < Target /\ batch.attempt < MaxAttempts(Remaining)
  /\ ~cancelled
  /\ \E shown \in SUBSET Cards :
       LET m == Observed(shown)
       IN \/ Recovery(m)
          \/ /\ ~Stuck(m) \/ monitor.recoveries >= MaxRecoveries
             /\ PickCard(m, shown) \/ Scroll(m, shown)
  /\ UNCHANGED <<input, plan, seen, captured, kept, contacts, cancelled>>

-----------------------------------------------------------------------------
(* _process_one_card                                                       *)

TheCandidate == batch.card[1]

EndCard == pc' = "loop" /\ batch' = [batch EXCEPT !.card = NoCard]

(* The card is not visible; or it shows a candidate already met.           *)
CardSkipped ==
  /\ pc = "card"
  /\ \/ UNCHANGED overlay
     \/ ~cancelled /\ TheCandidate \in seen /\ \E ok \in BOOLEAN : BackToList(ok)
  /\ EndCard
  /\ UNCHANGED <<input, plan, result, monitor, cancelled>>

(* It ends before the candidate is identified: the checkpoint raises (and  *)
(* the loop swallows that), no popup opens, no resume can be read.         *)
CardUnread ==
  /\ pc = "card"
  /\ failed' = failed \union {Page}
  /\ \E ok \in BOOLEAN : BackToList(ok)
  /\ EndCard
  /\ UNCHANGED <<input, plan, seen, captured, kept, contacts, monitor, cancelled>>

(* _click_contact_now: the chat with the candidate is opened, or not.      *)
ContactNow(contacted) ==
  contacts' = IF contacted THEN [contacts EXCEPT ![TheCandidate] = @ + 1] ELSE contacts

(* Mutant of Identify: the candidate is remembered only when kept.         *)
IdentifyLate(contacted) ==
  /\ pc = "card"
  /\ TheCandidate \notin kept
  /\ seen' = IF contacted THEN seen ELSE seen \union {TheCandidate}
  /\ ContactNow(contacted)

(* A candidate not met before; the chat may be opened.                     *)
Identify(contacted) ==
  /\ pc = "card"
  /\ TheCandidate \notin seen
  /\ seen' = seen \union {TheCandidate}
  /\ ContactNow(contacted)

(* A card that ends well is counted, any other leaves an item.             *)
Count == captured' = captured + 1 /\ kept' = kept \union {TheCandidate}

RecordFailure == failed' = failed \union {TheCandidate}

(* Mutant of CardFailed: the item of a failed card is forgotten.           *)
CardFailedSilently(contacted) ==
  /\ ~cancelled /\ Identify(contacted)
  /\ \E ok \in BOOLEAN : BackToList(ok)
  /\ EndCard
  /\ UNCHANGED <<input, plan, captured, kept, failed, monitor, cancelled>>

(* The judgment, the collecting, the contact, its record, the outreach or  *)
(* the way back to the list fails: the candidate is not counted, stored    *)
(* and contacted as it may be.                                             *)
CardFailed(contacted) ==
  /\ ~cancelled /\ Identify(contacted)
  /\ RecordFailure
  /\ \E ok \in BOOLEAN : BackToList(ok)
  /\ EndCard
  /\ UNCHANGED <<input, plan, captured, kept, monitor, cancelled>>

(* Kept: with auto_screen it is stored and judged, and unless excluded,    *)
(* collected and, not in collect_only mode, contacted and written to.  The *)
(* wait after the count may raise: then it is among the failed as well.    *)
CardKept(contacted) ==
  /\ ~cancelled /\ Identify(contacted)
  /\ Count
  /\ \/ UNCHANGED failed /\ BackToList(TRUE)
     \/ RecordFailure /\ \E ok \in BOOLEAN : BackToList(ok)
  /\ EndCard
  /\ UNCHANGED <<input, plan, monitor, cancelled>>

(* POST /{id}/cancel: the flag.                                            *)
Cancel ==
  /\ pc \notin {"done", "raised"} /\ ~cancelled
  /\ cancelled' = TRUE
  /\ UNCHANGED <<pc, input, plan, result, page>>

(* The cancel of the task (workflows.py:897) and the shutdown break off any*)
(* await, a failing page any that is not within a try; a card is left where*)
(* it stands, its candidate identified or not, recorded or not.            *)
BrokenOff ==
  /\ pc \notin {"done", "raised"}
  /\ pc' = "raised"
  /\ \/ UNCHANGED result
     \/ /\ \E contacted \in BOOLEAN : Identify(contacted)
        /\ Count \/ UNCHANGED <<captured, kept>>
        /\ RecordFailure \/ UNCHANGED failed
  /\ batch' = NewBatch(0) /\ monitor' = NewMonitor           \* locals of the fetch
  /\ UNCHANGED <<input, plan, overlay, cancelled>>

FetchStep ==
  \/ Search \/ NoResults \/ StartBatch \/ Decide
  \/ LoopEnds \/ LoopCancelled \/ Look
  \/ CardSkipped \/ CardUnread
  \/ \E contacted \in BOOLEAN : CardFailed(contacted) \/ CardKept(contacted)

Next == FetchStep \/ Cancel \/ BrokenOff

Spec == Init /\ [][Next]_vars

(* Every call on the page has a timeout.                                   *)
FairSpec == Spec /\ WF_vars(FetchStep)

-----------------------------------------------------------------------------
(* Properties                                                              *)

(* The plan, the lists and the counters have their types.                  *)
TypeOK ==
  /\ pc \in Pcs
  /\ request \in Requests /\ asked \in Wordings
  /\ band \in 0..Len(Bands) /\ triedBands \subseteq 0..Len(Bands)
  /\ words \subseteq asked /\ triedWords \subseteq SUBSET asked
  /\ seen \subseteq Candidates /\ kept \subseteq Candidates
  /\ captured \in Nat
  /\ failed \subseteq Candidates \union {Page}
  /\ contacts \in [Candidates -> Nat]
  /\ batch \in [attempt : Nat, base : Nat, scrolls : Nat, cards : SUBSET Cards,
                card : Cards \union {NoCard}, exhausted : BOOLEAN]
  /\ overlay \in Overlays /\ cancelled \in BOOLEAN
  /\ pc = "card" => batch.card \in Cards

(* Whatever is changed to find more candidates, the search stays within    *)
(* what was asked for: years that overlap the request ("never beyond the   *)
(* bounds of the request", experience_fallback.py:147), words of the       *)
(* request, and the indispensable ones all the time.                       *)
WithinRequest ==
  /\ request # Unlimited /\ request[1] < request[2] =>
       \E y \in request[1]..(request[2] - 1) : Bands[band][1] <= y /\ y < Bands[band][2]
  /\ words \subseteq asked
  /\ (asked \intersect Protected) \ {sales} \subseteq words
  /\ HasSales(asked) => HasSales(words)

(* No candidate is counted or contacted twice in one fetch, through all the*)
(* pages, appearances, recoveries, bands and keywords it may come back in. *)
EachCandidateOnce ==
  /\ captured = Cardinality(kept)
  /\ \A c \in Candidates : contacts[c] <= 1

(* A candidate that was identified is never met again, so its outcome must *)
(* be on the record: it is among the captured or among the failed; a fetch *)
(* that is broken off inside a card loses the one in hand, and nobody else.*)
AccountedFor ==
  LET recorded == kept \union (failed \ {Page}) IN
  /\ recorded \subseteq seen
  /\ pc # "raised" => seen = recorded
  /\ \A c, d \in seen \ recorded : c = d

(* The fetch never exceeds its target, and one that ends with nothing says *)
(* why.                                                                    *)
TargetAndReason ==
  /\ captured <= Target
  /\ pc = "done" /\ captured = 0 => failed # {}

(* Every search of the loop but the first is a new one: a band that was    *)
(* not tried with these keywords, or fewer keywords, and those only after  *)
(* every band of the request was searched (runner.py:305).                 *)
SearchAdvances ==
  [][pc # "search" /\ pc' = "search" =>
       \/ words' # words /\ words' \subseteq words /\ TrySet(request) \subseteq triedBands
       \/ words' = words /\ band' \notin triedBands]_vars

(* The fetch ends, however the site behaves: each fallback advances, each  *)
(* recovery and each attempt counts.                                       *)
FetchEnds == <>(pc \in {"done", "raised"})
=============================================================================
