--------------------------- MODULE SearchLoopProofs ---------------------------
(***************************************************************************)
(* SearchLoop: a fetch stays within its request, counts and contacts each  *)
(* candidate once, accounts for each it identified, stops at its target and*)
(* never searches the same again, for any site, any cards, any request and *)
(* any limits of its loops.                                                *)
(*                                                                         *)
(* What the plan may become is a matter of the fallbacks alone: a band of  *)
(* the request, words that keep the indispensable ones.  What is counted   *)
(* is a matter of the cards: a candidate is identified once, whatever      *)
(* follows, and a card is only taken up below the target.                  *)
(***************************************************************************)
EXTENDS SearchLoop, FiniteSetTheorems, TLAPS

(* The band in use is one of the request's.                                *)
BandInv == band = 0 \/ band \in TrySet(request)

(* An indispensable word, or the compound it became part of, is still there*)
WordsInv ==
  /\ (asked \intersect Protected) \ {sales} \subseteq words
  /\ HasSales(asked) => HasSales(words)

PlanInv == (band = 0 => request = Unlimited) /\ BandInv /\ WordsInv

(* Who was not identified is nowhere.                                      *)
CardsInv ==
  /\ IsFiniteSet(kept) /\ EachCandidateOnce /\ AccountedFor
  /\ \A c \in Candidates \ seen : contacts[c] = 0

(* A card is taken up below the target only.                               *)
CountInv ==
  /\ TargetAndReason
  /\ pc = "card" => captured < Target

SearchInv == TypeOK /\ PlanInv /\ CardsInv /\ CountInv

-----------------------------------------------------------------------------
(* The fallbacks                                                           *)

(* The bands of a request are bands of the site.                           *)
LEMMA TrySetType ==
  ASSUME NEW req
  PROVE  TrySet(req) \subseteq 1..5 /\ (req # Unlimited => TrySet(req) # {})
  BY DEF TrySet, Intersecting, Bands, DefaultBand

(* A set of bands has a least one.                                         *)
LEMMA LeastBand ==
  ASSUME NEW S, S \subseteq 1..5, S # {}
  PROVE  Least(S) \in S
<1>1. \E x \in S : \A y \in S : x <= y
  <2>1. CASE 1 \in S  BY <2>1
  <2>2. CASE 1 \notin S /\ 2 \in S  BY <2>2
  <2>3. CASE 1 \notin S /\ 2 \notin S /\ 3 \in S  BY <2>3
  <2>4. CASE 1 \notin S /\ 2 \notin S /\ 3 \notin S /\ 4 \in S  BY <2>4
  <2>5. CASE 1 \notin S /\ 2 \notin S /\ 3 \notin S /\ 4 \notin S
    <3>1. \A y \in S : y = 5
      BY <2>5
    <3>2. S = {5}
      BY <3>1
    <3> QED
      BY <3>2
  <2> QED
    BY <2>1, <2>2, <2>3, <2>4, <2>5
<1> QED
  BY <1>1 DEF Least

(* The first band is one of the request's, "any" if any will do.           *)
LEMMA FirstBand ==
  ASSUME NEW req
  PROVE  /\ InitialBand(req) \in 0..5
         /\ InitialBand(req) = 0 => req = Unlimited
         /\ InitialBand(req) = 0 \/ InitialBand(req) \in TrySet(req)
  BY TrySetType, LeastBand DEF InitialBand

(* The next band is one of the request's that was not tried.               *)
LEMMA NextBandIs ==
  ASSUME UntriedBands(request, triedBands) # {}
  PROVE  NextBand \in TrySet(request) \ triedBands /\ NextBand \in 1..5
<1>1. UntriedBands(request, triedBands) \subseteq 1..5
  BY TrySetType DEF UntriedBands
<1> QED
  BY <1>1, LeastBand, TrySetType DEF NextBand, UntriedBands

(* Years that some experience may have overlap a band of the site.         *)
LEMMA SomeBand ==
  ASSUME NEW lo \in Nat, NEW hi \in Nat, lo < hi, lo < Forever
  PROVE  Intersecting(<<lo, hi>>) # {}
<1> DEFINE req == <<lo, hi>>
<1>1. req[1] = lo /\ req[2] = hi
  OBVIOUS
<1>2. ASSUME NEW b \in 1..5, Bands[b][1] <= lo, lo < Bands[b][2]
      PROVE  b \in Intersecting(req)
  <2>1. Bands[b][1] \in Nat /\ Bands[b][2] \in Nat /\ DOMAIN Bands = 1..5
    BY DEF Bands, Forever
  <2> QED
    BY <1>1, <1>2, <2>1 DEF Intersecting, Intersects, MaxOf, MinOf
<1>3. \E b \in 1..5 : Bands[b][1] <= lo /\ lo < Bands[b][2]
  <2>1. CASE lo < 1  BY <2>1 DEF Bands
  <2>2. CASE 1 <= lo /\ lo < 3  BY <2>2 DEF Bands
  <2>3. CASE 3 <= lo /\ lo < 5  BY <2>3 DEF Bands
  <2>4. CASE 5 <= lo /\ lo < 10  BY <2>4 DEF Bands
  <2>5. CASE 10 <= lo  BY <2>5 DEF Bands, Forever
  <2> QED
    BY <2>1, <2>2, <2>3, <2>4, <2>5
<1> QED
  BY <1>2, <1>3

(* A band that meets such years has a year in common with them.            *)
LEMMA CommonYear ==
  ASSUME NEW lo \in Nat, NEW hi \in Nat, lo < hi, NEW b \in Intersecting(<<lo, hi>>)
  PROVE  \E y \in lo..(hi - 1) : Bands[b][1] <= y /\ y < Bands[b][2]
<1>1. b \in 1..5 /\ Intersects(b, <<lo, hi>>)
  BY DEF Intersecting, Bands
<1>2. Bands[b][1] \in Nat /\ Bands[b][2] \in Nat /\ Bands[b][1] < Bands[b][2]
  BY <1>1 DEF Bands, Forever
<1>3. MaxOf(Bands[b][1], lo) < MinOf(Bands[b][2], hi)
  <2> DEFINE b1 == Bands[b][1]
             b2 == Bands[b][2]
  <2>1. \/ MaxOf(b1, lo) < MinOf(b2, hi)
        \/ MaxOf(b1, lo) = MinOf(b2, hi) /\ b1 >= lo /\ MaxOf(b1, lo) = lo
    BY <1>1 DEF Intersects
  <2>2. b1 \in Nat /\ b2 \in Nat /\ b1 < b2
    BY <1>2
  <2> HIDE DEF b1, b2
  <2>3. MaxOf(b1, lo) < MinOf(b2, hi)
    BY <2>1, <2>2 DEF MaxOf, MinOf
  <2> QED
    BY <2>3 DEF b1, b2
<1>4. /\ MaxOf(Bands[b][1], lo) \in lo..(hi - 1)
      /\ Bands[b][1] <= MaxOf(Bands[b][1], lo) /\ MaxOf(Bands[b][1], lo) < Bands[b][2]
  BY <1>2, <1>3 DEF MaxOf, MinOf
<1> QED
  BY <1>4

(* A word left out and the others joined again keep what is indispensable. *)
LEMMA DropOne ==
  ASSUME NEW t \in words \ Protected,
         (asked \intersect Protected) \ {sales} \subseteq words,
         HasSales(asked) => HasSales(words),
         NEW after, after = Joined(words \ {t})
  PROVE  /\ after \subseteq words
         /\ (asked \intersect Protected) \ {sales} \subseteq after
         /\ HasSales(asked) => HasSales(after)
  BY WordsAssumption DEF Joined, HasSales

(* So does a relaxation, which is new.                                     *)
LEMMA RelaxedWords ==
  ASSUME WordsInv, NEW after \in Relaxations(words, triedWords)
  PROVE  /\ after \subseteq words /\ after # words
         /\ (asked \intersect Protected) \ {sales} \subseteq after
         /\ HasSales(asked) => HasSales(after)
<1>1. PICK t \in Droppable(words) : after = Joined(words \ {t}) /\ after # words
  BY DEF Relaxations
<1>2. t \in words \ Protected
  BY DEF Droppable
<1> QED
  BY <1>1, <1>2, DropOne DEF WordsInv

-----------------------------------------------------------------------------
(* The types                                                               *)

Batches == [attempt : Nat, base : Nat, scrolls : Nat, cards : SUBSET Cards,
            card : Cards \union {NoCard}, exhausted : BOOLEAN]

(* A step that leaves the plan alone                                       *)
LEMMA TypeSame ==
  ASSUME TypeOK, UNCHANGED <<input, plan>>,
         pc' \in Pcs, pc' = "card" => batch'.card \in Cards,
         seen' \subseteq Candidates, kept' \subseteq Candidates, captured' \in Nat,
         failed' \subseteq Candidates \union {Page},
         contacts' \in [Candidates -> Nat], batch' \in Batches,
         overlay' \in Overlays, cancelled' \in BOOLEAN
  PROVE  TypeOK'
  BY DEF TypeOK, Batches, input, plan

(* What the way back to the list leaves.                                   *)
LEMMA BackType ==
  ASSUME NEW ok \in BOOLEAN, BackToList(ok)
  PROVE  overlay' \in Overlays
  BY DEF BackToList, Overlays

(* The parts of the batch's record.                                        *)
LEMMA BatchIs ==
  ASSUME TypeOK
  PROVE  /\ batch \in Batches
         /\ batch.attempt \in Nat /\ batch.base \in Nat /\ batch.scrolls \in Nat
         /\ batch.cards \subseteq Cards
  BY DEF TypeOK, Batches

(* The batch's record with other values in its parts                       *)
LEMMA BatchWith ==
  ASSUME NEW b \in Batches, NEW n \in Nat, NEW m \in Nat, NEW e \in BOOLEAN
  PROVE  /\ [b EXCEPT !.attempt = n] \in Batches
         /\ [b EXCEPT !.attempt = n, !.scrolls = m] \in Batches
         /\ [b EXCEPT !.attempt = n, !.scrolls = m, !.exhausted = e] \in Batches
         /\ [b EXCEPT !.card = NoCard] \in Batches
  BY DEF Batches

(* and with a card.                                                        *)
LEMMA BatchCard ==
  ASSUME NEW b \in Batches, NEW n \in Nat, NEW m \in Nat,
         NEW cards \in SUBSET Cards, NEW card \in Cards
  PROVE  /\ [b EXCEPT !.attempt = n, !.scrolls = m, !.card = card, !.cards = cards] \in Batches
         /\ [b EXCEPT !.attempt = n, !.scrolls = m, !.card = card, !.cards = cards].card \in Cards
  BY DEF Batches

(* One turn of the loop, what it does to the types.                        *)
LEMMA LookType ==
  ASSUME TypeOK, Look
  PROVE  /\ batch' \in Batches /\ overlay' \in Overlays
         /\ pc' \in {"loop", "decide", "card"}
         /\ pc' = "card" => batch'.card \in Cards
         /\ failed' \in {failed, failed \union {Page}}
<1>0. /\ batch \in Batches /\ batch.attempt + 1 \in Nat /\ batch.scrolls + 1 \in Nat /\ 0 \in Nat
      /\ batch.cards \subseteq Cards
  BY BatchIs
<1> DEFINE end == batch.scrolls + 1 >= ScrollLimit
<1>e. end \in BOOLEAN
  OBVIOUS
<1>1. PICK shown \in SUBSET Cards :
         Recovery(Observed(shown)) \/ PickCard(Observed(shown), shown)
           \/ Scroll(Observed(shown), shown)
  BY DEF Look
<1>2. CASE Recovery(Observed(shown))
  <2>1. batch' \in Batches
    BY <1>2, <1>0, BatchWith, Zenon DEF Recovery
  <2> QED
    BY <1>2, <2>1, BackType DEF Recovery
<1>3. CASE PickCard(Observed(shown), shown)
  <2>1. PICK card \in shown \ batch.cards :
          batch' = [batch EXCEPT !.attempt = @ + 1, !.scrolls = 0, !.card = card,
                      !.cards = @ \union {card}]
    BY <1>3 DEF PickCard
  <2>2. card \in Cards /\ batch.cards \union {card} \subseteq Cards
    BY BatchIs
  <2>3. batch' \in Batches /\ batch'.card \in Cards
    <3> DEFINE cards == batch.cards \union {card}
    <3>1. cards \in SUBSET Cards
      BY <2>2
    <3>2. batch' = [batch EXCEPT !.attempt = batch.attempt + 1, !.scrolls = 0,
                      !.card = card, !.cards = cards]
      BY <2>1
    <3> HIDE DEF cards
    <3> DEFINE taken == [batch EXCEPT !.attempt = batch.attempt + 1, !.scrolls = 0,
                                      !.card = card, !.cards = cards]
    <3>3. taken \in Batches /\ taken.card \in Cards
      BY <2>2, <3>1, <1>0, BatchCard, ZenonT(60)
    <3> HIDE DEF taken
    <3> QED
      BY <3>2, <3>3 DEF taken
  <2> QED
    BY <1>3, <2>3 DEF PickCard, TypeOK
<1>4. CASE Scroll(Observed(shown), shown)
  <2>1. \/ batch' = [batch EXCEPT !.attempt = @ + 1]
        \/ batch' = [batch EXCEPT !.attempt = @ + 1, !.scrolls = 0]
        \/ batch' = [batch EXCEPT !.attempt = @ + 1, !.scrolls = @ + 1, !.exhausted = end]
    BY <1>4, Zenon DEF Scroll, NextPage
  <2> HIDE DEF end
  <2>2. batch' \in Batches
    <3>1. [batch EXCEPT !.attempt = batch.attempt + 1] \in Batches
      BY <1>0, BatchWith, Zenon
    <3>2. [batch EXCEPT !.attempt = batch.attempt + 1, !.scrolls = 0] \in Batches
      BY <1>0, BatchWith, Zenon
    <3>3. [batch EXCEPT !.attempt = batch.attempt + 1, !.scrolls = batch.scrolls + 1,
                        !.exhausted = end] \in Batches
      BY <1>0, <1>e, BatchWith, Zenon
    <3> QED
      BY <2>1, <3>1, <3>2, <3>3, Zenon
  <2> QED
    BY <1>4, <2>2 DEF Scroll, NextPage, TypeOK
<1> QED
  BY <1>1, <1>2, <1>3, <1>4

(* The types are kept by every step.                                       *)
LEMMA TypeNext ==
  ASSUME TypeOK, [Next]_vars
  PROVE  TypeOK'
<1>0. batch \in Batches /\ [batch EXCEPT !.card = NoCard] \in Batches
  BY BatchIs, BatchWith, Zenon
<1>1. CASE Search
  BY <1>1, <1>0 DEF Search, PageSearched, TypeOK, Batches, Pcs, Overlays, input, result
<1>2. CASE NoResults
  <2>1. UntriedBands(request, triedBands) # {} => NextBand \in 0..5
    BY NextBandIs
  <2>2. Len(Bands) = 5
    BY DEF Bands
  <2> QED
    BY <1>2, <2>1, <2>2 DEF NoResults, TypeOK, Pcs, input, page
<1>3. CASE StartBatch
  <2>1. batch' \in Batches
    BY <1>3 DEF StartBatch, NewBatch, Batches, TypeOK
  <2> QED
    BY <1>3, <2>1, TypeSame DEF StartBatch, TypeOK, Pcs, input, plan
<1>4. CASE Decide
  <2>1. UntriedBands(request, triedBands) # {} => NextBand \in 0..5
    BY NextBandIs
  <2>2. Len(Bands) = 5
    BY DEF Bands
  <2>3. InitialBand(request) \in 0..5
    BY FirstBand
  <2>4. \A w \in Relaxations(words, triedWords) : w \subseteq words
    BY DEF Relaxations, Joined
  <2> QED
    <3>1. band' \in 0..5 /\ words' \subseteq words /\ triedBands' \subseteq triedBands
      BY <1>4, <2>1, <2>2, <2>3, <2>4 DEF Decide, TypeOK, plan
    <3>2. triedWords' \subseteq triedWords \union {words'} /\ failed' \subseteq failed \union {Page}
      BY <1>4 DEF Decide, plan
    <3>3. pc' \in Pcs \ {"card"}
      BY <1>4 DEF Decide, Pcs
    <3> QED
      BY <1>4, <2>2, <3>1, <3>2, <3>3 DEF Decide, TypeOK, input, page
<1>5. CASE LoopEnds \/ LoopCancelled
  BY <1>5 DEF LoopEnds, LoopCancelled, TypeOK, Pcs, input, plan, result, page
<1>6. CASE Look
  <2>1. /\ batch' \in Batches /\ overlay' \in Overlays
        /\ pc' \in {"loop", "decide", "card"}
        /\ pc' = "card" => batch'.card \in Cards
        /\ failed' \in {failed, failed \union {Page}}
    BY <1>6, LookType
  <2> QED
    BY <1>6, <2>1, TypeSame DEF Look, TypeOK, Pcs
<1>7. CASE CardSkipped
  <2>1. overlay' \in Overlays
    BY <1>7, BackType DEF CardSkipped, TypeOK
  <2> QED
    BY <1>7, <1>0, <2>1, TypeSame DEF CardSkipped, EndCard, TypeOK, Pcs, result
<1>8. CASE CardUnread
  <2>1. overlay' \in Overlays
    BY <1>8, BackType DEF CardUnread
  <2> QED
    BY <1>8, <1>0, <2>1, TypeSame DEF CardUnread, EndCard, TypeOK, Pcs
<1>9. ASSUME NEW contacted \in BOOLEAN, CardFailed(contacted) \/ CardKept(contacted)
      PROVE  TypeOK'
  <2>1. overlay' \in Overlays
    BY <1>9, BackType DEF CardFailed, CardKept
  <2>2. TheCandidate \in Candidates
    BY <1>9, CardsAssumption DEF CardFailed, CardKept, Identify, TypeOK, TheCandidate
  <2>3. seen' \subseteq Candidates /\ contacts' \in [Candidates -> Nat]
    <3>1. Identify(contacted)
      BY <1>9 DEF CardFailed, CardKept
    <3>2. contacts' = contacts \/ contacts' = [contacts EXCEPT ![TheCandidate] = @ + 1]
      BY <3>1 DEF Identify, ContactNow
    <3>3. seen' = seen \union {TheCandidate}
      BY <3>1 DEF Identify
    <3> QED
      BY <2>2, <3>2, <3>3 DEF TypeOK
  <2>4. pc' = "loop" /\ batch' \in Batches
    BY <1>9, <1>0 DEF CardFailed, CardKept, EndCard
  <2> QED
    <3>1. UNCHANGED <<input, plan, monitor, cancelled>>
      BY <1>9 DEF CardFailed, CardKept
    <3>2. captured' \in {captured, captured + 1} /\ kept' \subseteq kept \union {TheCandidate}
          /\ failed' \subseteq failed \union {TheCandidate}
      BY <1>9 DEF CardFailed, CardKept, Count, RecordFailure
    <3>3. kept' \subseteq Candidates /\ captured' \in Nat /\ failed' \subseteq Candidates \union {Page}
          /\ cancelled' \in BOOLEAN
      BY <2>2, <3>1, <3>2 DEF TypeOK
    <3>4. pc' \in Pcs /\ pc' # "card"
      BY <2>4 DEF Pcs
    <3> QED
      BY <2>1, <2>3, <2>4, <3>1, <3>3, <3>4, TypeSame
<1>10. CASE Cancel
  BY <1>10 DEF Cancel, TypeOK, input, plan, result, page
<1>11. CASE UNCHANGED vars
  BY <1>11 DEF vars, TypeOK, input, plan, result, page
<1>12. CASE BrokenOff
  <2>1. /\ pc' \in Pcs /\ pc' # "card" /\ UNCHANGED <<input, plan, overlay, cancelled>>
        /\ batch' \in Batches
    BY <1>12 DEF BrokenOff, Pcs, NewBatch, Batches, NoCard
  <2>2. CASE UNCHANGED result
    BY <2>1, <2>2, TypeSame DEF TypeOK, result
  <2>3. CASE \E contacted \in BOOLEAN : Identify(contacted)
    <3>1. PICK contacted \in BOOLEAN : Identify(contacted)
      BY <2>3
    <3>2. TheCandidate \in Candidates
      BY <3>1, CardsAssumption DEF Identify, TypeOK, TheCandidate
    <3>3. contacts' = contacts \/ contacts' = [contacts EXCEPT ![TheCandidate] = @ + 1]
      BY <3>1 DEF Identify, ContactNow
    <3>4. seen' \subseteq Candidates /\ contacts' \in [Candidates -> Nat]
      BY <3>1, <3>2, <3>3 DEF Identify, TypeOK
    <3>5. CASE UNCHANGED result
      BY <2>2, <3>5
    <3>6. CASE ~ UNCHANGED result
      <4>1. /\ captured' \in {captured, captured + 1} /\ kept' \subseteq kept \union {TheCandidate}
            /\ failed' \subseteq failed \union {TheCandidate}
        BY <1>12, <3>6 DEF BrokenOff, Count, RecordFailure
      <4>2. /\ kept' \subseteq Candidates /\ captured' \in Nat
            /\ failed' \subseteq Candidates \union {Page}
            /\ overlay' \in Overlays /\ cancelled' \in BOOLEAN
        BY <2>1, <3>2, <4>1 DEF TypeOK
      <4> QED
        BY <2>1, <3>4, <4>2, TypeSame
    <3> QED
      BY <3>5, <3>6
  <2> QED
    BY <1>12, <2>2, <2>3 DEF BrokenOff
<1> QED
  BY <1>1, <1>2, <1>3, <1>4, <1>5, <1>6, <1>7, <1>8, <1>9, <1>10, <1>11, <1>12 DEF Next, FetchStep

-----------------------------------------------------------------------------
(* The plan: bands and words of the request                                *)

(* A step that leaves the plan alone                                       *)
LEMMA PlanSame ==
  ASSUME PlanInv, UNCHANGED <<request, asked, band, words>>
  PROVE  PlanInv'
  BY DEF PlanInv, BandInv, WordsInv

(* The next band of the request                                            *)
LEMMA PlanNextBand ==
  ASSUME PlanInv, UNCHANGED <<request, asked, words>>,
         UntriedBands(request, triedBands) # {}, band' = NextBand
  PROVE  PlanInv'
<1>1. band' \in TrySet(request) /\ band' \in 1..5
  BY NextBandIs
<1> QED
  BY <1>1 DEF PlanInv, BandInv, WordsInv

(* Every step stays with the request.                                      *)
LEMMA PlanNext ==
  ASSUME PlanInv, [Next]_vars
  PROVE  PlanInv'
<1>1. CASE NoResults
  <2>1. CASE UntriedBands(request, triedBands) # {}
    BY <1>1, <2>1, PlanNextBand DEF NoResults, input
  <2>2. CASE UntriedBands(request, triedBands) = {}
    BY <1>1, <2>2, PlanSame DEF NoResults, input
  <2> QED
    BY <2>1, <2>2
<1>2. CASE Decide
  <2>1. UNCHANGED <<request, asked>>
    BY <1>2 DEF Decide, input
  <2>2. CASE band' = NextBand /\ words' = words /\ UntriedBands(request, triedBands) # {}
    BY <2>1, <2>2, PlanNextBand
  <2>3. CASE words' \in Relaxations(words, triedWords) /\ band' = InitialBand(request)
    BY <2>1, <2>3, RelaxedWords, FirstBand DEF PlanInv, BandInv, WordsInv
  <2>4. CASE UNCHANGED <<band, words>>
    BY <2>1, <2>4, PlanSame
  <2> QED
    BY <1>2, <2>2, <2>3, <2>4 DEF Decide, plan
<1>3. CASE UNCHANGED <<input, band, words>>
  BY <1>3, PlanSame DEF input
<1> QED
  BY <1>1, <1>2, <1>3 DEF Next, FetchStep, Search, StartBatch, LoopEnds, LoopCancelled, Look,
     CardSkipped, CardUnread, CardFailed, CardKept, Cancel, BrokenOff, vars, plan

-----------------------------------------------------------------------------
(* The cards: what is counted and contacted                                *)

(* A step that counts nobody                                               *)
LEMMA CardsSame ==
  ASSUME CardsInv, UNCHANGED <<seen, captured, kept, contacts>>,
         failed' \in {failed, failed \union {Page}}, pc = "raised" => pc' = "raised"
  PROVE  CardsInv'
<1>1. failed' \ {Page} = failed \ {Page}
  OBVIOUS
<1> QED
  BY <1>1 DEF CardsInv, EachCandidateOnce, AccountedFor

(* A candidate that is identified now is the only one without an outcome:  *)
(* recorded as kept, as failed or as both, or lost with the fetch.         *)
LEMMA AccountsIdentified ==
  ASSUME CardsInv, pc # "raised", NEW c, c # Page,
         seen' = seen \union {c},
         \/ kept' \union (failed' \ {Page}) = (kept \union (failed \ {Page})) \union {c}
         \/ UNCHANGED <<kept, failed>> /\ pc' = "raised"
  PROVE  AccountedFor'
<1> DEFINE recorded == kept \union (failed \ {Page})
<1>1. seen = recorded
  BY DEF CardsInv, AccountedFor
<1> QED
  BY <1>1 DEF AccountedFor

(* A candidate is identified for the first and only time.                  *)
LEMMA IdentifiedOnce ==
  ASSUME TypeOK, CardsInv, NEW contacted \in BOOLEAN, Identify(contacted)
  PROVE  /\ TheCandidate \in Candidates /\ TheCandidate \notin kept /\ TheCandidate \notin failed
         /\ TheCandidate # Page
         /\ seen' = seen \union {TheCandidate}
         /\ \A c \in Candidates : contacts'[c] <= 1
         /\ \A c \in Candidates \ seen' : contacts'[c] = 0
<1>1. TheCandidate \in Candidates
  BY CardsAssumption DEF Identify, TypeOK, TheCandidate
<1>2. TheCandidate \notin seen /\ seen' = seen \union {TheCandidate}
  BY DEF Identify
<1>3. contacts[TheCandidate] = 0
  BY <1>1, <1>2 DEF CardsInv
<1>4. contacts' = contacts \/ contacts' = [contacts EXCEPT ![TheCandidate] = @ + 1]
  BY DEF Identify, ContactNow
<1>5. \A c \in Candidates : contacts[c] <= 1
  BY DEF CardsInv, EachCandidateOnce
<1>6. /\ \A c \in Candidates : contacts'[c] <= 1
      /\ \A c \in Candidates \ seen' : contacts'[c] = 0
  <2>1. \A c \in Candidates : contacts'[c] = contacts[c] \/ (c = TheCandidate /\ contacts'[c] = 1)
    BY <1>1, <1>3, <1>4 DEF TypeOK
  <2> QED
    BY <1>2, <1>5, <2>1 DEF CardsInv
<1> QED
  BY <1>1, <1>2, <1>6, PageAssumption DEF CardsInv, AccountedFor

(* One more candidate is counted.                                          *)
LEMMA Counted ==
  ASSUME CardsInv, TheCandidate \notin kept, Count
  PROVE  IsFiniteSet(kept') /\ captured' = Cardinality(kept')
<1>1. kept' = kept \union {TheCandidate} /\ captured' = captured + 1
  BY DEF Count
<1> QED
  BY <1>1, FS_AddElement DEF CardsInv, EachCandidateOnce

(* Every step keeps the account.                                           *)
LEMMA CardsNext ==
  ASSUME TypeOK, CardsInv, [Next]_vars
  PROVE  CardsInv'
<1>1. ASSUME NEW contacted \in BOOLEAN, Identify(contacted), pc' = "loop" \/ pc' = "raised",
             Count \/ UNCHANGED <<captured, kept>>, RecordFailure \/ UNCHANGED failed,
             Count \/ RecordFailure \/ pc' = "raised"
      PROVE  CardsInv'
  <2>1. /\ TheCandidate \notin kept /\ TheCandidate # Page
        /\ seen' = seen \union {TheCandidate}
        /\ \A c \in Candidates : contacts'[c] <= 1
        /\ \A c \in Candidates \ seen' : contacts'[c] = 0
    BY <1>1, IdentifiedOnce
  <2>2. pc # "raised"
    BY <1>1 DEF Identify
  <2>3. IsFiniteSet(kept') /\ captured' = Cardinality(kept')
    BY <1>1, <2>1, Counted DEF CardsInv, EachCandidateOnce
  <2>4. /\ kept' = kept \union {TheCandidate} \/ kept' = kept
        /\ failed' = failed \union {TheCandidate} \/ failed' = failed
    BY <1>1 DEF Count, RecordFailure
  <2>5. CASE kept' = kept /\ failed' = failed /\ ~Count /\ ~RecordFailure
    <3>1. pc' = "raised"
      BY <1>1, <2>5
    <3>2. AccountedFor'
      BY <2>1, <2>2, <2>5, <3>1, AccountsIdentified
    <3> QED
      BY <2>1, <2>3, <3>2 DEF CardsInv, EachCandidateOnce
  <2>6. CASE Count \/ RecordFailure
    <3>1. kept' \union (failed' \ {Page}) = (kept \union (failed \ {Page})) \union {TheCandidate}
      BY <2>1, <2>4, <2>6 DEF Count, RecordFailure
    <3>2. AccountedFor'
      BY <2>1, <2>2, <3>1, AccountsIdentified
    <3> QED
      BY <2>1, <2>3, <3>2 DEF CardsInv, EachCandidateOnce
  <2> QED
    BY <1>1, <2>5, <2>6
<1>2. ASSUME NEW contacted \in BOOLEAN, CardFailed(contacted) \/ CardKept(contacted)
      PROVE  CardsInv'
  BY <1>1, <1>2 DEF CardFailed, CardKept, EndCard
<1>3. CASE /\ UNCHANGED <<seen, captured, kept, contacts>>
           /\ failed' \in {failed, failed \union {Page}}
           /\ pc = "raised" => pc' = "raised"
  BY <1>3, CardsSame
<1>4. CASE Look
  BY <1>4, LookType, CardsSame DEF Look
<1>5. CASE CardUnread \/ NoResults \/ StartBatch \/ Decide
  BY <1>5, <1>3 DEF CardUnread, NoResults, StartBatch, Decide
<1>6. CASE Search \/ LoopEnds \/ LoopCancelled \/ CardSkipped \/ Cancel \/ UNCHANGED vars
  BY <1>6, <1>3 DEF Search, LoopEnds, LoopCancelled, CardSkipped, Cancel, vars, result
<1>7. CASE BrokenOff
  BY <1>1, <1>3, <1>7 DEF BrokenOff, result
<1> QED
  BY <1>2, <1>4, <1>5, <1>6, <1>7 DEF Next, FetchStep

-----------------------------------------------------------------------------
(* The target, and the reason of an empty fetch                            *)

(* Every step respects the target.                                         *)
LEMMA CountNext ==
  ASSUME TypeOK, CountInv, [Next]_vars
  PROVE  CountInv'
<1>0. captured \in Nat /\ Target \in Nat /\ captured <= Target
  BY LimitsAssumption DEF TypeOK, CountInv, TargetAndReason
<1>1. ASSUME NEW contacted \in BOOLEAN, CardKept(contacted)
      PROVE  CountInv'
  BY <1>0, <1>1 DEF CardKept, Count, Identify, EndCard, CountInv, TargetAndReason
<1>2. CASE Look
  <2>1. captured < Target /\ captured' = captured
    BY <1>2 DEF Look
  <2>2. pc' # "done"
    BY <1>2, LookType
  <2> QED
    BY <1>0, <2>1, <2>2 DEF CountInv, TargetAndReason
<1>3. CASE NoResults \/ Decide
  BY <1>0, <1>3 DEF NoResults, Decide, CountInv, TargetAndReason, plan
<1>4. CASE captured' = captured /\ pc' \notin {"done", "card"}
  BY <1>0, <1>4 DEF CountInv, TargetAndReason
<1>5. CASE Search \/ StartBatch \/ LoopEnds \/ LoopCancelled \/ CardSkipped \/ CardUnread
  BY <1>4, <1>5 DEF Search, PageSearched, StartBatch, LoopEnds, LoopCancelled, CardSkipped,
     CardUnread, EndCard, result
<1>6. ASSUME NEW contacted \in BOOLEAN, CardFailed(contacted)
      PROVE  CountInv'
  BY <1>4, <1>6 DEF CardFailed, EndCard
<1>7. CASE Cancel \/ UNCHANGED vars
  BY <1>7 DEF Cancel, vars, result, CountInv, TargetAndReason
<1>8. CASE BrokenOff
  <2>1. captured' = captured \/ (pc = "card" /\ captured' = captured + 1)
    BY <1>8 DEF BrokenOff, Identify, Count, result
  <2> QED
    BY <1>0, <1>8, <2>1 DEF BrokenOff, CountInv, TargetAndReason
<1> QED
  BY <1>1, <1>2, <1>3, <1>5, <1>6, <1>7, <1>8 DEF Next, FetchStep

-----------------------------------------------------------------------------
(* The theorems                                                            *)

(* The invariant holds when the fetch begins.                              *)
LEMMA SearchInvInit == Init => SearchInv
<1> SUFFICES ASSUME Init PROVE SearchInv
  OBVIOUS
<1>1. TypeOK
  BY FirstBand DEF Init, TypeOK, Pcs, Overlays, NewBatch, Bands
<1>2. PlanInv
  BY FirstBand DEF Init, PlanInv, BandInv, WordsInv
<1>3. CardsInv
  BY FS_EmptySet DEF Init, CardsInv, EachCandidateOnce, AccountedFor
<1>4. CountInv
  BY LimitsAssumption DEF Init, CountInv, TargetAndReason
<1> QED
  BY <1>1, <1>2, <1>3, <1>4 DEF SearchInv

(* It holds in every state of a fetch.                                     *)
LEMMA SearchInvariant == Spec => []SearchInv
<1>1. SearchInv /\ [Next]_vars => SearchInv'
  BY TypeNext, PlanNext, CardsNext, CountNext DEF SearchInv
<1> QED
  BY SearchInvInit, <1>1, PTL DEF Spec

(* The plan, the lists and the counters have their types.                  *)
THEOREM SearchTypeCorrect == Spec => []TypeOK
<1>1. SearchInv => TypeOK
  BY DEF SearchInv
<1> QED
  BY SearchInvariant, <1>1, PTL

(* The search stays within what was asked for.                             *)
THEOREM SearchStaysWithin == Spec => []WithinRequest
<1>1. SearchInv => WithinRequest
  <2> SUFFICES ASSUME SearchInv PROVE WithinRequest
    OBVIOUS
  <2>1. words \subseteq asked /\ WordsInv /\ request \in Requests
    BY DEF SearchInv, TypeOK, PlanInv
  <2>2. ASSUME request # Unlimited, request[1] < request[2]
        PROVE  \E y \in request[1]..(request[2] - 1) : Bands[band][1] <= y /\ y < Bands[band][2]
    <3>1. PICK lo \in 0..(Forever - 1), hi \in Nat : request = <<lo, hi>>
      BY <2>1, RequestsAssumption
    <3>2. lo \in Nat /\ lo < Forever /\ lo < hi
      BY <2>2, <3>1 DEF Forever
    <3>3. band \in TrySet(request)
      BY <2>2 DEF SearchInv, PlanInv, BandInv
    <3>4. band \in Intersecting(<<lo, hi>>)
      BY <2>2, <3>1, <3>2, <3>3, SomeBand DEF TrySet
    <3> QED
      BY <3>1, <3>2, <3>4, CommonYear
  <2> QED
    BY <2>1, <2>2 DEF WithinRequest, WordsInv
<1> QED
  BY SearchInvariant, <1>1, PTL

(* No candidate is counted or contacted twice in one fetch.                *)
THEOREM CandidatesCountOnce == Spec => []EachCandidateOnce
<1>1. SearchInv => EachCandidateOnce
  BY DEF SearchInv, CardsInv
<1> QED
  BY SearchInvariant, <1>1, PTL

(* Everybody who was identified is among the captured or the failed, but   *)
(* the one in whose card the fetch was broken off.                         *)
THEOREM EverybodyAccountedFor == Spec => []AccountedFor
<1>1. SearchInv => AccountedFor
  BY DEF SearchInv, CardsInv
<1> QED
  BY SearchInvariant, <1>1, PTL

(* The target is never exceeded, and an empty fetch says why.              *)
THEOREM TargetRespected == Spec => []TargetAndReason
<1>1. SearchInv => TargetAndReason
  BY DEF SearchInv, CountInv
<1> QED
  BY SearchInvariant, <1>1, PTL

(* Every search but the first is a new one.                                *)
THEOREM SearchesAdvance == Spec => SearchAdvances
<1> DEFINE Advances ==
      pc # "search" /\ pc' = "search" =>
        \/ words' # words /\ words' \subseteq words /\ TrySet(request) \subseteq triedBands
        \/ words' = words /\ band' \notin triedBands
<1>1. ASSUME SearchInv, [Next]_vars, pc # "search", pc' = "search"
      PROVE  Advances
  <2>1. NoResults \/ Decide
    <3>1. ~Look
      BY <1>1, LookType DEF SearchInv
    <3> QED
      BY <1>1, <3>1 DEF Next, FetchStep, Search, StartBatch, LoopEnds, LoopCancelled,
         CardSkipped, CardUnread, CardFailed, CardKept, EndCard, Cancel, BrokenOff, vars
  <2>2. UntriedBands(request, triedBands) # {} => NextBand \notin triedBands
    BY NextBandIs
  <2>3. UntriedBands(request, triedBands) = {} => TrySet(request) \subseteq triedBands
    BY DEF UntriedBands
  <2>4. \A w \in Relaxations(words, triedWords) : w \subseteq words /\ w # words
    BY DEF Relaxations, Joined
  <2> QED
    BY <1>1, <2>1, <2>2, <2>3, <2>4 DEF NoResults, Decide
<1>2. SearchInv /\ [Next]_vars => [Advances]_vars
  BY <1>1
<1> QED
  BY SearchInvariant, <1>2, PTL DEF Spec, SearchAdvances
=============================================================================
