---------------------------- MODULE SearchFallback ----------------------------
(***************************************************************************)
(* How a search that finds too few candidates is changed:                  *)
(* services/fetch_worker/experience_fallback.py moves over the bands of    *)
(* years the site offers, keyword_fallback.py drops words.                 *)
(*                                                                         *)
(* A requested experience is an interval of years <<lo, hi>> or Unlimited; *)
(* a band is its position on the ladder, 0 for "any".  Keywords are the    *)
(* set of their words: the code keeps their order only to join them again. *)
(***************************************************************************)
EXTENDS Naturals, Sequences, FiniteSets

CONSTANTS Protected,   \* words is_protected_search_term keeps
          Compounds,   \* of these, compounds that end in the sales word
          sales,       \* the plain sales word
          Screening    \* words of SCREENING_ONLY_TERMS, dropped first

ASSUME WordsAssumption ==
  /\ Compounds \subseteq Protected /\ sales \in Protected \ Compounds
  /\ Screening \intersect Protected = {}

-----------------------------------------------------------------------------
(* Years of experience                                                     *)

Forever == 999

(* _LADDER_BOUNDS                                                          *)
Bands == <<<<0, 1>>, <<1, 3>>, <<3, 5>>, <<5, 10>>, <<10, Forever>>>>

Unlimited == <<0, 0>>     \* the request that any experience will do
DefaultBand == 3          \* "3-5"

MaxOf(a, b) == IF a > b THEN a ELSE b
MinOf(a, b) == IF a < b THEN a ELSE b

(* ladder_options_intersecting: a band that overlaps the request, or that  *)
(* starts in the one year the two have in common.                          *)
Intersects(b, req) ==
  LET from == MaxOf(Bands[b][1], req[1])
      to   == MinOf(Bands[b][2], req[2])
  IN from < to \/ (from = to /\ Bands[b][1] >= req[1] /\ from = req[1])

Intersecting(req) == {b \in DOMAIN Bands : Intersects(b, req)}

(* Mutant of TrySet: the bands on either side are tried as well.           *)
TrySetWidened(req) ==
  IF req = Unlimited THEN {}
  ELSE {b \in DOMAIN Bands : \E c \in Intersecting(req) : b \in {c, c + 1}}

(* experience_try_sequence, in the order of the ladder.                    *)
TrySet(req) ==
  CASE req = Unlimited -> {}
    [] req # Unlimited /\ Intersecting(req) # {} -> Intersecting(req)
    [] OTHER -> {DefaultBand}

Least(S) == CHOOSE x \in S : \A y \in S : x <= y

(* initial_experience_filter                                               *)
InitialBand(req) == IF TrySet(req) = {} THEN 0 ELSE Least(TrySet(req))

(* Mutant of UntriedBands: the band in use counts as untried.              *)
UntriedBandsForgets(req, tried) == TrySet(req)

(* next_experience_fallback returns the first of them, None when empty.    *)
UntriedBands(req, tried) == TrySet(req) \ tried

-----------------------------------------------------------------------------
(* Keywords                                                                *)

(* dedupe_search_keyword_tokens: a compound stands for the sales word.     *)
Joined(words) == IF words \intersect Compounds # {} THEN words \ {sales} ELSE words

(* The words keyword_relaxation_candidates may leave out.                  *)
Droppable(words) == IF Cardinality(words) > 1 THEN words \ Protected ELSE {}

(* The candidates not tried yet, words of screening criteria first; which  *)
(* of several is the longest is left open.                                 *)
Relaxations(words, tried) ==
  LET Fresh(S) == {Joined(words \ {t}) : t \in S} \ (tried \union {words})
      first == Fresh(Droppable(words) \intersect Screening)
  IN IF first # {} THEN first ELSE Fresh(Droppable(words))

(* tokens_have_sales                                                       *)
HasSales(words) == sales \in words \/ words \intersect Compounds # {}
=============================================================================
