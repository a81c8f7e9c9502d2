----------------------------- MODULE ResultsProofs -----------------------------
(***************************************************************************)
(* Theorems about what HR is shown: the resume that opens in the site's    *)
(* library, for any people, folders and caches, and the shortlists and the *)
(* archive of the screening, for any persons, answers and numbers of jobs. *)
(*                                                                         *)
(* LibraryInv: what is kept of the page the tab is on is what it shows, if *)
(* it was so when it was read; the row that is about to be clicked         *)
(* qualifies, and is at its place if it was read from such rows.           *)
(* ScreeningInv: every list, written or about to be, is sound, and every   *)
(* row is of a snapshot that is there.                                     *)
(***************************************************************************)
EXTENDS ResumeLibrary, Screening, SequenceTheorems, FiniteSetTheorems, WellFoundedInduction, TLAPS

-----------------------------------------------------------------------------
(* The first of an order                                                   *)

(* Numbers that are there have a least.                                    *)
LEMMA LeastNat ==
  ASSUME NEW T, T \subseteq Nat, T # {}
  PROVE  \E n \in T : \A m \in T : n <= m
<1>1. IsWellFoundedOn({ss \in Nat \X Nat : ss[1] < ss[2]}, Nat)
  BY NatLessThanWellFounded DEF OpToRel
<1>2. PICK n \in T : \A m \in T : ~(<<m, n>> \in {ss \in Nat \X Nat : ss[1] < ss[2]})
  BY <1>1, WFMin, Zenon
<1>3. ASSUME NEW m \in T PROVE n <= m
  <2>1. n \in Nat /\ m \in Nat
    OBVIOUS
  <2>2. <<m, n>> \in Nat \X Nat /\ ~(m < n)
    BY <1>2, <2>1
  <2> QED
    BY <2>1, <2>2
<1> QED
  BY <1>3

(* Of finitely many numbers one comes first in any order of them all.      *)
LEMMA FirstOfMany ==
  ASSUME NEW n \in Nat, NEW K \in SUBSET (1..n), K # {}, NEW R,
         \A i, j \in 1..n : <<i, j>> \in R \/ <<j, i>> \in R,
         \A i, j, k \in 1..n : <<i, j>> \in R /\ <<j, k>> \in R => <<i, k>> \in R
  PROVE  \E i \in K : \A j \in K : <<i, j>> \in R
<1> DEFINE First(L) == \E i \in L : \A j \in L : <<i, j>> \in R
           Bad == {m \in 0..n : \E L \in SUBSET (1..m) : L # {} /\ ~First(L)}
<1>a. \A m : m \in Bad <=> m \in 0..n /\ \E L \in SUBSET (1..m) : L # {} /\ ~First(L)
  OBVIOUS
<1> HIDE DEF Bad, First
<1>1. ASSUME Bad = {} PROVE First(K)
  BY <1>a, <1>1
<1>2. SUFFICES ASSUME Bad # {} PROVE FALSE
  BY <1>1 DEF First
<1>3. PICK m \in Bad : \A l \in Bad : m <= l
  <2>1. Bad \subseteq Nat
    BY <1>a
  <2> QED
    BY <1>2, <2>1, LeastNat
<1>4. PICK L \in SUBSET (1..m) : L # {} /\ ~First(L)
  BY <1>3, <1>a
<1>5. m \in 1..n /\ m - 1 \in 0..n /\ m - 1 \notin Bad
  <2>1. m \in 0..n
    BY <1>3, <1>a
  <2>2. PICK x \in L : x \in 1..m
    BY <1>4
  <2>3. m - 1 \in 0..n /\ m \in 1..n /\ ~(m <= m - 1)
    BY <2>1, <2>2
  <2> QED
    BY <1>3, <2>3
<1>6. L \ {m} \in SUBSET (1..(m - 1))
  BY <1>4, <1>5
<1>7. \A i \in L : i \in 1..n
  BY <1>4, <1>5
<1>8. <<m, m>> \in R
  BY <1>5
<1>9. L \ {m} # {}
  <2>1. ASSUME L \ {m} = {} PROVE FALSE
    <3>1. m \in L /\ \A j \in L : j = m
      BY <1>4, <2>1, Zenon
    <3> QED
      BY <1>4, <1>8, <3>1 DEF First
  <2> QED
    BY <2>1
<1>10. First(L \ {m})
  BY <1>a, <1>5, <1>6, <1>9
<1>11. PICK b \in L \ {m} : \A j \in L \ {m} : <<b, j>> \in R
  BY <1>10 DEF First
<1>12. CASE m \notin L \/ <<b, m>> \in R
  <2>1. \A j \in L : <<b, j>> \in R
    BY <1>11, <1>12
  <2> QED
    BY <1>4, <1>11, <2>1 DEF First
<1>13. CASE m \in L /\ <<b, m>> \notin R
  <2>1. <<m, b>> \in R
    BY <1>5, <1>7, <1>11, <1>13
  <2>2. \A j \in L : <<m, j>> \in R
    BY <1>5, <1>7, <1>8, <1>11, <2>1
  <2> QED
    BY <1>4, <1>13, <2>2 DEF First
<1> QED
  BY <1>12, <1>13

(* The greatest of finitely many numbers, however they are counted.        *)
LEMMA GreatestIs ==
  ASSUME NEW T \in SUBSET Nat, NEW m \in T, \A x \in T : x <= m
  PROVE  Max(T) = m
<1>1. m \in T /\ \A y \in T : m >= y
  OBVIOUS
<1>2. \A x \in T : (\A y \in T : x >= y) => x = m
  <2> SUFFICES ASSUME NEW x \in T, \A y \in T : x >= y PROVE x = m
    OBVIOUS
  <2>1. x \in Nat /\ m \in Nat /\ x >= m /\ x <= m
    OBVIOUS
  <2> QED
    BY <2>1
<1> QED
  BY <1>1, <1>2 DEF Max

(* Of finitely many scores one is the greatest.                            *)
LEMMA GreatestScore ==
  ASSUME NEW n \in Nat, NEW f \in [1..n -> Nat], NEW K \in SUBSET (1..n), K # {}
  PROVE  \E i \in K : \A j \in K : f[j] <= f[i]
<1> DEFINE R == {p \in (1..n) \X (1..n) : f[p[2]] <= f[p[1]]}
<1>1. \A i, j \in 1..n : <<i, j>> \in R <=> f[j] <= f[i]
  OBVIOUS
<1>2. \A i \in 1..n : f[i] \in Nat
  OBVIOUS
<1> HIDE DEF R
<1>3. \A i, j \in 1..n : <<i, j>> \in R \/ <<j, i>> \in R
  <2> SUFFICES ASSUME NEW i \in 1..n, NEW j \in 1..n PROVE <<i, j>> \in R \/ <<j, i>> \in R
    OBVIOUS
  <2>1. f[i] \in Nat /\ f[j] \in Nat
    BY <1>2
  <2>2. f[j] <= f[i] \/ f[i] <= f[j]
    BY <2>1
  <2> QED
    BY <1>1, <2>2
<1>4. \A i, j, k \in 1..n : <<i, j>> \in R /\ <<j, k>> \in R => <<i, k>> \in R
  BY <1>1, <1>2
<1>5. \E i \in K : \A j \in K : <<i, j>> \in R
  BY <1>3, <1>4, FirstOfMany
<1> QED
  BY <1>1, <1>5

-----------------------------------------------------------------------------
(* Matching                                                                *)

(* Similarities are numbers, so that rows have an order.                   *)
LEMMA ScoresAreNumbers ==
  ASSUME NEW p \in People, NEW row \in People
  PROVE  Lowest(p, row) \in Int /\ Total(p, row) \in Int /\ AgeScore(p, row) \in Int
<1>1. AgeScore(p, row) \in Int
  <2>1. p.age \in Nat /\ row.age \in Nat
    BY LibraryLimits
  <2>2. Distance(p.age, row.age) \in Int
    BY <2>1 DEF Distance
  <2> DEFINE d == Distance(p.age, row.age)
  <2>3. 100 - (100 * d) \div 6 \in Int
    BY <2>2
  <2> HIDE DEF d
  <2>4. (CASE d = 0 -> 100 [] d = 1 -> 92 [] d = 2 -> 84 [] d >= 6 -> 0 [] OTHER -> 100 - (100 * d) \div 6) \in Int
    BY <2>3
  <2> QED
    BY <2>4 DEF AgeScore, d
<1>2. NameScore(p, row) \in Int /\ CompanyScore(p, row) \in Int
  BY DEF NameScore, CompanyScore
<1>3. \A a, b, c \in Int : Min({a, b, c}) \in Int
  <2> SUFFICES ASSUME NEW a \in Int, NEW b \in Int, NEW c \in Int PROVE Min({a, b, c}) \in Int
    OBVIOUS
  <2>1. \E x \in {a, b, c} : \A y \in {a, b, c} : x <= y
    BY SMT
  <2>2. Min({a, b, c}) \in {a, b, c}
    BY <2>1 DEF Min
  <2> QED
    BY <2>2
<1>4. Lowest(p, row) \in Int
  BY <1>1, <1>2, <1>3 DEF Lowest
<1> QED
  BY <1>1, <1>2, <1>4 DEF Total

(* The best of some places is one of them.                                 *)
LEMMA BestIsThere ==
  ASSUME NEW p \in People, NEW rows \in Seq(People),
         NEW places \in SUBSET DOMAIN rows, places # {}
  PROVE  BestOf(p, rows, places) \in places
<1> DEFINE n == Len(rows)
           low == [i \in 1..n |-> Lowest(p, rows[i])]
           all == [i \in 1..n |-> Total(p, rows[i])]
           Beats(i, j) == low[i] > low[j] \/ (low[i] = low[j] /\ all[i] > all[j])
           First(i, j) == Beats(i, j) \/ (~Beats(j, i) /\ i <= j)
           R == {x \in (1..n) \X (1..n) : First(x[1], x[2])}
<1>1. n \in Nat /\ DOMAIN rows = 1..n /\ \A i \in 1..n : rows[i] \in People
  OBVIOUS
<1>2. \A i \in 1..n : low[i] \in Int /\ all[i] \in Int /\ i \in Int
  BY <1>1, ScoresAreNumbers
<1>3. \A i, j \in 1..n : Outranks(p, rows[i], rows[j]) <=> Beats(i, j)
  BY DEF Outranks
<1>4. \A i, j \in 1..n : <<i, j>> \in R <=> First(i, j)
  OBVIOUS
<1> HIDE DEF n, low, all, R
<1>5. \A i, j \in 1..n : <<i, j>> \in R \/ <<j, i>> \in R
  <2> SUFFICES ASSUME NEW i \in 1..n, NEW j \in 1..n PROVE First(i, j) \/ First(j, i)
    BY <1>4
  <2> QED
    BY <1>2
<1>6. \A i, j, k \in 1..n : <<i, j>> \in R /\ <<j, k>> \in R => <<i, k>> \in R
  <2> SUFFICES ASSUME NEW i \in 1..n, NEW j \in 1..n, NEW k \in 1..n, First(i, j), First(j, k)
               PROVE  First(i, k)
    BY <1>4
  <2> QED
    BY <1>2
<1>7. PICK i \in places : \A j \in places : <<i, j>> \in R
  BY <1>1, <1>5, <1>6, FirstOfMany
<1>8. \A j \in places \ {i} : Outranks(p, rows[i], rows[j]) \/ (~Outranks(p, rows[j], rows[i]) /\ i < j)
  <2> SUFFICES ASSUME NEW j \in places \ {i} PROVE Beats(i, j) \/ (~Beats(j, i) /\ i < j)
    BY <1>1, <1>3
  <2>1. First(i, j) /\ i \in 1..n /\ j \in 1..n
    BY <1>1, <1>4, <1>7
  <2> QED
    BY <1>2, <2>1
<1> QED
  BY <1>7, <1>8 DEF BestOf

(* A row that is matched qualifies.                                        *)
LEMMA MatchQualifies ==
  ASSUME NEW p \in People, NEW rows \in Seq(People)
  PROVE  LET i == Match(p, rows)
         IN i \in {None, Ambiguous} \/ (i \in DOMAIN rows /\ Qualifies(p, rows[i]))
<1> DEFINE q == {i \in DOMAIN rows : Qualifies(p, rows[i])}
<1>1. CASE q = {}
  BY <1>1 DEF Match
<1>2. CASE q # {}
  <2>1. BestOf(p, rows, q) \in q
    BY <1>2, BestIsThere
  <2>2. Match(p, rows) \in {Ambiguous, BestOf(p, rows, q)}
    BY <1>2 DEF Match
  <2> QED
    BY <2>1, <2>2
<1> QED
  BY <1>1, <1>2

-----------------------------------------------------------------------------
(* The tab and the caches                                                  *)

Kept == Seq(Seq(People))

Requests ==
  [at : {"navigate", "folder", "wait", "cached", "cachedScan", "again", "scan", "next", "click", "press"},
   then : {"cached", "scan"}, who : People, folder : Folders, page : Nat, row : People,
   top : Nat, place : Nat, attempt : Nat]

Tab(v) ==
  /\ v \in [folder : Folders \union {NoFolder}, page : Pages, rows : Seq(People), settled : BOOLEAN]
  /\ v.settled \/ v.folder \in Folders

(* Of the pages after the one the tab is on no rows are kept that are known*)
(* to have been its own, and of this one only those it shows.              *)
Fresh(v, folder, kept, marked) ==
  folder # NoFolder =>
    \A n \in Pages : kept[folder][n] # <<>> /\ <<folder, n>> \in marked =>
      n <= v.page /\ (n = v.page => kept[folder][n] = <<v.rows>> /\ v.settled)

(* What is about to be clicked qualifies, and is where it was found.       *)
Stands(rq, v, marked) ==
  rq.at \in {"click", "press"} =>
    /\ Qualifies(rq.who, rq.row)
    /\ Aim \in marked => v.settled /\ rq.top \in DOMAIN v.rows /\ v.rows[rq.top] = rq.row
    /\ Aim \in marked /\ rq.at = "press" => v.rows[rq.place] = rq.row

SiteInv ==
  /\ list \in [Folders -> Seq(People)] /\ Tab(shown)
  /\ folderCache \in Folders \union {NoFolder}
  /\ rowCache \in [Folders -> [Pages -> Kept]]
  /\ Fresh(shown, folderCache, rowCache, known)

RequestInv == request = NoRequest \/ (request \in Requests /\ Stands(request, shown, known))

LibraryInv == SiteInv /\ RequestInv /\ OpenedQualifies

(* Pages are numbers from one.                                             *)
LEMMA PagesAre ==
  /\ PageSize \in Nat /\ PageSize >= 1 /\ MaxPages \in Nat /\ MaxPages >= 1
  /\ 1 \in Pages /\ \A n \in Pages : n \in Nat /\ 1 <= n /\ n <= MaxPages
<1>1. PageSize \in Nat \ {0} /\ MaxPages \in Nat \ {0}
  BY LibraryLimits
<1> QED
  BY <1>1 DEF Pages

(* A page of a folder is a row of people.                                  *)
LEMMA ShowsTab ==
  ASSUME list \in [Folders -> Seq(People)], NEW f \in Folders, NEW n \in Pages
  PROVE  Tab(Shows(f, n)) /\ Shows(f, n).page = n
<1>1. list[f] \in Seq(People) /\ Len(list[f]) \in Nat
  OBVIOUS
<1>2. n \in Nat /\ n >= 1 /\ PageSize \in Nat
  BY PagesAre
<1>3. \A a, b \in Nat : a * b \in Nat
  OBVIOUS
<1>4. n * PageSize \in Nat /\ (n - 1) * PageSize \in Nat
  BY <1>2, <1>3
<1> DEFINE last == Min({n * PageSize, Len(list[f])})
           first == (n - 1) * PageSize + 1
<1>5. last \in Nat /\ last <= Len(list[f])
  <2>1. \A a, b \in Nat : Min({a, b}) \in {a, b} /\ Min({a, b}) <= b
    <3> SUFFICES ASSUME NEW a \in Nat, NEW b \in Nat PROVE Min({a, b}) \in {a, b} /\ Min({a, b}) <= b
      OBVIOUS
    <3>1. \E x \in {a, b} : \A y \in {a, b} : x <= y
      OBVIOUS
    <3>2. Min({a, b}) \in {a, b} /\ \A y \in {a, b} : Min({a, b}) <= y
      BY <3>1 DEF Min
    <3> QED
      BY <3>2
  <2> QED
    BY <1>1, <1>4, <2>1
<1>6. first \in Nat /\ first >= 1
  BY <1>4
<1>7. PageOf(f, n) = SubSeq(list[f], first, last)
  BY DEF PageOf
<1> HIDE DEF first, last
<1>8. \A i \in first..last : list[f][i] \in People
  <2>1. \A i \in first..last : i \in 1..Len(list[f])
    BY <1>1, <1>5, <1>6
  <2> QED
    BY <1>1, <2>1
<1>9. PageOf(f, n) \in Seq(People)
  BY <1>5, <1>6, <1>7, <1>8, SubSeqProperties
<1> QED
  BY <1>9 DEF Shows, Tab

(* Rows that are kept are of people, and so are those that are searched.   *)
LEMMA RowsKept ==
  ASSUME SiteInv, NEW n \in Pages
  PROVE  /\ Cached(n) \in Kept /\ Rows(n) \in Seq(People)
         /\ Cached(n) # <<>> => folderCache \in Folders /\ Cached(n) = rowCache[folderCache][n]
<1>1. <<>> \in Kept
  BY DEF Kept
<1>2. CASE folderCache = NoFolder
  BY <1>1, <1>2 DEF Cached, Rows, SiteInv, Tab
<1>3. CASE folderCache # NoFolder
  <2>1. folderCache \in Folders /\ Cached(n) = rowCache[folderCache][n]
    BY <1>3 DEF SiteInv, Cached
  <2>2. Cached(n) \in Kept
    BY <2>1 DEF SiteInv
  <2>3. CASE Cached(n) = <<>>
    BY <2>1, <2>2, <2>3 DEF Rows, SiteInv, Tab
  <2>4. CASE Cached(n) # <<>>
    <3>1. Cached(n) \in Seq(Seq(People)) /\ Cached(n) # <<>>
      BY <2>2, <2>4 DEF Kept
    <3>2. Cached(n)[1] \in Seq(People)
      BY <3>1
    <3> QED
      BY <2>1, <2>2, <2>4, <3>2 DEF Rows
  <2> QED
    BY <2>3, <2>4
<1> QED
  BY <1>2, <1>3

(* The number of a page is one.                                            *)
LEMMA NumbersAre ==
  ASSUME SiteInv, NEW n \in Numbers
  PROVE  n \in Pages
<1>1. n \in {shown.page} \union {1}
  BY DEF Numbers
<1> QED
  BY <1>1, PagesAre DEF SiteInv, Tab

(* A row that is matched qualifies.                                        *)
LEMMA MatchedIs ==
  ASSUME SiteInv, NEW n \in Pages, request.who \in People, Matched(n) \in DOMAIN Rows(n)
  PROVE  /\ Matched(n) \in Nat /\ Rows(n)[Matched(n)] \in People
         /\ Qualifies(request.who, Rows(n)[Matched(n)])
<1>1. Rows(n) \in Seq(People)
  BY RowsKept
<1> DEFINE rows == Rows(n)
           i == Match(request.who, rows)
<1>2. rows \in Seq(People) /\ i \in DOMAIN rows /\ Matched(n) = i
  BY <1>1 DEF Matched
<1> HIDE DEF rows
<1>3. i \in {None, Ambiguous} \/ Qualifies(request.who, rows[i])
  BY <1>2, MatchQualifies
<1>4. i \in Nat /\ i >= 1 /\ rows[i] \in People
  BY <1>2
<1>5. Qualifies(request.who, rows[i])
  BY <1>3, <1>4 DEF None, Ambiguous
<1> QED
  BY <1>2, <1>4, <1>5 DEF rows

(* A row that qualifies has the name.                                      *)
LEMMA QualifyingNames ==
  ASSUME NEW p \in People, NEW row \in People, Qualifies(p, row)
  PROVE  SameName(row, p)
<1> DEFINE a == NameScore(p, row)
           b == AgeScore(p, row)
           c == CompanyScore(p, row)
<1>1. a \in Int /\ b \in Int /\ c \in Int
  <2>1. Total(p, row) \in Int
    BY ScoresAreNumbers
  <2>2. a \in Int /\ c \in Int
    BY DEF NameScore, CompanyScore
  <2>3. b \in Int
    BY ScoresAreNumbers
  <2> QED
    BY <2>2, <2>3
<1>2. Lowest(p, row) = Min({a, b, c}) /\ Lowest(p, row) >= 80
  BY DEF Lowest, Qualifies, Threshold
<1> HIDE DEF a, b, c
<1>3. \E x \in {a, b, c} : \A y \in {a, b, c} : x <= y
  BY <1>1, SMT
<1>4. Min({a, b, c}) \in {a, b, c} /\ \A y \in {a, b, c} : Min({a, b, c}) <= y
  BY <1>3 DEF Min
<1>5. a >= 80
  BY <1>1, <1>2, <1>4
<1> QED
  BY <1>5 DEF a, NameScore, SameName

-----------------------------------------------------------------------------
(* Steps of the tab                                                        *)

(* A page that is read.                                                    *)
LEMMA ScanKeeps ==
  ASSUME SiteInv, NEW n \in Pages, NEW keys \in {{Key(n)}, {Key(n), Aim}}, ScanAs(n, keys),
         UNCHANGED <<list, shown, folderCache>>
  PROVE  /\ SiteInv'
         /\ Aim \in keys /\ Aim \in known' => Rows(n) = shown.rows /\ shown.settled
         /\ Aim \notin keys => (Aim \in known' <=> Aim \in known)
<1> DEFINE good == n = shown.page /\ IF Cached(n) = <<>> THEN shown.settled ELSE Key(n) \in known
<1>1. /\ known' = Marked(known, keys, good)
      /\ rowCache' = IF folderCache = NoFolder THEN rowCache
                     ELSE [rowCache EXCEPT ![folderCache][n] = <<Rows(n)>>]
  BY DEF ScanAs
<1>2. good => Rows(n) = shown.rows /\ shown.settled
  <2>1. ASSUME n = shown.page, Cached(n) # <<>>, Key(n) \in known
        PROVE  Cached(n) = <<shown.rows>> /\ shown.settled
    <3>1. folderCache \in Folders /\ folderCache # NoFolder /\ rowCache[folderCache][n] # <<>>
          /\ rowCache[folderCache][n] = Cached(n)
      BY <2>1, RowsKept DEF Cached
    <3> QED
      BY <2>1, <3>1 DEF SiteInv, Fresh, Key
  <2>2. <<shown.rows>>[1] = shown.rows
    OBVIOUS
  <2>3. CASE Cached(n) = <<>>
    BY <2>3 DEF Rows
  <2>4. CASE Cached(n) # <<>>
    BY <2>1, <2>2, <2>4 DEF Rows
  <2> QED
    BY <2>3, <2>4
<1>3. \A key : key \in known' <=> (IF key \in keys THEN good ELSE key \in known)
  BY <1>1, Zenon DEF Marked
<1>4. Rows(n) \in Seq(People)
  BY RowsKept
<1> HIDE DEF good
<1>5. rowCache' \in [Folders -> [Pages -> Kept]]
  <2>1. <<Rows(n)>> \in Kept
    BY <1>4 DEF Kept
  <2> QED
    BY <1>1, <2>1 DEF SiteInv
<1>6. Fresh(shown', folderCache', rowCache', known')
  <2> SUFFICES ASSUME folderCache # NoFolder, NEW k \in Pages, rowCache'[folderCache][k] # <<>>,
                      <<folderCache, k>> \in known'
               PROVE  k <= shown.page /\ (k = shown.page => rowCache'[folderCache][k] = <<shown.rows>> /\ shown.settled)
    BY DEF Fresh
  <2>1. folderCache \in Folders /\ k \in Nat /\ shown.page \in Nat
    BY PagesAre DEF SiteInv, Tab
  <2>2. rowCache'[folderCache][k] = IF k = n THEN <<Rows(n)>> ELSE rowCache[folderCache][k]
    BY <1>1, <2>1 DEF SiteInv
  <2>3. CASE k = n
    <3>1. <<folderCache, k>> \in keys
      BY <2>3 DEF Key
    <3>2. good
      BY <1>3, <3>1
    <3> QED
      BY <1>2, <2>1, <2>2, <2>3, <3>2 DEF good
  <2>4. CASE k # n
    <3>1. <<folderCache, k>> # Key(n) /\ <<folderCache, k>> # Aim
      BY <2>1, <2>4, PagesAre DEF Key, Aim
    <3>2. <<folderCache, k>> \in known
      BY <1>3, <3>1
    <3> QED
      BY <2>2, <2>4, <3>2 DEF SiteInv, Fresh
  <2> QED
    BY <2>3, <2>4
<1> QED
  BY <1>2, <1>3, <1>5, <1>6 DEF SiteInv

(* Nothing that it speaks of changes.                                      *)
LEMMA SiteSame ==
  ASSUME SiteInv, UNCHANGED <<list, shown, folderCache, rowCache, known>>
  PROVE  SiteInv'
  BY DEF SiteInv

(* The next page is turned to.                                             *)
LEMMA NextTurned ==
  ASSUME SiteInv, HasNext, shown' = Turned(shown.folder, shown.page + 1),
         UNCHANGED <<list, folderCache, rowCache, known>>
  PROVE  SiteInv'
<1>1. shown.page \in Nat /\ shown.page + 1 \in Pages /\ shown' = [shown EXCEPT !.folder = shown.folder, !.page = shown.page + 1, !.settled = FALSE]
  BY PagesAre DEF SiteInv, Tab, HasNext, Pages, Turned
<1>2. Tab(shown') /\ shown'.page = shown.page + 1
  BY <1>1 DEF SiteInv, Tab, HasNext
<1>3. Fresh(shown', folderCache', rowCache', known')
  <2> SUFFICES ASSUME folderCache # NoFolder, NEW k \in Pages, rowCache[folderCache][k] # <<>>,
                      <<folderCache, k>> \in known
               PROVE  k <= shown.page + 1 /\ k # shown.page + 1
    BY <1>2 DEF Fresh
  <2>1. k <= shown.page /\ k \in Nat
    BY PagesAre DEF SiteInv, Fresh
  <2> QED
    BY <1>1, <2>1
<1> QED
  BY <1>2, <1>3 DEF SiteInv

(* A folder is clicked: what was kept of it is forgotten.                  *)
LEMMA FolderClicked ==
  ASSUME SiteInv, request \in Requests, NEW then \in {"cached", "scan"}, NEW page \in Nat,
         ClickFolder(then, page), OpenedQualifies, UNCHANGED list
  PROVE  LibraryInv'
<1>1. request.folder \in Folders /\ shown' = Turned(request.folder, 1)
  BY DEF Requests, ClickFolder
<1>2. Tab(shown') /\ shown'.page = 1
  BY <1>1, PagesAre DEF SiteInv, Tab, Turned
<1>3. CASE /\ folderCache' = request.folder /\ ForgetRows(request.folder)
           /\ request' = [request EXCEPT !.at = "wait", !.then = then, !.page = page]
           /\ UNCHANGED <<known, outcome>>
  <2>1. /\ rowCache' \in [Folders -> [Pages -> Kept]]
        /\ \A n \in Pages : rowCache'[request.folder][n] = <<>>
    <3>1. [n \in Pages |-> <<>>] \in [Pages -> Kept]
      BY DEF Kept
    <3> QED
      BY <1>1, <1>3, <3>1 DEF ForgetRows, SiteInv
  <2>2. SiteInv'
    BY <1>1, <1>2, <1>3, <2>1 DEF SiteInv, Fresh
  <2>3. request' \in Requests /\ request'.at = "wait"
    BY <1>3 DEF Requests
  <2> QED
    BY <1>3, <2>2, <2>3 DEF LibraryInv, RequestInv, Stands, OpenedQualifies
<1>4. CASE known' = {} /\ Ends("failed") /\ UNCHANGED <<folderCache, rowCache>>
  BY <1>2, <1>4 DEF SiteInv, Fresh, Ends, LibraryInv, RequestInv, OpenedQualifies
<1> QED
  BY <1>3, <1>4 DEF ClickFolder

-----------------------------------------------------------------------------
(* Steps of a request                                                      *)

(* A request that is being served.                                         *)
LEMMA Serving ==
  ASSUME LibraryInv, NEW at, request.at = at, at # "idle"
  PROVE  request \in Requests /\ Stands(request, shown, known)
  BY DEF LibraryInv, RequestInv, NoRequest

(* A request that ends opens nobody.                                       *)
LEMMA EndsRequest ==
  ASSUME NEW result, result # "opened", Ends(result)
  PROVE  RequestInv' /\ OpenedQualifies'
  BY DEF Ends, RequestInv, OpenedQualifies

(* A request that goes on has nothing to click yet.                        *)
LEMMA GoesOn ==
  ASSUME OpenedQualifies, UNCHANGED outcome, request' \in Requests, request'.at \notin {"click", "press"}
  PROVE  RequestInv' /\ OpenedQualifies'
  BY DEF RequestInv, OpenedQualifies, Stands

(* HR asks for somebody.                                                   *)
LEMMA AskKeeps ==
  ASSUME LibraryInv, NEW p \in People, NEW f \in Folders, Ask(p, f)
  PROVE  LibraryInv'
<1>1. /\ request' = [at |-> "navigate", then |-> "cached", who |-> p, folder |-> f, page |-> 0,
                     row |-> p, top |-> 0, place |-> 0, attempt |-> 0]
      /\ outcome' = [result |-> "none"]
      /\ UNCHANGED <<list, shown, folderCache, rowCache, known>>
  BY DEF Ask, tabVars, caches, marks
<1>2. request' \in Requests /\ Stands(request', shown', known')
  BY <1>1 DEF Requests, Stands
<1> QED
  BY <1>1, <1>2, SiteSame DEF LibraryInv, RequestInv, OpenedQualifies

(* The library is come to.                                                 *)
LEMMA NavigateKeeps ==
  ASSUME LibraryInv, Navigate
  PROVE  LibraryInv'
<1>1. request \in Requests
  BY Serving DEF Navigate
<1>2. UNCHANGED <<list, known>>
  BY DEF Navigate, tabVars, marks
<1>3. Goes("folder") => request' \in Requests /\ request'.at = "folder"
  BY <1>1 DEF Goes, Requests
<1>4. CASE Goes("folder") /\ UNCHANGED <<shown, folderCache, rowCache, outcome>>
  BY <1>2, <1>3, <1>4, SiteSame, GoesOn DEF LibraryInv
<1>5. CASE /\ folderCache' = NoFolder
           /\ rowCache' = [f \in Folders |-> [n \in Pages |-> <<>>]]
           /\ \/ \E f \in Folders : shown' = Shows(f, 1) /\ Goes("folder") /\ UNCHANGED outcome
              \/ Ends("failed") /\ UNCHANGED shown
  <2>1. rowCache' \in [Folders -> [Pages -> Kept]]
    BY <1>5 DEF Kept
  <2>2. Tab(shown')
    BY <1>5, ShowsTab, PagesAre DEF LibraryInv, SiteInv
  <2>3. SiteInv'
    BY <1>2, <1>5, <2>1, <2>2 DEF LibraryInv, SiteInv, Fresh
  <2> QED
    BY <1>3, <1>5, <2>3, EndsRequest, GoesOn DEF LibraryInv
<1> QED
  BY <1>4, <1>5 DEF Navigate

(* The folder is there, or is turned to.                                   *)
LEMMA SelectFolderKeeps ==
  ASSUME LibraryInv, SelectFolder
  PROVE  LibraryInv'
<1>1. request \in Requests /\ UNCHANGED list
  BY Serving DEF SelectFolder, tabVars
<1>2. CASE Goes("cached") /\ UNCHANGED <<shown, folderCache, rowCache, marks, outcome>>
  <2>1. request' \in Requests /\ request'.at = "cached"
    BY <1>1, <1>2 DEF Goes, Requests
  <2> QED
    BY <1>1, <1>2, <2>1, SiteSame, GoesOn DEF LibraryInv, marks
<1>3. CASE ClickFolder("cached", 0)
  BY <1>1, <1>3, FolderClicked DEF LibraryInv
<1> QED
  BY <1>2, <1>3 DEF SelectFolder

(* The search begins on the first page.                                    *)
LEMMA BeginAgainKeeps ==
  ASSUME LibraryInv, BeginAgain
  PROVE  LibraryInv'
<1>1. request \in Requests /\ UNCHANGED list /\ ClickFolder("scan", 1)
  BY Serving DEF BeginAgain, tabVars
<1> QED
  BY <1>1, FolderClicked DEF LibraryInv

(* Rows are there.                                                         *)
LEMMA WaitKeeps ==
  ASSUME LibraryInv, WaitForRows
  PROVE  LibraryInv'
<1>1. request \in Requests /\ UNCHANGED <<list, shown, folderCache, rowCache, known, outcome>>
  BY Serving DEF WaitForRows, tabVars, caches, marks
<1>2. request' \in Requests /\ request'.at \in {"cached", "scan"}
  BY <1>1 DEF WaitForRows, Goes, Requests
<1> QED
  BY <1>1, <1>2, SiteSame, GoesOn DEF LibraryInv

(* The page that is remembered is come to.                                 *)
LEMMA GoToCachedKeeps ==
  ASSUME LibraryInv, GoToCached
  PROVE  LibraryInv'
<1>1. request \in Requests /\ UNCHANGED <<list, folderCache, rowCache, known, outcome>> /\ SiteInv
  BY Serving DEF GoToCached, tabVars, LibraryInv
<1>2. /\ UNCHANGED shown \/ NextClicked \/ NextMissed
      /\ \/ request' = [request EXCEPT !.at = "scan", !.page = 1]
         \/ Goes("cachedScan") \/ Goes("again")
         \/ \E n \in Numbers : request' = [request EXCEPT !.at = "wait", !.then = "cached", !.page = n]
  BY DEF GoToCached
<1>3. request' \in Requests /\ request'.at \notin {"click", "press"}
  BY <1>1, <1>2, NumbersAre, PagesAre DEF Goes, Requests
<1>4. SiteInv'
  BY <1>1, <1>2, SiteSame, NextTurned DEF NextClicked, NextMissed
<1> QED
  BY <1>1, <1>3, <1>4, GoesOn DEF LibraryInv

(* The next page is searched, or there is none.                            *)
LEMMA NextPageKeeps ==
  ASSUME LibraryInv, NextPage
  PROVE  LibraryInv'
<1>1. request \in Requests /\ UNCHANGED <<list, folderCache, rowCache, known>> /\ SiteInv
  BY Serving DEF NextPage, tabVars, caches, LibraryInv
<1>2. UNCHANGED shown \/ NextClicked \/ NextMissed
  BY DEF NextPage
<1>3. SiteInv'
  BY <1>1, <1>2, SiteSame, NextTurned DEF NextClicked, NextMissed
<1>4. CASE /\ request' = [request EXCEPT !.at = "wait", !.then = "scan", !.page = @ + 1]
           /\ UNCHANGED outcome
  <2>1. request.page + 1 \in Nat /\ request \in Requests
    BY <1>1 DEF Requests
  <2>2. request' = [request EXCEPT !.at = "wait", !.then = "scan", !.page = request.page + 1]
    BY <1>4
  <2>3. request' \in Requests /\ request'.at = "wait"
    BY <2>1, <2>2 DEF Requests
  <2> QED
    BY <1>3, <1>4, <2>3, GoesOn DEF LibraryInv
<1>5. CASE Ends("notFound")
  BY <1>3, <1>5, EndsRequest DEF LibraryInv
<1> QED
  BY <1>4, <1>5 DEF NextPage

(* A row that is found is where it is, if the rows are those of the page.  *)
LEMMA HitKeeps ==
  ASSUME LibraryInv, request \in Requests, NEW n \in Pages, Hit(n),
         UNCHANGED <<list, shown, folderCache, outcome>>
  PROVE  LibraryInv'
<1>1. /\ Matched(n) \in DOMAIN Rows(n) /\ ScanAs(n, {Key(n), Aim}) /\ request.who \in People
      /\ request' = [request EXCEPT !.at = "click", !.row = Rows(n)[Matched(n)], !.top = Matched(n),
                                    !.attempt = 0]
  BY DEF Hit, Requests
<1>2. /\ SiteInv'
      /\ Aim \in known' => Rows(n) = shown.rows /\ shown.settled
  BY <1>1, ScanKeeps DEF LibraryInv
<1>3. /\ Matched(n) \in Nat /\ Rows(n)[Matched(n)] \in People
      /\ Qualifies(request.who, Rows(n)[Matched(n)])
  BY <1>1, MatchedIs DEF LibraryInv
<1>4. /\ request' \in Requests /\ request'.at = "click" /\ request'.who = request.who
      /\ request'.row = Rows(n)[Matched(n)] /\ request'.top = Matched(n)
  BY <1>1, <1>3 DEF Requests
<1>5. Stands(request', shown', known')
  BY <1>1, <1>2, <1>3, <1>4 DEF Stands
<1> QED
  BY <1>2, <1>4, <1>5 DEF LibraryInv, RequestInv, OpenedQualifies

(* The remembered page, or one of the search, is read.                     *)
LEMMA ScanCachedKeeps ==
  ASSUME LibraryInv, ScanCached
  PROVE  LibraryInv'
<1>1. request \in Requests /\ UNCHANGED <<list, shown, folderCache>> /\ SiteInv
  BY Serving DEF ScanCached, tabVars, LibraryInv
<1>2. PICK n \in Numbers :
        \/ Hit(n) /\ UNCHANGED <<matchCache, outcome>>
        \/ Matched(n) = Ambiguous /\ ScanAs(n, {Key(n)}) /\ Ends("ambiguous") /\ UNCHANGED matchCache
        \/ Matched(n) = None /\ ScanAs(n, {Key(n)}) /\ Forget /\ Goes("again") /\ UNCHANGED outcome
  BY DEF ScanCached
<1>3. n \in Pages
  BY <1>1, NumbersAre
<1>4. ScanAs(n, {Key(n)}) => SiteInv'
  BY <1>1, <1>3, ScanKeeps
<1>5. Goes("again") => request' \in Requests /\ request'.at = "again"
  BY <1>1 DEF Goes, Requests
<1> QED
  BY <1>1, <1>2, <1>3, <1>4, <1>5, HitKeeps, EndsRequest, GoesOn DEF LibraryInv

LEMMA ScanPageKeeps ==
  ASSUME LibraryInv, ScanPage
  PROVE  LibraryInv'
<1>1. request \in Requests /\ UNCHANGED <<list, shown, folderCache>> /\ SiteInv
  BY Serving DEF ScanPage, tabVars, LibraryInv
<1>2. PICK n \in Numbers :
        \/ Hit(n) /\ UNCHANGED outcome
        \/ ScanAs(n, {Key(n)}) /\ Ends("ambiguous")
        \/ ScanAs(n, {Key(n)}) /\ Goes("next") /\ UNCHANGED outcome
  BY DEF ScanPage
<1>3. n \in Pages
  BY <1>1, NumbersAre
<1>4. ScanAs(n, {Key(n)}) => SiteInv'
  BY <1>1, <1>3, ScanKeeps
<1>5. Goes("next") => request' \in Requests /\ request'.at = "next"
  BY <1>1 DEF Goes, Requests
<1> QED
  BY <1>1, <1>2, <1>3, <1>4, <1>5, HitKeeps, EndsRequest, GoesOn DEF LibraryInv

(* A row in its place is its own nearest.                                  *)
LEMMA TargetIs ==
  ASSUME SiteInv, request \in Requests, Aim \in inPlace, request.top \in DOMAIN shown.rows,
         shown.rows[request.top] = request.row, NEW i \in Targets
  PROVE  shown.rows[i] = request.row
<1>1. \A m, n \in Nat : Distance(m, n) \in Nat /\ (Distance(m, n) = 0 <=> m = n)
  BY DEF Distance
<1>2. shown.rows \in Seq(People) /\ DOMAIN shown.rows \subseteq Nat
  BY DEF SiteInv, Tab
<1> DEFINE like == {j \in DOMAIN shown.rows : LooksLike(shown.rows[j], request.row)}
           near == {j \in like : Distance(j, request.top) <= 1}
<1>3. Distance(request.top, request.top) = 0
  BY <1>1, <1>2
<1>4. request.top \in near
  BY <1>3 DEF LooksLike
<1>5. i \in near /\ Distance(i, request.top) <= Distance(request.top, request.top)
  BY <1>4 DEF Targets
<1>6. i = request.top
  <2>1. i \in Nat /\ request.top \in Nat
    BY <1>2, <1>5
  <2>2. Distance(i, request.top) \in Nat /\ Distance(i, request.top) <= 0
    BY <1>1, <1>3, <1>5, <2>1
  <2>3. Distance(i, request.top) = 0
    BY <2>2
  <2> QED
    BY <1>1, <2>1, <2>3
<1> QED
  BY <1>6

(* The row is located,                                                     *)
LEMMA LocateKeeps ==
  ASSUME LibraryInv, Locate
  PROVE  LibraryInv'
<1>1. /\ request \in Requests /\ request.at = "click" /\ Stands(request, shown, known) /\ SiteInv
      /\ UNCHANGED <<list, shown, folderCache, rowCache, outcome>>
  BY Serving DEF Locate, tabVars, caches, LibraryInv
<1>2. PICK i \in Targets : request' = [request EXCEPT !.at = "press", !.place = i]
  BY DEF Locate
<1>3. \A key : key \in known' => key \in known /\ (key = Aim => Aim \in inPlace)
  BY Zenon DEF Locate, Marked
<1>4. SiteInv'
  <2>1. Fresh(shown, folderCache, rowCache, known')
    BY <1>1, <1>3 DEF SiteInv, Fresh
  <2> QED
    BY <1>1, <2>1 DEF SiteInv
<1>5. i \in Nat
  <2>1. i \in DOMAIN shown.rows
    BY DEF Targets
  <2> QED
    BY <1>1, <2>1 DEF SiteInv, Tab
<1>6. /\ request' \in Requests /\ request'.at = "press" /\ request'.place = i
      /\ request'.who = request.who /\ request'.row = request.row /\ request'.top = request.top
  BY <1>1, <1>2, <1>5 DEF Requests
<1>7. Aim \in known' => shown.rows[i] = request.row
  BY <1>1, <1>3, TargetIs DEF Stands
<1>8. Stands(request', shown', known')
  BY <1>1, <1>3, <1>6, <1>7 DEF Stands
<1> QED
  BY <1>1, <1>4, <1>6, <1>8 DEF LibraryInv, RequestInv, OpenedQualifies

(* and clicked.                                                            *)
LEMMA ClickKeeps ==
  ASSUME LibraryInv, Click
  PROVE  LibraryInv'
<1>1. /\ request \in Requests /\ request.at = "press" /\ Stands(request, shown, known) /\ SiteInv
      /\ UNCHANGED <<list, shown, folderCache, rowCache, known>>
  BY Serving DEF Click, tabVars, caches, marks, LibraryInv
<1> DEFINE opened == shown.rows[request.place]
<1>2. /\ request.place \in DOMAIN shown.rows /\ SameName(opened, request.row) /\ request' = NoRequest
      /\ outcome' = [result |-> "opened", asked |-> request.who, person |-> opened,
                     sure |-> Aim \in known]
  BY DEF Click
<1>3. request.who \in People /\ request.row \in People /\ Qualifies(request.who, request.row)
  BY <1>1 DEF Stands, Requests
<1>4. SameName(opened, request.who)
  BY <1>2, <1>3, QualifyingNames DEF SameName
<1>5. Aim \in known => opened = request.row
  BY <1>1 DEF Stands
<1> HIDE DEF opened
<1>6. outcome'.asked = request.who /\ outcome'.person = opened /\ (outcome'.sure <=> Aim \in known)
  BY <1>2
<1>7. OpenedQualifies'
  BY <1>3, <1>4, <1>5, <1>6 DEF OpenedQualifies
<1> QED
  BY <1>1, <1>2, <1>7, SiteSame DEF LibraryInv, RequestInv

(* Another attempt is at a row that qualifies, too.                        *)
LEMMA RefreshedKeeps ==
  ASSUME LibraryInv, request \in Requests, Stands(request, shown, known), request.at \in {"click", "press"},
         NEW n \in Pages, Refreshed(n), UNCHANGED <<list, shown, folderCache, outcome>>
  PROVE  LibraryInv'
<1> DEFINE same == {i \in DOMAIN Rows(n) : Rows(n)[i] = request.row}
           anew == [request EXCEPT !.at = "click", !.place = 0, !.attempt = @ + 1]
<1>1. /\ request.who \in People /\ request.row \in People /\ request.attempt + 1 \in Nat
      /\ Qualifies(request.who, request.row)
  BY DEF Requests, Stands
<1>2. /\ anew \in Requests /\ anew.at = "click" /\ anew.who = request.who /\ anew.row = request.row
      /\ anew.top = request.top
  BY <1>1 DEF Requests
<1>3. Rows(n) \in Seq(People)
  BY RowsKept DEF LibraryInv
<1>4. ASSUME NEW top \in DOMAIN Rows(n), Qualifies(request.who, Rows(n)[top]), ScanAs(n, {Key(n), Aim}),
             request' = [anew EXCEPT !.row = Rows(n)[top], !.top = top]
      PROVE  LibraryInv'
  <2>1. SiteInv' /\ (Aim \in known' => Rows(n) = shown.rows /\ shown.settled)
    BY <1>4, ScanKeeps DEF LibraryInv
  <2>2. top \in Nat /\ Rows(n)[top] \in People
    BY <1>3, <1>4
  <2> HIDE DEF anew
  <2>3. /\ request' \in Requests /\ request'.at = "click" /\ request'.who = request.who
        /\ request'.row = Rows(n)[top] /\ request'.top = top
    BY <1>2, <1>4, <2>2 DEF Requests
  <2>4. Stands(request', shown', known')
    BY <1>4, <2>1, <2>3 DEF Stands
  <2> QED
    BY <2>1, <2>3, <2>4 DEF LibraryInv, RequestInv, OpenedQualifies
<1>5. CASE /\ Matched(n) \in DOMAIN Rows(n) /\ ScanAs(n, {Key(n), Aim})
           /\ request' = [anew EXCEPT !.row = Rows(n)[Matched(n)], !.top = Matched(n)]
  BY <1>1, <1>4, <1>5, MatchedIs DEF LibraryInv
<1>6. CASE /\ same # {} /\ ScanAs(n, {Key(n), Aim})
           /\ request' = [anew EXCEPT !.top = Min(same)]
  <2>1. PICK i \in same : \A j \in same : i <= j
    <3>1. same \subseteq Nat
      BY <1>3
    <3> QED
      BY <1>6, <3>1, LeastNat
  <2>2. Min(same) \in same
    BY <2>1 DEF Min
  <2>3. Min(same) \in DOMAIN Rows(n) /\ Rows(n)[Min(same)] = request.row
    BY <2>2
  <2>4. [anew EXCEPT !.row = request.row, !.top = Min(same)] = [anew EXCEPT !.top = Min(same)]
    <3> HIDE DEF anew, same
    <3> QED
      BY <1>2 DEF Requests
  <2> QED
    BY <1>1, <1>4, <1>6, <2>3, <2>4
<1>7. CASE ScanAs(n, {Key(n)}) /\ request' = anew
  <2>1. Aim \notin {Key(n)}
    BY PagesAre DEF Key, Aim
  <2>2. SiteInv' /\ (Aim \in known' <=> Aim \in known)
    BY <1>7, <2>1, ScanKeeps DEF LibraryInv
  <2> HIDE DEF anew
  <2>3. Stands(request', shown', known')
    BY <1>2, <1>7, <2>2 DEF Stands
  <2> QED
    BY <1>2, <1>7, <2>2, <2>3 DEF LibraryInv, RequestInv, OpenedQualifies
<1> QED
  BY <1>5, <1>6, <1>7 DEF Refreshed

(* The click is tried again, or no more.                                   *)
LEMMA RetryKeeps ==
  ASSUME LibraryInv, Retry
  PROVE  LibraryInv'
<1>1. /\ request \in Requests /\ request.at \in {"click", "press"} /\ Stands(request, shown, known) /\ SiteInv
      /\ UNCHANGED <<list, shown, folderCache>>
  BY Serving DEF Retry, tabVars, LibraryInv
<1>2. CASE \E n \in Numbers :
             \/ Refreshed(n) /\ UNCHANGED outcome
             \/ ScanAs(n, {Key(n)}) /\ Ends("ambiguous")
  <2>1. PICK n \in Numbers : \/ Refreshed(n) /\ UNCHANGED outcome
                             \/ ScanAs(n, {Key(n)}) /\ Ends("ambiguous")
    BY <1>2
  <2>2. n \in Pages
    BY <1>1, NumbersAre
  <2>3. ScanAs(n, {Key(n)}) => SiteInv'
    BY <1>1, <2>2, ScanKeeps
  <2> QED
    BY <1>1, <2>1, <2>2, <2>3, RefreshedKeeps, EndsRequest DEF LibraryInv
<1>3. CASE Ends("notOpened") /\ UNCHANGED <<rowCache, marks>>
  BY <1>1, <1>3, SiteSame, EndsRequest DEF LibraryInv, marks
<1> QED
  BY <1>2, <1>3 DEF Retry

(* The request is given up.                                                *)
LEMMA GivesUpKeeps ==
  ASSUME LibraryInv, GivesUpOpening
  PROVE  LibraryInv'
<1>1. SiteInv'
  BY SiteSame DEF GivesUpOpening, tabVars, caches, marks, LibraryInv
<1> QED
  BY <1>1, EndsRequest DEF GivesUpOpening, LibraryInv

-----------------------------------------------------------------------------
(* Steps of the site                                                       *)

(* Rows come, and somebody scrolls.                                        *)
LEMMA RowsKeep ==
  ASSUME LibraryInv, RowsArrive \/ Scrolls
  PROVE  LibraryInv'
<1>1. UNCHANGED <<list, folderCache, rowCache, known, request, outcome>>
  BY DEF RowsArrive, Scrolls, tabVars, caches, marks
<1>2. CASE UNCHANGED shown
  BY <1>1, <1>2, SiteSame DEF LibraryInv, RequestInv, OpenedQualifies
<1>3. CASE ~shown.settled /\ shown' = Shows(shown.folder, shown.page)
  <2>1. shown.folder \in Folders /\ shown.page \in Pages
    BY <1>3 DEF LibraryInv, SiteInv, Tab
  <2>2. Tab(shown') /\ shown'.page = shown.page
    BY <1>3, <2>1, ShowsTab DEF LibraryInv, SiteInv
  <2>3. Fresh(shown', folderCache', rowCache', known')
    BY <1>1, <1>3, <2>2 DEF LibraryInv, SiteInv, Fresh
  <2>4. RequestInv'
    BY <1>1, <1>3 DEF LibraryInv, RequestInv, Stands
  <2> QED
    BY <1>1, <2>2, <2>3, <2>4 DEF LibraryInv, SiteInv, OpenedQualifies
<1> QED
  BY <1>2, <1>3 DEF RowsArrive, Scrolls

(* The lists change behind the tab.                                        *)
LEMMA ListsKeep ==
  ASSUME LibraryInv, ListChanges
  PROVE  LibraryInv'
<1>1. UNCHANGED <<shown, folderCache, rowCache, known, request, outcome>>
  BY DEF ListChanges, caches, marks
<1>2. list' \in [Folders -> Seq(People)]
  <2>1. PICK f \in Folders :
          \/ \E p \in People \ ToSet(list[f]) : list' = [list EXCEPT ![f] = <<p>> \o @]
          \/ \E i \in DOMAIN list[f] : list' = [list EXCEPT ![f] = RemoveAt(@, i)]
    BY DEF ListChanges
  <2>2. list \in [Folders -> Seq(People)] /\ list[f] \in Seq(People)
    BY DEF LibraryInv, SiteInv
  <2>3. ASSUME NEW p \in People PROVE <<p>> \o list[f] \in Seq(People)
    BY <2>2
  <2>4. ASSUME NEW i \in DOMAIN list[f] PROVE RemoveAt(list[f], i) \in Seq(People)
    <3>1. i \in Nat /\ i >= 1 /\ i <= Len(list[f]) /\ Len(list[f]) \in Nat
      BY <2>2
    <3>2. SubSeq(list[f], 1, i - 1) \in Seq(People)
      <4>1. \A j \in 1..(i - 1) : list[f][j] \in People
        BY <2>2, <3>1
      <4> QED
        BY <3>1, <4>1, SubSeqProperties
    <3>3. SubSeq(list[f], i + 1, Len(list[f])) \in Seq(People)
      <4>1. \A j \in (i + 1)..Len(list[f]) : list[f][j] \in People
        BY <2>2, <3>1
      <4> QED
        BY <3>1, <4>1, SubSeqProperties
    <3> QED
      BY <3>2, <3>3 DEF RemoveAt
  <2> QED
    BY <2>1, <2>2, <2>3, <2>4
<1> QED
  BY <1>1, <1>2 DEF LibraryInv, SiteInv, RequestInv, OpenedQualifies

(* Whoever turns the tab, no more is known of it.                          *)
LEMMA TurnKeeps ==
  ASSUME LibraryInv, TabTurned
  PROVE  LibraryInv'
<1>1. UNCHANGED <<list, folderCache, rowCache, request, outcome>> /\ known' = {}
  BY DEF TabTurned, tabVars, caches
<1>2. Tab(shown')
  <2>1. Tab(Elsewhere)
    BY PagesAre DEF Elsewhere, Tab
  <2> QED
    BY <2>1, ShowsTab DEF TabTurned, LibraryInv, SiteInv
<1>3. SiteInv'
  BY <1>1, <1>2 DEF LibraryInv, SiteInv, Fresh
<1>4. RequestInv'
  BY <1>1 DEF LibraryInv, RequestInv, Stands
<1> QED
  BY <1>1, <1>3, <1>4 DEF LibraryInv, OpenedQualifies

-----------------------------------------------------------------------------
(* Nothing is shown or kept at first.                                      *)
LEMMA LibraryStarts ==
  LibraryInit => LibraryInv
<1> SUFFICES ASSUME LibraryInit PROVE LibraryInv
  OBVIOUS
<1>1. /\ list \in [Folders -> Seq(People)] /\ shown = Elsewhere /\ folderCache = NoFolder
      /\ rowCache = [f \in Folders |-> [n \in Pages |-> <<>>]]
      /\ request = NoRequest /\ outcome = [result |-> "none"]
  BY LibraryLimits DEF LibraryInit
<1>2. Tab(shown)
  BY <1>1, PagesAre DEF Elsewhere, Tab
<1>3. rowCache \in [Folders -> [Pages -> Kept]]
  BY <1>1 DEF Kept
<1> QED
  BY <1>1, <1>2, <1>3 DEF LibraryInv, SiteInv, Fresh, RequestInv, OpenedQualifies

(* The invariant of the library holds, whatever the site does.             *)
LEMMA LibraryInvariant ==
  LibrarySpec => []LibraryInv
<1>1. LibraryInv /\ [LibraryNext]_libraryVars => LibraryInv'
  <2> SUFFICES ASSUME LibraryInv, [LibraryNext]_libraryVars PROVE LibraryInv'
    OBVIOUS
  <2>1. CASE UNCHANGED libraryVars
    BY <2>1 DEF libraryVars, tabVars, caches, marks, LibraryInv, SiteInv, RequestInv, OpenedQualifies
  <2> QED
    BY <2>1, AskKeeps, NavigateKeeps, SelectFolderKeeps, WaitKeeps, GoToCachedKeeps, ScanCachedKeeps,
       BeginAgainKeeps, ScanPageKeeps, NextPageKeeps, LocateKeeps, ClickKeeps, RetryKeeps, GivesUpKeeps,
       RowsKeep, ListsKeep, TurnKeeps DEF LibraryNext, Open
<1> QED
  BY <1>1, LibraryStarts, PTL DEF LibrarySpec

(* Whatever the site does, the resume that opens is one of the name; and   *)
(* whoever is collected or taken out meanwhile, it fits in every field if  *)
(* the rows were those of the page and have not scrolled since.            *)
THEOREM TheRightResumeOpens == LibrarySpec => []OpenedQualifies
<1>1. LibraryInv => OpenedQualifies
  BY DEF LibraryInv
<1> QED
  BY <1>1, LibraryInvariant, PTL

(* The rows that are kept for the page the tab is on are those it shows,   *)
(* if they were so when they were read.                                    *)
THEOREM CachesAreCurrent == LibrarySpec => []CacheIsShown
<1>1. LibraryInv => CacheIsShown
  <2> SUFFICES ASSUME LibraryInv, shown.folder # NoFolder, Cached(shown.page) # <<>>,
                      Key(shown.page) \in known
               PROVE  Cached(shown.page)[1] = shown.rows
    BY DEF CacheIsShown
  <2>1. shown.page \in Pages /\ folderCache # NoFolder /\ rowCache[folderCache][shown.page] = Cached(shown.page)
    BY DEF LibraryInv, SiteInv, Tab, Cached
  <2>2. rowCache[folderCache][shown.page] = <<shown.rows>>
    BY <2>1 DEF LibraryInv, SiteInv, Fresh, Key
  <2> QED
    BY <2>1, <2>2
<1> QED
  BY <1>1, LibraryInvariant, PTL

-----------------------------------------------------------------------------
(* Results and shortlists                                                  *)

Levels == Rankable \union {"exclude", "reject"} \union {o.level : o \in Outcomes}

Entry == [snap : Nat, round : Nat, score : Nat, level : Levels]

(* A shortlist that is sound, of snapshots that are there.                 *)
Listed(ps, e, batch) ==
  /\ e \in Seq(Entry) /\ Len(e) <= TopK
  /\ \A i \in DOMAIN e : e[i].snap \in DOMAIN ps
  /\ \A i, j \in DOMAIN e : i < j =>
       /\ e[i].score >= e[j].score /\ e[i].snap # e[j].snap
       /\ ~batch => ps[e[i].snap] # ps[e[j].snap]

(* Rows of snapshots that are there.                                       *)
Rowed(rows) == rows \in Seq(Entry) /\ \A k \in DOMAIN rows : rows[k].snap \in DOMAIN person

(* The best score is one of the scores, or none.                           *)
BestOfAll(p) ==
  LET scores == {0} \union {results[k].score : k \in Archived(results, p)}
  IN archive[p].best \in scores /\ \A x \in scores : x <= archive[p].best

Results ==
  /\ person \in Seq(Persons) /\ unscreened \subseteq DOMAIN person
  /\ Rowed(results) /\ \A p \in Persons : BestOfAll(p)

Ranked ==
  /\ lists \in Seq([entries : Seq(Entry), batch : BOOLEAN])
  /\ shortlist \in 0..Len(lists)
  /\ \A l \in DOMAIN lists : Listed(person, lists[l].entries, lists[l].batch)

(* What the job and the judgment read before they write.                   *)
JobFits(jb) ==
  /\ jb.at = "finalize" => Listed(person, jb.entries, FALSE)
  /\ jb.at = "batch" => \E n \in 0..Len(person) : jb.snapshots = 1..n
  /\ jb.at = "mark" => jb.list \in 0..Len(lists)

JudgeFits(jd) ==
  jd.at = "asks" => jd.snap \in DOMAIN person /\ jd.score \in Nat /\ jd.list \in 0..Len(lists)

ScreeningInv ==
  /\ Results /\ Ranked /\ JobFits(job)
  /\ DOMAIN judges = Judges /\ \A a \in Judges : JudgeFits(judges[a])

(* What a row holds.                                                       *)
LEMMA EntryFields ==
  ASSUME NEW e \in Entry
  PROVE  e.snap \in Nat /\ e.round \in Nat /\ e.score \in Nat
  BY DEF Entry

(* What rows are.                                                          *)
LEMMA RowsAre ==
  ASSUME NEW rows \in Seq(Entry)
  PROVE  /\ DOMAIN rows = 1..Len(rows) /\ Len(rows) \in Nat
         /\ \A k \in DOMAIN rows : /\ rows[k] \in Entry /\ k \in Nat /\ rows[k].snap \in Nat
                                   /\ rows[k].round \in Nat /\ rows[k].score \in Nat
<1>1. DOMAIN rows = 1..Len(rows) /\ Len(rows) \in Nat
  OBVIOUS
<1>2. \A k \in DOMAIN rows : rows[k] \in Entry /\ k \in Nat
  BY <1>1
<1> QED
  BY <1>1, <1>2, EntryFields

(* The latest row of a snapshot is one of its rows.                        *)
LEMMA LatestIsRow ==
  ASSUME NEW rows \in Seq(Entry), NEW i, RowsOf(rows, i) # {}
  PROVE  Latest(rows, i) \in RowsOf(rows, i)
<1> DEFINE n == Len(rows)
           K == RowsOf(rows, i)
           Later(k, j) == rows[j].round < rows[k].round \/ (rows[j].round = rows[k].round /\ j <= k)
           R == {p \in (1..n) \X (1..n) : Later(p[1], p[2])}
<1>1. n \in Nat /\ DOMAIN rows = 1..n /\ \A k \in 1..n : k \in Nat /\ rows[k].round \in Nat
  BY RowsAre
<1>2. K \in SUBSET (1..n) /\ K # {}
  BY <1>1 DEF RowsOf
<1>3. \A k, j \in 1..n : <<k, j>> \in R <=> Later(k, j)
  OBVIOUS
<1>4. \A k, j \in 1..n : <<k, j>> \in R \/ <<j, k>> \in R
  <2> SUFFICES ASSUME NEW k \in 1..n, NEW j \in 1..n PROVE Later(k, j) \/ Later(j, k)
    BY <1>3
  <2>1. rows[k].round \in Nat /\ rows[j].round \in Nat /\ k \in Nat /\ j \in Nat
    BY <1>1
  <2> QED
    BY <2>1
<1>5. \A k, j, l \in 1..n : <<k, j>> \in R /\ <<j, l>> \in R => <<k, l>> \in R
  <2> SUFFICES ASSUME NEW k \in 1..n, NEW j \in 1..n, NEW l \in 1..n, Later(k, j), Later(j, l)
               PROVE  Later(k, l)
    BY <1>3
  <2>1. /\ rows[k].round \in Nat /\ rows[j].round \in Nat /\ rows[l].round \in Nat
        /\ k \in Nat /\ j \in Nat /\ l \in Nat
    BY <1>1
  <2> QED
    BY <2>1
<1> HIDE DEF R, n, K
<1>6. PICK k \in K : \A j \in K : <<k, j>> \in R
  BY <1>1, <1>2, <1>4, <1>5, FirstOfMany
<1>7. \A j \in K : Later(k, j)
  BY <1>2, <1>3, <1>6
<1> QED
  BY <1>6, <1>7 DEF Latest, K

(* The current results: one for each snapshot that has been screened.      *)
LEMMA CurrentIs ==
  ASSUME NEW rows, Rowed(rows), person \in Seq(Persons)
  PROVE  /\ Current(rows) \subseteq Entry /\ IsFiniteSet(Current(rows))
         /\ \A r \in Current(rows) : r.snap \in DOMAIN person
         /\ \A r, s \in Current(rows) : r.snap = s.snap => r = s
<1> DEFINE I == {i \in DOMAIN person : RowsOf(rows, i) # {}}
           f == [i \in I |-> rows[Latest(rows, i)]]
<1>1. rows \in Seq(Entry)
  BY DEF Rowed
<1>2. ASSUME NEW i \in I
      PROVE  rows[Latest(rows, i)] \in Entry /\ rows[Latest(rows, i)].snap = i /\ i \in DOMAIN person
  <2>1. Latest(rows, i) \in RowsOf(rows, i)
    BY <1>1, LatestIsRow
  <2> QED
    BY <1>1, <2>1, RowsAre DEF RowsOf
<1>3. Current(rows) = {f[i] : i \in I}
  BY DEF Current
<1>4. \A r \in Current(rows) : \E i \in I : r = rows[Latest(rows, i)]
  BY DEF Current
<1>5. IsFiniteSet(I)
  <2>1. DOMAIN person = 1..Len(person) /\ Len(person) \in Nat
    OBVIOUS
  <2>2. IsFiniteSet(1..Len(person))
    BY <2>1, FS_Interval
  <2> QED
    BY <2>1, <2>2, FS_Subset
<1>6. f \in Surjection(I, Current(rows))
  BY <1>3 DEF Surjection
<1>7. IsFiniteSet(Current(rows))
  <2> HIDE DEF f, I
  <2> QED
    BY <1>5, <1>6, FS_Surjection
<1>8. /\ Current(rows) \subseteq Entry
      /\ \A r \in Current(rows) : r.snap \in DOMAIN person
  BY <1>2, <1>4
<1>9. \A r, s \in Current(rows) : r.snap = s.snap => r = s
  <2> SUFFICES ASSUME NEW r \in Current(rows), NEW s \in Current(rows), r.snap = s.snap PROVE r = s
    OBVIOUS
  <2>1. PICK i \in I : r = rows[Latest(rows, i)]
    BY <1>4
  <2>2. PICK j \in I : s = rows[Latest(rows, j)]
    BY <1>4
  <2>3. i = j
    BY <1>2, <2>1, <2>2
  <2> QED
    BY <2>1, <2>2, <2>3
<1> QED
  BY <1>7, <1>8, <1>9

(* One of them for each person.                                            *)
LEMMA PerPersonIs ==
  ASSUME NEW S, S \subseteq Entry, IsFiniteSet(S), \A r, s \in S : r.snap = s.snap => r = s
  PROVE  /\ PerPerson(S) \subseteq S /\ IsFiniteSet(PerPerson(S))
         /\ \A r, s \in PerPerson(S) : person[r.snap] = person[s.snap] => r = s
<1>1. PerPerson(S) \subseteq S
  BY DEF PerPerson
<1>2. ASSUME NEW r \in PerPerson(S), NEW s \in PerPerson(S), person[r.snap] = person[s.snap]
      PROVE  r = s
  <2>1. r \in S /\ s \in S /\ r.snap \in Nat /\ s.snap \in Nat /\ r.score \in Nat /\ s.score \in Nat
    BY <1>1, EntryFields
  <2>2. /\ s.score < r.score \/ (s.score = r.score /\ s.snap <= r.snap)
        /\ r.score < s.score \/ (r.score = s.score /\ r.snap <= s.snap)
    BY <1>2 DEF PerPerson
  <2>3. r.snap = s.snap
    BY <2>1, <2>2
  <2> QED
    BY <2>1, <2>3
<1> QED
  BY <1>1, <1>2, FS_Subset

(* A shortlist of results with a snapshot each is sound.                   *)
LEMMA ShortlistIsListed ==
  ASSUME NEW S, S \subseteq Entry, IsFiniteSet(S), \A r, s \in S : r.snap = s.snap => r = s,
         \A r \in S : r.snap \in DOMAIN person,
         NEW batch \in BOOLEAN, ~batch => \A r, s \in S : person[r.snap] = person[s.snap] => r = s,
         NEW l \in Shortlists(S)
  PROVE  l \in Seq(Entry) /\ Listed(person, l, batch)
<1> DEFINE listed == {r \in S : r.level \in Rankable /\ (r.level = "observe" => r.score >= MinScore)}
<1>1. PICK s \in SetToSeqs(listed) :
        /\ \A i, j \in DOMAIN s : i < j => s[i].score >= s[j].score
        /\ l = SubSeq(s, 1, Min({TopK, Len(s)}))
  BY DEF Shortlists
<1> DEFINE n == Cardinality(listed)
<1>2. n \in Nat /\ listed \subseteq S
  BY FS_Subset, FS_CardinalityType
<1> HIDE DEF n, listed
<1>3. s \in [1..n -> listed] /\ \A i, j \in 1..n : i # j => s[i] # s[j]
  BY <1>1 DEF SetToSeqs, n
<1>4. s \in Seq(S) /\ Len(s) = n /\ DOMAIN s = 1..n
  BY <1>2, <1>3
<1> DEFINE m == Min({TopK, Len(s)})
<1>5. m \in Nat /\ m <= TopK /\ m <= n
  <2>1. TopK \in Nat
    BY ScreeningLimits
  <2>2. \A x \in {TopK, n} : (\A y \in {TopK, n} : x <= y) => x \in Nat /\ x <= TopK /\ x <= n
    BY <1>2, <2>1
  <2>3. \E x \in {TopK, n} : \A y \in {TopK, n} : x <= y
    BY <1>2, <2>1
  <2> QED
    BY <1>4, <2>2, <2>3 DEF Min
<1> HIDE DEF m
<1>6. l \in Seq(S) /\ Len(l) = m /\ DOMAIN l = 1..m /\ \A i \in 1..m : l[i] = s[i]
  <2>1. l = SubSeq(s, 1, m) /\ 1 \in 1..(Len(s) + 1) /\ m \in 0..Len(s)
    BY <1>1, <1>2, <1>4, <1>5 DEF m
  <2>2. \A i \in 1..m : i \in 1..n /\ s[i] \in S
    BY <1>2, <1>4, <1>5
  <2>3. l = [i \in 1..m |-> s[i]]
    BY <1>4, <1>5, <2>1
  <2> QED
    BY <1>5, <2>2, <2>3
<1>7. \A i \in 1..m : i \in 1..n /\ s[i] \in S
  BY <1>2, <1>3, <1>5
<1>8. ASSUME NEW i \in 1..m, NEW j \in 1..m, i < j
      PROVE  /\ l[i].score >= l[j].score /\ l[i].snap # l[j].snap
             /\ ~batch => person[l[i].snap] # person[l[j].snap]
  <2>1. l[i] = s[i] /\ l[j] = s[j] /\ s[i] \in S /\ s[j] \in S /\ i \in DOMAIN s /\ j \in DOMAIN s
    BY <1>4, <1>6, <1>7
  <2>2. s[i] # s[j]
    BY <1>3, <1>7, <1>8
  <2> QED
    BY <1>1, <1>8, <2>1, <2>2
<1>9. l \in Seq(Entry)
  BY <1>6
<1> QED
  BY <1>5, <1>6, <1>7, <1>8, <1>9 DEF Listed

(* So is the ranking of the current results.                               *)
LEMMA RankingIsListed ==
  ASSUME NEW rows, Rowed(rows), person \in Seq(Persons),
         NEW l \in Shortlists(PerPerson(Current(rows)))
  PROVE  l \in Seq(Entry) /\ Listed(person, l, FALSE)
<1> DEFINE C == Current(rows)
           S == PerPerson(C)
           batch == FALSE
<1>1. /\ C \subseteq Entry /\ IsFiniteSet(C) /\ \A r \in C : r.snap \in DOMAIN person
      /\ \A r, s \in C : r.snap = s.snap => r = s
  BY CurrentIs
<1> HIDE DEF C
<1>2. /\ S \subseteq C /\ IsFiniteSet(S)
      /\ \A r, s \in S : person[r.snap] = person[s.snap] => r = s
  BY <1>1, PerPersonIs
<1>3. l \in Shortlists(S)
  BY DEF C
<1> HIDE DEF S
<1>4. S \subseteq Entry /\ (\A r, s \in S : r.snap = s.snap => r = s) /\ \A r \in S : r.snap \in DOMAIN person
  BY <1>1, <1>2
<1>5. batch \in BOOLEAN /\ (~batch => \A r, s \in S : person[r.snap] = person[s.snap] => r = s)
  BY <1>2
<1>6. l \in Seq(Entry) /\ Listed(person, l, batch)
  <2> HIDE DEF batch
  <2> QED
    BY <1>2, <1>3, <1>4, <1>5, ShortlistIsListed
<1> QED
  BY <1>6

-----------------------------------------------------------------------------
(* Results are saved                                                       *)

(* A new row.                                                              *)
LEMMA RowIsEntry ==
  ASSUME NEW i \in Nat, NEW n \in Nat, NEW o, o.score \in Nat, o.level \in Levels
  PROVE  Row(i, n, o) \in Entry /\ Row(i, n, o).snap = i
  BY DEF Row, Entry

(* The rows of a person, and those some others add to them.                *)
Adds(old, rows, all, p) ==
  /\ \A k \in Archived(all, p) :
       \/ k \in Archived(old, p) /\ all[k] = old[k]
       \/ \E j \in Archived(rows, p) : all[k] = rows[j]
  /\ \A k \in Archived(old, p) : k \in Archived(all, p) /\ all[k] = old[k]
  /\ \A j \in Archived(rows, p) : \E k \in Archived(all, p) : all[k] = rows[j]

(* Rows that are saved add themselves to their persons'.                   *)
LEMMA ArchivedMore ==
  ASSUME NEW old \in Seq(Entry), NEW rows \in Seq(Entry), NEW p \in Persons,
         NEW all \in Seq(Entry), all = old \o rows
  PROVE  Adds(old, rows, all, p)
<1>1. /\ DOMAIN old = 1..Len(old) /\ DOMAIN rows = 1..Len(rows) /\ Len(old) \in Nat /\ Len(rows) \in Nat
      /\ DOMAIN all = 1..(Len(old) + Len(rows))
      /\ \A k \in 1..(Len(old) + Len(rows)) :
           all[k] = IF k <= Len(old) THEN old[k] ELSE rows[k - Len(old)]
  OBVIOUS
<1>2. ASSUME NEW k \in DOMAIN all
      PROVE  (k \in DOMAIN old /\ all[k] = old[k]) \/ \E j \in DOMAIN rows : all[k] = rows[j]
  <2>1. CASE k <= Len(old)
    BY <1>1, <2>1
  <2>2. CASE ~(k <= Len(old))
    <3>1. k - Len(old) \in DOMAIN rows /\ all[k] = rows[k - Len(old)]
      BY <1>1, <2>2
    <3> QED
      BY <3>1
  <2> QED
    BY <2>1, <2>2
<1>3. \A k \in DOMAIN old : k \in DOMAIN all /\ all[k] = old[k]
  BY <1>1
<1>4. ASSUME NEW j \in DOMAIN rows
      PROVE  \E k \in DOMAIN all : all[k] = rows[j]
  <2>1. /\ j + Len(old) \in 1..(Len(old) + Len(rows)) /\ ~(j + Len(old) <= Len(old))
        /\ (j + Len(old)) - Len(old) = j
    BY <1>1
  <2>2. j + Len(old) \in DOMAIN all /\ all[j + Len(old)] = rows[j]
    BY <1>1, <2>1
  <2> QED
    BY <2>2
<1>5. \A k \in Archived(all, p) :
        \/ k \in Archived(old, p) /\ all[k] = old[k]
        \/ \E j \in Archived(rows, p) : all[k] = rows[j]
  <2> SUFFICES ASSUME NEW k \in Archived(all, p)
               PROVE  \/ k \in Archived(old, p) /\ all[k] = old[k]
                      \/ \E j \in Archived(rows, p) : all[k] = rows[j]
    OBVIOUS
  <2>1. k \in DOMAIN all /\ person[all[k].snap] = p /\ all[k].level \in Rankable
    BY DEF Archived
  <2>2. CASE k \in DOMAIN old /\ all[k] = old[k]
    BY <2>1, <2>2 DEF Archived
  <2>3. ASSUME NEW j \in DOMAIN rows, all[k] = rows[j]
        PROVE  j \in Archived(rows, p)
    BY <2>1, <2>3 DEF Archived
  <2> QED
    BY <1>2, <2>1, <2>2, <2>3
<1>6. \A k \in Archived(old, p) : k \in Archived(all, p) /\ all[k] = old[k]
  BY <1>3 DEF Archived
<1>7. \A j \in Archived(rows, p) : \E k \in Archived(all, p) : all[k] = rows[j]
  <2> SUFFICES ASSUME NEW j \in Archived(rows, p) PROVE \E k \in Archived(all, p) : all[k] = rows[j]
    OBVIOUS
  <2>1. j \in DOMAIN rows /\ person[rows[j].snap] = p /\ rows[j].level \in Rankable
    BY DEF Archived
  <2>2. PICK k \in DOMAIN all : all[k] = rows[j]
    BY <1>4, <2>1
  <2> QED
    BY <2>1, <2>2 DEF Archived
<1> QED
  BY <1>5, <1>6, <1>7 DEF Adds

(* The archive takes the best of what it has and of the rows it is given.  *)
LEMMA TalentIsBest ==
  ASSUME NEW rows \in Seq(Entry), NEW p, archive[p].best \in Nat
  PROVE  LET best == Talent(rows, p).best
         IN /\ best = archive[p].best \/ \E k \in Archived(rows, p) : best = rows[k].score
            /\ archive[p].best <= best /\ \A k \in Archived(rows, p) : rows[k].score <= best
<1> DEFINE mine == Archived(rows, p)
           f == [k \in 1..Len(rows) |-> rows[k].score]
           old == archive[p].best
           T == {old} \union {rows[k].score : k \in mine}
<1>1. DOMAIN rows = 1..Len(rows) /\ Len(rows) \in Nat /\ \A k \in 1..Len(rows) : rows[k].score \in Nat
  BY RowsAre
<1>2. mine \in SUBSET (1..Len(rows))
  BY <1>1 DEF Archived
<1>3. CASE mine = {}
  BY <1>3 DEF Talent
<1>4. CASE mine # {}
  <2>1. f \in [1..Len(rows) -> Nat] /\ \A k \in mine : f[k] = rows[k].score
    BY <1>1, <1>2
  <2> HIDE DEF f, mine
  <2>2. PICK i \in mine : \A j \in mine : f[j] <= f[i]
    BY <1>1, <1>2, <1>4, <2>1, GreatestScore
  <2>3. i \in mine /\ rows[i].score \in Nat /\ \A j \in mine : rows[j].score <= rows[i].score
    BY <1>1, <1>2, <2>1, <2>2
  <2>4. Talent(rows, p).best = Max(T)
    BY <1>4 DEF Talent, mine
  <2>5. T \in SUBSET Nat /\ old \in T /\ rows[i].score \in T
    BY <1>1, <1>2, <2>3
  <2>6. \A x \in T : x = old \/ \E k \in mine : x = rows[k].score
    OBVIOUS
  <2>7. CASE rows[i].score <= old
    <3>1. \A x \in T : x <= old
      BY <1>1, <1>2, <2>3, <2>6, <2>7
    <3>2. Max(T) = old
      BY <2>5, <3>1, GreatestIs
    <3>3. \A k \in mine : rows[k].score <= old
      BY <3>1
    <3>4. old <= old
      OBVIOUS
    <3> QED
      BY <2>4, <3>2, <3>3, <3>4 DEF mine
  <2>8. CASE ~(rows[i].score <= old)
    <3>1. old <= rows[i].score
      BY <2>3, <2>8
    <3>2. \A x \in T : x <= rows[i].score
      BY <2>3, <2>6, <3>1
    <3>3. Max(T) = rows[i].score
      BY <2>5, <3>2, GreatestIs
    <3> QED
      BY <2>3, <2>4, <3>1, <3>3 DEF mine
  <2> QED
    BY <2>7, <2>8
<1> QED
  BY <1>3, <1>4

(* Saving rows keeps the archive at the best.                              *)
LEMMA SaveKeepsRows ==
  ASSUME Results, NEW rows, Rowed(rows), SaveResults(rows), person' = person
  PROVE  Rowed(results') /\ Rowed(results)' /\ \A p \in Persons : BestOfAll(p)'
<1>1. results \in Seq(Entry) /\ rows \in Seq(Entry) /\ results' = results \o rows
  BY DEF Results, Rowed, SaveResults
<1>2. results' \in Seq(Entry)
  BY <1>1
<1>3. \A k \in DOMAIN results' : results'[k].snap \in DOMAIN person
  <2>1. DOMAIN results' = 1..(Len(results) + Len(rows)) /\ Len(results) \in Nat /\ Len(rows) \in Nat
        /\ DOMAIN results = 1..Len(results) /\ DOMAIN rows = 1..Len(rows)
        /\ \A k \in DOMAIN results' : results'[k] = IF k <= Len(results) THEN results[k] ELSE rows[k - Len(results)]
    BY <1>1
  <2>2. ASSUME NEW k \in DOMAIN results' PROVE results'[k].snap \in DOMAIN person
    <3>1. CASE k <= Len(results)
      BY <2>1, <3>1 DEF Results, Rowed
    <3>2. CASE ~(k <= Len(results))
      <4>1. k - Len(results) \in DOMAIN rows
        BY <2>1, <3>2
      <4> QED
        BY <2>1, <3>2, <4>1 DEF Rowed
    <3> QED
      BY <3>1, <3>2
  <2> QED
    BY <2>2
<1>4. ASSUME NEW p \in Persons PROVE BestOfAll(p)'
  <2> DEFINE best == Talent(rows, p).best
  <2>1. archive'[p].best = best
    BY DEF SaveResults
  <2>2. /\ archive[p].best = 0 \/ \E k \in Archived(results, p) : archive[p].best = results[k].score
        /\ 0 <= archive[p].best /\ \A k \in Archived(results, p) : results[k].score <= archive[p].best
    BY DEF Results, BestOfAll
  <2>3. archive[p].best \in Nat
    BY <1>1, <2>2, RowsAre DEF Archived
  <2>4. /\ best = archive[p].best \/ \E k \in Archived(rows, p) : best = rows[k].score
        /\ archive[p].best <= best /\ \A k \in Archived(rows, p) : rows[k].score <= best
    BY <1>1, <2>3, TalentIsBest
  <2>5. best \in Nat
    BY <1>1, <2>3, <2>4, RowsAre DEF Archived
  <2> HIDE DEF best
  <2>6. /\ \A k \in Archived(results', p) :
             \/ k \in Archived(results, p) /\ results'[k] = results[k]
             \/ \E j \in Archived(rows, p) : results'[k] = rows[j]
        /\ \A k \in Archived(results, p) : k \in Archived(results', p) /\ results'[k] = results[k]
        /\ \A j \in Archived(rows, p) : \E k \in Archived(results', p) : results'[k] = rows[j]
    <3>1. Adds(results, rows, results', p)
      BY <1>1, <1>2, ArchivedMore
    <3> QED
      BY <3>1 DEF Adds
  <2>7. Archived(results, p)' = Archived(results', p)
    BY DEF Archived
  <2>8. best = 0 \/ \E k \in Archived(results', p) : best = results'[k].score
    BY <2>2, <2>4, <2>6
  <2>9. ASSUME NEW k \in Archived(results', p) PROVE results'[k].score <= best
    <3>1. CASE k \in Archived(results, p) /\ results'[k] = results[k]
      <4>1. results[k].score \in Nat /\ results[k].score <= archive[p].best
        BY <1>1, <2>2, <3>1, RowsAre DEF Archived
      <4> QED
        BY <2>3, <2>4, <2>5, <3>1, <4>1
    <3>2. CASE \E j \in Archived(rows, p) : results'[k] = rows[j]
      BY <2>4, <3>2
    <3> QED
      BY <2>6, <3>1, <3>2
  <2> QED
    BY <2>1, <2>5, <2>7, <2>8, <2>9 DEF BestOfAll
<1> QED
  BY <1>2, <1>3, <1>4 DEF Rowed

-----------------------------------------------------------------------------
(* Steps                                                                   *)

(* A snapshot more leaves lists as they are.                               *)
LEMMA ListedStays ==
  ASSUME NEW ps \in Seq(Persons), NEW p, NEW e, NEW batch, Listed(ps, e, batch)
  PROVE  Listed(Append(ps, p), e, batch)
<1>1. \A i \in DOMAIN ps : i \in DOMAIN Append(ps, p) /\ Append(ps, p)[i] = ps[i]
  OBVIOUS
<1> QED
  BY <1>1 DEF Listed

(* A snapshot is captured.                                                 *)
LEMMA SnapshotKeeps ==
  ASSUME ScreeningInv, NEW p \in Persons, SaveSnapshot(p)
  PROVE  ScreeningInv'
<1>1. /\ person' = Append(person, p) /\ unscreened' = unscreened \union {Len(person')}
      /\ UNCHANGED <<results, lists, shortlist, job, judges, archive>>
  BY DEF SaveSnapshot, ranked
<1>2. /\ person \in Seq(Persons) /\ person' \in Seq(Persons) /\ Len(person) \in Nat /\ Len(person') = Len(person) + 1
      /\ DOMAIN person = 1..Len(person) /\ DOMAIN person' = 1..Len(person')
      /\ \A i \in DOMAIN person : i \in DOMAIN person' /\ person'[i] = person[i]
  BY <1>1 DEF ScreeningInv, Results
<1>3. \A q \in Persons : Archived(results, q)' = Archived(results, q)
  BY <1>1, <1>2 DEF ScreeningInv, Results, Rowed, Archived
<1>4. Results'
  <2>1. \A q \in Persons : BestOfAll(q)'
    BY <1>1, <1>3 DEF ScreeningInv, Results, BestOfAll
  <2>2. Rowed(results)'
    BY <1>1, <1>2 DEF ScreeningInv, Results, Rowed
  <2>3. unscreened' \subseteq DOMAIN person'
    BY <1>1, <1>2 DEF ScreeningInv, Results
  <2> QED
    BY <1>2, <2>1, <2>2, <2>3 DEF Results
<1>5. Ranked'
  BY <1>1, <1>2, ListedStays DEF ScreeningInv, Ranked
<1>6. JobFits(job)'
  <2>1. job.at = "batch" => \E n \in 0..Len(person') : job.snapshots = 1..n
    BY <1>2 DEF ScreeningInv, JobFits
  <2> QED
    BY <1>1, <1>2, <2>1, ListedStays DEF ScreeningInv, JobFits
<1>7. \A a \in Judges : JudgeFits(judges[a])'
  BY <1>1, <1>2 DEF ScreeningInv, JudgeFits
<1> QED
  BY <1>1, <1>4, <1>5, <1>6, <1>7 DEF ScreeningInv

(* It is screened.                                                         *)
LEMMA ScreenKeeps ==
  ASSUME ScreeningInv, NEW i, Screen(i)
  PROVE  ScreeningInv'
<1>1. /\ i \in unscreened /\ unscreened' = unscreened \ {i}
      /\ UNCHANGED <<person, lists, shortlist, job, judges>>
  BY DEF Screen, ranked
<1>2. Results'
  <2>1. CASE UNCHANGED <<results, archive>>
    BY <1>1, <2>1 DEF ScreeningInv, Results, Rowed, BestOfAll, Archived
  <2>2. ASSUME NEW o \in Outcomes, SaveResults(<<Row(i, 1, o)>>) PROVE Results'
    <3>1. i \in DOMAIN person /\ i \in Nat
      BY <1>1 DEF ScreeningInv, Results
    <3>2. o.score \in Nat /\ o.level \in Levels
      BY ScreeningLimits DEF Levels
    <3>3. Row(i, 1, o) \in Entry /\ Row(i, 1, o).snap = i
      BY <3>1, <3>2, RowIsEntry
    <3>4. Rowed(<<Row(i, 1, o)>>)
      BY <3>1, <3>3 DEF Rowed
    <3>5. Rowed(results)' /\ \A p \in Persons : BestOfAll(p)'
      BY <1>1, <2>2, <3>4, SaveKeepsRows DEF ScreeningInv, Results
    <3> QED
      BY <1>1, <3>5 DEF ScreeningInv, Results
  <2> QED
    BY <2>1, <2>2 DEF Screen
<1> QED
  BY <1>1, <1>2 DEF ScreeningInv, Ranked, JobFits, JudgeFits

(* A job reads what it ranks.                                              *)
LEMMA JobReadsKeep ==
  ASSUME ScreeningInv, FinalizeReads \/ BatchReads
  PROVE  ScreeningInv'
<1>1. UNCHANGED <<person, unscreened, results, lists, shortlist, judges, archive>>
  BY DEF FinalizeReads, BatchReads
<1>2. JobFits(job')
  <2>1. CASE FinalizeReads
    <3>1. PICK l \in Shortlists(PerPerson(Current(results))) : job' = [at |-> "finalize", entries |-> l]
      BY <2>1 DEF FinalizeReads
    <3>2. Rowed(results) /\ person \in Seq(Persons)
      BY DEF ScreeningInv, Results
    <3>3. Listed(person, l, FALSE)
      BY <3>1, <3>2, RankingIsListed
    <3> QED
      BY <3>1, <3>3 DEF JobFits
  <2>2. CASE BatchReads
    <3>1. job' = [at |-> "batch", snapshots |-> DOMAIN person]
      BY <2>2 DEF BatchReads
    <3>2. DOMAIN person = 1..Len(person) /\ Len(person) \in 0..Len(person)
      BY DEF ScreeningInv, Results
    <3> QED
      BY <3>1, <3>2 DEF JobFits
  <2> QED
    BY <2>1, <2>2
<1> QED
  BY <1>1, <1>2 DEF ScreeningInv, Results, Rowed, BestOfAll, Archived, Ranked, JobFits, JudgeFits

(* A shortlist more.                                                       *)
LEMMA ListAdded ==
  ASSUME Ranked, NEW e, NEW batch \in BOOLEAN, Listed(person, e, batch),
         lists' = Append(lists, [entries |-> e, batch |-> batch]), UNCHANGED <<person, shortlist>>
  PROVE  Ranked' /\ Len(lists') \in Nat /\ Len(lists) <= Len(lists') /\ Len(lists) \in Nat
<1>1. e \in Seq(Entry)
  BY DEF Listed
<1>2. [entries |-> e, batch |-> batch] \in [entries : Seq(Entry), batch : BOOLEAN]
  BY <1>1
<1>3. lists \in Seq([entries : Seq(Entry), batch : BOOLEAN])
  BY DEF Ranked
<1>4. /\ lists' \in Seq([entries : Seq(Entry), batch : BOOLEAN])
      /\ Len(lists') = Len(lists) + 1 /\ Len(lists) \in Nat
      /\ \A l \in DOMAIN lists' : \/ l \in DOMAIN lists /\ lists'[l] = lists[l]
                                  \/ lists'[l] = [entries |-> e, batch |-> batch]
  BY <1>2, <1>3
<1>5. \A l \in DOMAIN lists' : Listed(person, lists'[l].entries, lists'[l].batch)
  BY <1>4 DEF Ranked
<1>6. shortlist' \in 0..Len(lists')
  BY <1>4 DEF Ranked
<1> QED
  BY <1>4, <1>5, <1>6 DEF Ranked

(* The list of a job is written.                                           *)
LEMMA FinalizeWritesKeeps ==
  ASSUME ScreeningInv, FinalizeWrites
  PROVE  ScreeningInv'
<1>1. /\ lists' = Append(lists, [entries |-> job.entries, batch |-> FALSE])
      /\ job' = [at |-> "mark", list |-> Len(lists')]
      /\ UNCHANGED <<person, unscreened, results, shortlist, judges, archive>>
  BY DEF FinalizeWrites
<1>2. Ranked' /\ Len(lists') \in Nat /\ Len(lists) <= Len(lists') /\ Len(lists) \in Nat
  BY <1>1, ListAdded DEF ScreeningInv, JobFits, FinalizeWrites
<1>3. Results'
  BY <1>1 DEF ScreeningInv, Results, Rowed, BestOfAll, Archived
<1>4. JobFits(job)'
  BY <1>1, <1>2 DEF JobFits
<1>5. \A a \in Judges : JudgeFits(judges[a])'
  BY <1>1, <1>2 DEF ScreeningInv, JudgeFits
<1> QED
  BY <1>1, <1>2, <1>3, <1>4, <1>5 DEF ScreeningInv

(* A batch commits its rows and its list.                                  *)
LEMMA BatchCommitsKeeps ==
  ASSUME ScreeningInv, BatchCommits
  PROVE  ScreeningInv'
<1>1. PICK answer \in [job.snapshots -> Outcomes \union {Failure}] :
        LET rows == [i \in 1..Cardinality(job.snapshots) |-> Row(i, 1, answer[i])]
        IN /\ SaveResults(rows)
           /\ \E l \in Shortlists(ToSet(rows)) :
                lists' = Append(lists, [entries |-> l, batch |-> TRUE])
  BY DEF BatchCommits
<1>2. /\ job.at = "batch" /\ job' = [at |-> "mark", list |-> Len(lists')]
      /\ UNCHANGED <<person, unscreened, shortlist, judges>>
  BY DEF BatchCommits
<1>3. PICK n \in 0..Len(person) : job.snapshots = 1..n
  BY <1>2 DEF ScreeningInv, JobFits
<1>4. /\ person \in Seq(Persons) /\ Len(person) \in Nat /\ DOMAIN person = 1..Len(person)
      /\ n \in Nat /\ n <= Len(person)
  BY DEF ScreeningInv, Results
<1>5. Cardinality(job.snapshots) = n
  <2>1. Cardinality(1..n) = IF 1 > n THEN 0 ELSE n - 1 + 1
    BY <1>4, FS_Interval
  <2> QED
    BY <1>3, <1>4, <2>1
<1> DEFINE rows == [i \in 1..n |-> Row(i, 1, answer[i])]
<1>6. \A i \in 1..n : Row(i, 1, answer[i]) \in Entry /\ Row(i, 1, answer[i]).snap = i
  <2> SUFFICES ASSUME NEW i \in 1..n
               PROVE  Row(i, 1, answer[i]) \in Entry /\ Row(i, 1, answer[i]).snap = i
    OBVIOUS
  <2>1. answer[i] \in Outcomes \union {Failure} /\ i \in Nat
    BY <1>3
  <2>2. answer[i].score \in Nat /\ answer[i].level \in Levels
    <3>1. CASE answer[i] \in Outcomes
      BY <3>1, ScreeningLimits DEF Levels
    <3>2. CASE answer[i] = Failure
      BY <3>2 DEF Failure, Levels
    <3> QED
      BY <2>1, <3>1, <3>2
  <2> QED
    BY <2>1, <2>2, RowIsEntry
<1>7. rows \in Seq(Entry) /\ DOMAIN rows = 1..n /\ \A i \in 1..n : rows[i].snap = i
  BY <1>4, <1>6
<1>8. PICK l \in Shortlists(ToSet(rows)) : lists' = Append(lists, [entries |-> l, batch |-> TRUE])
  BY <1>1, <1>5
<1>9. SaveResults(rows)
  BY <1>1, <1>5
<1> HIDE DEF rows
<1>10. Rowed(rows)
  BY <1>4, <1>7 DEF Rowed
<1>11. Results'
  BY <1>2, <1>9, <1>10, SaveKeepsRows DEF ScreeningInv, Results
<1>12. Listed(person, l, TRUE)
  <2>1. \A r \in ToSet(rows) : \E i \in 1..n : r = rows[i] /\ r \in Entry
    BY <1>7 DEF ToSet
  <2>2. IsFiniteSet(ToSet(rows))
    <3>1. rows \in Surjection(1..n, ToSet(rows))
      BY <1>7 DEF Surjection, ToSet
    <3>2. IsFiniteSet(1..n)
      BY <1>4, FS_Interval
    <3> QED
      BY <3>1, <3>2, FS_Surjection
  <2>3. \A r, s \in ToSet(rows) : r.snap = s.snap => r = s
    <3> SUFFICES ASSUME NEW r \in ToSet(rows), NEW s \in ToSet(rows), r.snap = s.snap PROVE r = s
      OBVIOUS
    <3>1. PICK i \in 1..n : r = rows[i]
      BY <2>1
    <3>2. PICK j \in 1..n : s = rows[j]
      BY <2>1
    <3> QED
      BY <1>7, <3>1, <3>2
  <2>4. \A r \in ToSet(rows) : r.snap \in DOMAIN person
    BY <1>4, <1>7, <2>1
  <2>5. ToSet(rows) \subseteq Entry
    BY <2>1
  <2> DEFINE batch == TRUE
  <2>6. batch \in BOOLEAN /\ (~batch => \A r, s \in ToSet(rows) : person[r.snap] = person[s.snap] => r = s)
    OBVIOUS
  <2>7. Listed(person, l, batch)
    <3> HIDE DEF batch
    <3> QED
      BY <1>8, <2>2, <2>3, <2>4, <2>5, <2>6, ShortlistIsListed
  <2> QED
    BY <2>7
<1>13. Ranked' /\ Len(lists') \in Nat /\ Len(lists) <= Len(lists') /\ Len(lists) \in Nat
  BY <1>2, <1>8, <1>12, ListAdded DEF ScreeningInv
<1>14. JobFits(job)'
  BY <1>2, <1>13 DEF JobFits
<1>15. \A a \in Judges : JudgeFits(judges[a])'
  BY <1>2, <1>13 DEF ScreeningInv, JudgeFits
<1> QED
  BY <1>2, <1>11, <1>13, <1>14, <1>15 DEF ScreeningInv

(* A job fails, or its list becomes the workflow's.                        *)
LEMMA JobEndsKeep ==
  ASSUME ScreeningInv, JobFails \/ JobMarks
  PROVE  ScreeningInv'
<1>1. job' = Idle /\ UNCHANGED <<person, unscreened, results, lists, judges, archive>>
      /\ shortlist' \in 0..Len(lists)
  BY DEF JobFails, JobMarks, ScreeningInv, Ranked, JobFits
<1>2. JobFits(job')
  BY <1>1 DEF Idle, JobFits
<1> QED
  BY <1>1, <1>2 DEF ScreeningInv, Results, Rowed, BestOfAll, Archived, Ranked, JobFits, JudgeFits

(* A judgment reads, or fails.                                             *)
LEMMA JudgesKeep ==
  ASSUME ScreeningInv, NEW a \in Judges, (\E i \in DOMAIN person : JudgeReads(a, i)) \/ JudgeFails(a)
  PROVE  ScreeningInv'
<1>1. UNCHANGED <<person, unscreened, results, lists, shortlist, job, archive>>
  BY DEF JudgeReads, JudgeFails, ranked
<1>2. DOMAIN judges' = Judges /\ \A b \in Judges : b # a => judges'[b] = judges[b]
  BY DEF JudgeReads, JudgeFails, ScreeningInv
<1>3. JudgeFits(judges'[a])
  <2>1. CASE JudgeFails(a)
    <3>1. judges'[a] = Idle
      BY <2>1 DEF JudgeFails, ScreeningInv
    <3> QED
      BY <3>1 DEF Idle, JudgeFits
  <2>2. ASSUME NEW i \in DOMAIN person, JudgeReads(a, i) PROVE JudgeFits(judges'[a])
    <3>1. PICK k \in OfLastRound(results, i) : judges'[a] =
            [at |-> "asks", snap |-> i, score |-> results[k].score, list |-> shortlist]
      BY <2>2 DEF JudgeReads, ScreeningInv
    <3>2. results \in Seq(Entry) /\ k \in DOMAIN results
      BY <3>1 DEF ScreeningInv, Results, Rowed, OfLastRound, RowsOf
    <3>3. results[k].score \in Nat
      BY <3>2, RowsAre
    <3> QED
      BY <3>1, <3>3 DEF JudgeFits, ScreeningInv, Ranked
  <2> QED
    BY <2>1, <2>2
<1> QED
  BY <1>1, <1>2, <1>3 DEF ScreeningInv, Results, Rowed, BestOfAll, Archived, Ranked, JobFits, JudgeFits

(* A judgment writes its row and ranks anew.                               *)
LEMMA JudgeWritesKeeps ==
  ASSUME ScreeningInv, NEW a \in Judges, JudgeWrites(a)
  PROVE  ScreeningInv'
<1> DEFINE j == judges[a]
<1>1. /\ j.at = "asks" /\ judges' = [judges EXCEPT ![a] = Idle]
      /\ UNCHANGED <<person, unscreened, shortlist, job>>
  BY DEF JudgeWrites
<1>2. PICK level \in Rankable \union {"exclude"} :
        /\ SaveResults(<<Row(j.snap, 2, [score |-> IF j.score = 0 THEN 65 ELSE j.score,
                                         level |-> level])>>)
        /\ IF a = "scan" \/ j.list = 0 THEN UNCHANGED lists
           ELSE \E l \in Shortlists(PerPerson(Current(results'))) :
                  lists' = [lists EXCEPT ![j.list] = [entries |-> l, batch |-> FALSE]]
  BY DEF JudgeWrites
<1>3. /\ j.snap \in DOMAIN person /\ j.score \in Nat /\ j.list \in 0..Len(lists)
      /\ person \in Seq(Persons) /\ j.snap \in Nat
  BY <1>1 DEF ScreeningInv, JudgeFits, Results
<1> HIDE DEF j
<1> DEFINE o == [score |-> IF j.score = 0 THEN 65 ELSE j.score, level |-> level]
           row == Row(j.snap, 2, o)
<1>4. o.score \in Nat /\ o.level \in Levels
  <2>1. level \in Levels
    BY DEF Levels
  <2>2. (IF j.score = 0 THEN 65 ELSE j.score) \in Nat
    BY <1>3
  <2> QED
    BY <2>1, <2>2
<1>5. SaveResults(<<row>>)
  BY <1>2
<1>6. row \in Entry /\ row.snap = j.snap
  <2> HIDE DEF o
  <2> QED
    BY <1>3, <1>4, RowIsEntry
<1> HIDE DEF row
<1>7. Rowed(<<row>>)
  BY <1>3, <1>6 DEF Rowed
<1>8. Rowed(results') /\ Rowed(results)' /\ \A p \in Persons : BestOfAll(p)'
  BY <1>1, <1>5, <1>7, SaveKeepsRows DEF ScreeningInv
<1>9. Results'
  BY <1>1, <1>8 DEF ScreeningInv, Results
<1>10. Ranked' /\ Len(lists') = Len(lists)
  <2>1. CASE UNCHANGED lists
    BY <1>1, <2>1 DEF ScreeningInv, Ranked
  <2>2. ASSUME j.list # 0, NEW l \in Shortlists(PerPerson(Current(results'))),
               lists' = [lists EXCEPT ![j.list] = [entries |-> l, batch |-> FALSE]]
        PROVE  Ranked' /\ Len(lists') = Len(lists)
    <3>1. l \in Seq(Entry) /\ Listed(person, l, FALSE)
      BY <1>3, <1>8, RankingIsListed
    <3>2. [entries |-> l, batch |-> FALSE] \in [entries : Seq(Entry), batch : BOOLEAN]
      BY <3>1
    <3>3. lists \in Seq([entries : Seq(Entry), batch : BOOLEAN]) /\ j.list \in 1..Len(lists)
      BY <1>3, <2>2 DEF ScreeningInv, Ranked
    <3>4. /\ lists' \in Seq([entries : Seq(Entry), batch : BOOLEAN]) /\ Len(lists') = Len(lists)
          /\ DOMAIN lists' = DOMAIN lists
          /\ \A m \in DOMAIN lists : lists'[m] = IF m = j.list THEN [entries |-> l, batch |-> FALSE] ELSE lists[m]
      BY <2>2, <3>2, <3>3
    <3>5. \A m \in DOMAIN lists' : Listed(person, lists'[m].entries, lists'[m].batch)
      <4>1. [entries |-> l, batch |-> FALSE].entries = l /\ [entries |-> l, batch |-> FALSE].batch = FALSE
        OBVIOUS
      <4>2. \A m \in DOMAIN lists : Listed(person, lists[m].entries, lists[m].batch)
        BY DEF ScreeningInv, Ranked
      <4>3. lists'[j.list] = [entries |-> l, batch |-> FALSE]
        <5>1. j.list \in DOMAIN lists
          BY <3>3
        <5> QED
          BY <3>4, <5>1, Zenon
      <4>4. Listed(person, lists'[j.list].entries, lists'[j.list].batch)
        BY <3>1, <4>1, <4>3, Zenon
      <4> QED
        BY <3>4, <4>2, <4>4
    <3> QED
      BY <1>1, <3>4, <3>5 DEF ScreeningInv, Ranked
  <2> QED
    BY <1>2, <2>1, <2>2
<1>11. JobFits(job)'
  BY <1>1, <1>10 DEF ScreeningInv, JobFits
<1>12. DOMAIN judges' = Judges /\ \A b \in Judges : JudgeFits(judges[b])'
  <2>1. DOMAIN judges' = Judges /\ \A b \in Judges : judges'[b] = IF b = a THEN Idle ELSE judges[b]
    BY <1>1 DEF ScreeningInv
  <2> QED
    BY <1>1, <1>10, <2>1 DEF ScreeningInv, JudgeFits, Idle
<1> QED
  BY <1>9, <1>10, <1>11, <1>12 DEF ScreeningInv

(* The invariant of the screening holds throughout.                        *)
LEMMA ScreeningInvariant == ScreeningSpec => []ScreeningInv
<1>1. ScreeningInit => ScreeningInv
  <2> SUFFICES ASSUME ScreeningInit PROVE ScreeningInv
    OBVIOUS
  <2>1. /\ person = <<>> /\ unscreened = {} /\ results = <<>> /\ lists = <<>> /\ shortlist = 0
        /\ job = Idle /\ judges = [a \in Judges |-> Idle]
        /\ archive = [p \in Persons |-> [best |-> 0, last |-> 0]]
    BY DEF ScreeningInit
  <2>2. \A p \in Persons : BestOfAll(p)
    BY <2>1 DEF BestOfAll, Archived
  <2>3. Results
    BY <2>1, <2>2 DEF Results, Rowed
  <2>4. Ranked
    BY <2>1 DEF Ranked
  <2>5. JobFits(job) /\ \A a \in Judges : JudgeFits(judges[a])
    BY <2>1 DEF JobFits, JudgeFits, Idle
  <2> QED
    BY <2>1, <2>3, <2>4, <2>5 DEF ScreeningInv
<1>2. ScreeningInv /\ [ScreeningNext]_screeningVars => ScreeningInv'
  <2> SUFFICES ASSUME ScreeningInv, [ScreeningNext]_screeningVars PROVE ScreeningInv'
    OBVIOUS
  <2>1. CASE UNCHANGED screeningVars
    BY <2>1 DEF screeningVars, ranked, ScreeningInv, Results, Rowed, BestOfAll, Archived, Ranked, JobFits, JudgeFits
  <2> QED
    BY <2>1, SnapshotKeeps, ScreenKeeps, JobReadsKeep, FinalizeWritesKeeps, BatchCommitsKeeps, JobEndsKeep,
       JudgesKeep, JudgeWritesKeeps DEF ScreeningNext
<1> QED
  BY <1>1, <1>2, PTL DEF ScreeningSpec

(* Whoever writes the shortlist last, in any order of jobs and judgments,  *)
(* it has no snapshot twice, nor a person but for a batch, and is in order.*)
THEOREM ListsAreSound == ScreeningSpec => []ListSound
<1>1. ScreeningInv => ListSound
  <2> SUFFICES ASSUME ScreeningInv PROVE ListSound
    OBVIOUS
  <2>1. shortlist <= Len(lists)
    BY DEF ScreeningInv, Ranked
  <2> QED
    BY <2>1 DEF ScreeningInv, Ranked, Listed, ListSound
<1> QED
  BY <1>1, ScreeningInvariant, PTL

(* The best score stays through every screening and judgment.              *)
THEOREM BestIsKept == ScreeningSpec => []ArchiveKeepsBest
<1>1. ScreeningInv => ArchiveKeepsBest
  <2> SUFFICES ASSUME ScreeningInv, NEW p \in Persons
               PROVE  archive[p].best = Max({0} \union {results[k].score : k \in Archived(results, p)})
    BY DEF ArchiveKeepsBest
  <2> DEFINE T == {0} \union {results[k].score : k \in Archived(results, p)}
  <2>1. archive[p].best \in T /\ \A x \in T : x <= archive[p].best
    BY DEF ScreeningInv, Results, BestOfAll
  <2>2. T \in SUBSET Nat
    BY RowsAre DEF ScreeningInv, Results, Rowed, Archived
  <2> HIDE DEF T
  <2>3. Max(T) = archive[p].best
    BY <2>1, <2>2, GreatestIs
  <2> QED
    BY <2>3 DEF T
<1> QED
  BY <1>1, ScreeningInvariant, PTL

=============================================================================
