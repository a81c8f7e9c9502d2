----------------------------- MODULE ResumeLibrary -----------------------------
(***************************************************************************)
(* Opening a candidate's resume in the site's library for HR               *)
(* (services/fetch_worker/resume_library_nav.py and                        *)
(* resume_library_row_match.py): the folder of the job is selected, its    *)
(* pages are searched for the row that fits what was captured, and the row *)
(* is clicked.  Three caches spare it clicks: the folder a page shows, the *)
(* rows of a folder's page, and the page a candidate was found on.         *)
(*                                                                         *)
(* The viewer serves one request at a time, in one tab.  What is clicked is*)
(* selected at once, but its rows come later, and the old ones stay till   *)
(* then; what is awaited is rows, not the rows.  A row is the candidate it *)
(* shows; its top is its place in the list as long as nothing has scrolled.*)
(***************************************************************************)
EXTENDS Integers, Sequences, SequencesExt, FiniteSets

CONSTANTS People,        \* records: surname, age, company, numbers in the row
          Folders,
          Collections,   \* what the folders may hold at first
          Similar,       \* company names that pass for each other: pairs
          PageSize, MaxPages, ClickAttempts,
          MaxChanges, MaxRequests,
          Faults         \* of the site: what is clicked does not show as selected,
                         \* HR turns the tab, the number of the page is not shown

ASSUME LibraryLimits ==
  /\ {PageSize, MaxPages, ClickAttempts, MaxRequests} \subseteq Nat \ {0} /\ MaxChanges \in Nat
  /\ Faults \subseteq {"verify", "byHand", "unnumbered"}
  /\ Collections \subseteq [Folders -> Seq(People)] /\ "none" \notin Folders
  /\ \A p \in People : p.age \in Nat

VARIABLES
  list,         \* external: who is collected in each folder, newest first
  shown,        \* external: the folder and page the tab is on, the rows in it
                \* and whether they are its own yet
  inPlace,      \* external: whose tops hold, among the pages in rowCache and Aim
  folderCache,  \* _PAGE_FOLDER_CACHE of the tab
  rowCache,     \* _FOLDER_PAGE_ROWS_CACHE: <<>>, or <<rows>>
  matchCache,   \* _MATCH_RESULT_CACHE: the page, 0 if there is none
  request,      \* the request being served
  known,        \* history: whose rows were those of the page the tab was on, by
                \* its number, and nobody but requests has turned it since
  outcome,      \* history: how the last request ended
  requests, changes

tabVars == <<list, changes>>
caches  == <<folderCache, rowCache, matchCache>>
marks   == <<known, inPlace>>
libraryVars == <<tabVars, shown, caches, marks, request, outcome, requests>>

NoFolder  == "none"
Elsewhere == [folder |-> NoFolder, page |-> 1, rows |-> <<>>, settled |-> TRUE]
NoRequest == [at |-> "idle"]
Pages     == 1..MaxPages
Aim       == <<NoFolder, 0>>   \* the row that is to be clicked

LibraryInit ==
  /\ list \in Collections
  /\ shown = Elsewhere
  /\ folderCache = NoFolder
  /\ rowCache = [f \in Folders |-> [n \in Pages |-> <<>>]]
  /\ matchCache = [f \in Folders |-> [p \in People |-> 0]]
  /\ known = {} /\ inPlace = {}
  /\ request = NoRequest /\ outcome = [result |-> "none"]
  /\ requests = 0 /\ changes = 0

-----------------------------------------------------------------------------
(* Matching: similarities in percent                                       *)

Distance(m, n) == IF m > n THEN m - n ELSE n - m

AgeScore(p, row) ==
  LET d == Distance(p.age, row.age)
  IN CASE d = 0 -> 100 [] d = 1 -> 92 [] d = 2 -> 84 [] d >= 6 -> 0 [] OTHER -> 100 - (100 * d) \div 6

NameScore(p, row) == IF p.surname = row.surname THEN 100 ELSE 0

CompanyScore(p, row) ==
  CASE p.company = row.company -> 100
    [] {p.company, row.company} \in Similar -> 85
    [] OTHER -> 0

Lowest(p, row) ==
  Min({NameScore(p, row), AgeScore(p, row), CompanyScore(p, row)})

Total(p, row) == NameScore(p, row) + AgeScore(p, row) + CompanyScore(p, row) + 100

Threshold == 80

Qualifies(p, row) == Lowest(p, row) >= Threshold

(* The order of ranked in find_resume_library_row                          *)
Outranks(p, r, s) ==
  \/ Lowest(p, r) > Lowest(p, s)
  \/ Lowest(p, r) = Lowest(p, s) /\ Total(p, r) > Total(p, s)

Ahead(p, r, s) == Lowest(p, r) - Lowest(p, s) >= 3 \/ Total(p, r) - Total(p, s) >= 20

None      == 0
Ambiguous == -1

(* The first of some places, in the order of ranked: ties as on the page.  *)
BestOf(p, rows, places) ==
  CHOOSE i \in places : \A j \in places \ {i} :
    Outranks(p, rows[i], rows[j]) \/ (~Outranks(p, rows[j], rows[i]) /\ i < j)

(* Mutant of Match: the row nearest to the profile is taken.               *)
MatchNearest(p, rows) ==
  IF rows = <<>> THEN None ELSE BestOf(p, rows, DOMAIN rows)

(* find_resume_library_row: the place of the best row that qualifies, if   *)
(* the second best is clearly behind.                                      *)
Match(p, rows) ==
  LET q    == {i \in DOMAIN rows : Qualifies(p, rows[i])}
      best == BestOf(p, rows, q)
      next == BestOf(p, rows, q \ {best})
  IN IF q = {} THEN None
     ELSE IF q = {best} \/ Ahead(p, rows[best], rows[next]) THEN best
     ELSE Ambiguous

-----------------------------------------------------------------------------
(* The tab and the caches                                                  *)

PageOf(f, n) == SubSeq(list[f], (n - 1) * PageSize + 1, Min({n * PageSize, Len(list[f])}))

Shows(f, n) == [folder |-> f, page |-> n, rows |-> PageOf(f, n), settled |-> TRUE]

(* What is clicked scrolls into view, is selected, and keeps the old rows. *)
Turned(f, n) == [shown EXCEPT !.folder = f, !.page = n, !.settled = FALSE]

HasNext ==
  /\ shown.folder # NoFolder /\ shown.page < MaxPages
  /\ shown.page * PageSize < Len(list[shown.folder])

Goes(at) == request' = [request EXCEPT !.at = at]

Ends(result) ==
  /\ request' = NoRequest
  /\ outcome' = [result |-> result, asked |-> request.who]

(* Mutant of ForgetRows: the rows that were cached are kept.               *)
ForgetRowsNot(f) == UNCHANGED rowCache

ForgetRows(f) == rowCache' = [rowCache EXCEPT ![f] = [n \in Pages |-> <<>>]]

(* _click_folder_tab; then, once there are rows, then.                     *)
ClickFolder(then, page) ==
  \/ /\ shown' = Turned(request.folder, 1) /\ inPlace' = {}
     /\ folderCache' = request.folder /\ ForgetRows(request.folder)
     /\ request' = [request EXCEPT !.at = "wait", !.then = then, !.page = page]
     /\ UNCHANGED <<known, outcome>>
  \/ /\ "verify" \in Faults
     /\ shown' = Turned(request.folder, 1) /\ inPlace' = {} /\ known' = {}
     /\ Ends("failed") /\ UNCHANGED <<folderCache, rowCache>>

(* _click_next_list_page, which trusts the click if it can read no number  *)
NextClicked ==
  /\ HasNext
  /\ \/ shown' = Turned(shown.folder, shown.page + 1) /\ inPlace' = {}
     \/ "unnumbered" \in Faults /\ UNCHANGED <<shown, inPlace>>

NextMissed ==
  \/ ~HasNext /\ UNCHANGED <<shown, inPlace>>
  \/ /\ "verify" \in Faults /\ HasNext
     /\ shown' = Turned(shown.folder, shown.page + 1) /\ inPlace' = {}

(* _current_list_page_number                                               *)
Numbers == {shown.page} \union (IF "unnumbered" \in Faults THEN {1} ELSE {})

(* _scan_right_rows: by the folder and the page the tab should be on       *)
Cached(n) == IF folderCache = NoFolder THEN <<>> ELSE rowCache[folderCache][n]
Rows(n)   == IF Cached(n) = <<>> THEN shown.rows ELSE Cached(n)[1]
Key(n)    == <<folderCache, n>>

Marked(set, keys, good) == IF good THEN set \union keys ELSE set \ keys

(* Its rows are cached; the keys are marked by what is known of them.      *)
ScanAs(n, keys) ==
  /\ rowCache' = IF folderCache = NoFolder THEN rowCache
                 ELSE [rowCache EXCEPT ![folderCache][n] = <<Rows(n)>>]
  /\ known' = Marked(known, keys, /\ n = shown.page
                                /\ IF Cached(n) = <<>> THEN shown.settled ELSE Key(n) \in known)
  /\ inPlace' = Marked(inPlace, keys, Cached(n) = <<>> \/ Key(n) \in inPlace)

Matched(n) == Match(request.who, Rows(n))

-----------------------------------------------------------------------------
(* open_candidate_in_resume_library                                        *)

Ask(p, f) ==
  /\ request = NoRequest /\ requests < MaxRequests
  /\ requests' = requests + 1
  /\ request' = [at |-> "navigate", then |-> "cached", who |-> p, folder |-> f, page |-> 0,
                 row |-> p, top |-> 0, place |-> 0, attempt |-> 0]
  /\ outcome' = [result |-> "none"]
  /\ UNCHANGED <<tabVars, shown, caches, marks>>

(* _navigate_to_resume_library: the tab is there, or it is led there, to a *)
(* folder of the site's choice.                                            *)
Navigate ==
  /\ request.at = "navigate"
  /\ \/ /\ shown.folder # NoFolder /\ Goes("folder")
        /\ UNCHANGED <<shown, folderCache, rowCache, outcome>>
     \/ /\ shown.folder = NoFolder
        /\ folderCache' = NoFolder
        /\ rowCache' = [f \in Folders |-> [n \in Pages |-> <<>>]]
        /\ \/ \E f \in Folders : shown' = Shows(f, 1) /\ Goes("folder") /\ UNCHANGED outcome
           \/ Ends("failed") /\ UNCHANGED shown
  /\ UNCHANGED <<tabVars, matchCache, marks, requests>>

CanReuse == folderCache = request.folder /\ 1 \in Numbers /\ shown.rows # <<>>

SelectFolder ==
  /\ request.at = "folder"
  /\ \/ CanReuse /\ Goes("cached") /\ UNCHANGED <<shown, folderCache, rowCache, marks, outcome>>
     \/ ~CanReuse /\ ClickFolder("cached", 0)
  /\ UNCHANGED <<tabVars, matchCache, requests>>

(* _wait_right_list_ready: any rows will do.                               *)
WaitForRows ==
  /\ request.at = "wait" /\ shown.rows # <<>>
  /\ Goes(request.then)
  /\ UNCHANGED <<tabVars, shown, caches, marks, outcome, requests>>

Remembered == matchCache[request.folder][request.who]

Forget == matchCache' = [matchCache EXCEPT ![request.folder][request.who] = 0]

(* _try_cached_resume_library_match: forwards to the remembered page ...   *)
GoToCached ==
  /\ request.at = "cached"
  /\ \/ /\ Remembered = 0
        /\ request' = [request EXCEPT !.at = "scan", !.page = 1]
        /\ UNCHANGED <<shown, inPlace, matchCache>>
     \/ /\ Remembered # 0 /\ Remembered \in Numbers
        /\ Goes("cachedScan") /\ UNCHANGED <<shown, inPlace, matchCache>>
     \/ \E n \in Numbers :
          /\ request.page < n /\ n < Remembered /\ NextClicked
          /\ request' = [request EXCEPT !.at = "wait", !.then = "cached", !.page = n]
          /\ UNCHANGED matchCache
     \/ \E n \in Numbers :
          /\ Remembered \notin {0, n}
          /\ IF request.page < n /\ n < Remembered THEN NextMissed ELSE UNCHANGED <<shown, inPlace>>
          /\ Forget /\ Goes("again")
  /\ UNCHANGED <<tabVars, folderCache, rowCache, known, outcome, requests>>

Hit(n) ==
  /\ Matched(n) \in DOMAIN Rows(n)
  /\ ScanAs(n, {Key(n), Aim})
  /\ request' = [request EXCEPT !.at = "click", !.row = Rows(n)[Matched(n)], !.top = Matched(n),
                                !.attempt = 0]

(* ... and matches there; a match that is stale is forgotten, ...          *)
ScanCached ==
  /\ request.at = "cachedScan"
  /\ \E n \in Numbers :
       \/ Hit(n) /\ UNCHANGED <<matchCache, outcome>>
       \/ Matched(n) = Ambiguous /\ ScanAs(n, {Key(n)}) /\ Ends("ambiguous") /\ UNCHANGED matchCache
       \/ Matched(n) = None /\ ScanAs(n, {Key(n)}) /\ Forget /\ Goes("again") /\ UNCHANGED outcome
  /\ UNCHANGED <<tabVars, shown, folderCache, requests>>

(* ... and the search begins on the first page.                            *)
BeginAgain ==
  /\ request.at = "again"
  /\ ClickFolder("scan", 1)
  /\ UNCHANGED <<tabVars, matchCache, requests>>

(* A page of the loop in _find_row_across_pages                            *)
ScanPage ==
  /\ request.at = "scan"
  /\ \E n \in Numbers :
       \/ /\ Hit(n)
          /\ matchCache' = [matchCache EXCEPT ![request.folder][request.who] = request.page]
          /\ UNCHANGED outcome
       \/ Matched(n) = Ambiguous /\ ScanAs(n, {Key(n)}) /\ Ends("ambiguous") /\ UNCHANGED matchCache
       \/ Matched(n) = None /\ ScanAs(n, {Key(n)}) /\ Goes("next") /\ UNCHANGED <<matchCache, outcome>>
  /\ UNCHANGED <<tabVars, shown, folderCache, requests>>

NextPage ==
  /\ request.at = "next"
  /\ \/ /\ request.page < MaxPages /\ NextClicked
        /\ request' = [request EXCEPT !.at = "wait", !.then = "scan", !.page = @ + 1]
        /\ UNCHANGED outcome
     \/ request.page < MaxPages /\ NextMissed /\ Ends("notFound")
     \/ request.page = MaxPages /\ UNCHANGED <<shown, inPlace>> /\ Ends("notFound")
  /\ UNCHANGED <<tabVars, caches, known, requests>>

(* names_match and _row_text_matches_hint: the beginning of the row, or its*)
(* name and, anywhere, its age                                             *)
SameName(r, s)  == r.surname = s.surname
LooksLike(r, s) == r = s \/ (SameName(r, s) /\ s.age \in r.numbers)

(* _find_row_locator: the nearest of those within a row of the top that was*)
(* scanned, which is anywhere once the page has scrolled                   *)
Targets ==
  LET like == {i \in DOMAIN shown.rows : LooksLike(shown.rows[i], request.row)}
      near == {i \in like : Distance(i, request.top) <= 1}
  IN IF Aim \notin inPlace THEN like
     ELSE {i \in near : \A j \in near : Distance(i, request.top) <= Distance(j, request.top)}

(* _click_list_row: the row is located, ...                                *)
Locate ==
  /\ request.at = "click"
  /\ \E i \in Targets : request' = [request EXCEPT !.at = "press", !.place = i]
  /\ known' = Marked(known, {Aim}, Aim \in known /\ Aim \in inPlace)
  /\ UNCHANGED <<tabVars, shown, caches, inPlace, outcome, requests>>

(* ... and what is in its place by then is clicked, if it has the name.    *)
Click ==
  /\ request.at = "press"
  /\ request.place \in DOMAIN shown.rows /\ SameName(shown.rows[request.place], request.row)
  /\ request' = NoRequest
  /\ outcome' = [result |-> "opened", asked |-> request.who, person |-> shown.rows[request.place],
                 sure |-> Aim \in known]
  /\ UNCHANGED <<tabVars, shown, caches, marks, requests>>

(* Another attempt after _refresh_matched_row: from the cache again        *)
Refreshed(n) ==
  LET same == {i \in DOMAIN Rows(n) : Rows(n)[i] = request.row}
      anew == [request EXCEPT !.at = "click", !.place = 0, !.attempt = @ + 1]
  IN \/ /\ Matched(n) \in DOMAIN Rows(n) /\ ScanAs(n, {Key(n), Aim})
        /\ request' = [anew EXCEPT !.row = Rows(n)[Matched(n)], !.top = Matched(n)]
     \/ /\ Matched(n) = None /\ same # {} /\ ScanAs(n, {Key(n), Aim})
        /\ request' = [anew EXCEPT !.top = Min(same)]
     \/ /\ Matched(n) = None /\ same = {} /\ ScanAs(n, {Key(n)})
        /\ request' = anew

Retry ==
  /\ request.at \in {"click", "press"}
  /\ \/ /\ request.attempt + 1 < ClickAttempts
        /\ \E n \in Numbers :
             \/ Refreshed(n) /\ UNCHANGED outcome
             \/ Matched(n) = Ambiguous /\ ScanAs(n, {Key(n)}) /\ Ends("ambiguous")
     \/ request.attempt + 1 = ClickAttempts /\ Ends("notOpened") /\ UNCHANGED <<rowCache, marks>>
  /\ UNCHANGED <<tabVars, shown, folderCache, matchCache, requests>>

(* Any await may raise, or its time be up.                                 *)
GivesUpOpening ==
  /\ request # NoRequest /\ Ends("failed")
  /\ UNCHANGED <<tabVars, shown, caches, marks, requests>>

-----------------------------------------------------------------------------
(* The site                                                                *)

(* The rows of what is selected come.                                      *)
RowsArrive ==
  /\ ~shown.settled
  /\ shown' = Shows(shown.folder, shown.page)
  /\ UNCHANGED <<tabVars, caches, marks, request, outcome, requests>>

(* scroll_into_view_if_needed of a click, or HR.                           *)
Scrolls ==
  /\ inPlace # {} /\ inPlace' = {}
  /\ UNCHANGED <<tabVars, shown, caches, known, request, outcome, requests>>

(* A candidate is collected, by a fetch, or taken out of a folder by HR.   *)
ListChanges ==
  /\ changes < MaxChanges /\ changes' = changes + 1
  /\ \E f \in Folders :
       \/ \E p \in People \ ToSet(list[f]) : list' = [list EXCEPT ![f] = <<p>> \o @]
       \/ \E i \in DOMAIN list[f] : list' = [list EXCEPT ![f] = RemoveAt(@, i)]
  /\ UNCHANGED <<shown, caches, marks, request, outcome, requests>>

(* HR, or the site, turns the tab to something else.                       *)
TabTurned ==
  /\ \/ request = NoRequest /\ shown' = Elsewhere
     \/ /\ "byHand" \in Faults
        /\ \E f \in Folders, n \in Pages : PageOf(f, n) # <<>> /\ shown' = Shows(f, n)
  /\ shown' # shown
  /\ known' = {} /\ inPlace' = {}
  /\ UNCHANGED <<tabVars, caches, request, outcome, requests>>

Open ==
  \/ Navigate \/ SelectFolder \/ WaitForRows
  \/ GoToCached \/ ScanCached \/ BeginAgain \/ ScanPage \/ NextPage
  \/ Locate \/ Click \/ Retry \/ GivesUpOpening

LibraryNext ==
  \/ Open \/ RowsArrive \/ Scrolls \/ ListChanges \/ TabTurned
  \/ \E p \in People, f \in Folders : Ask(p, f)

LibrarySpec == LibraryInit /\ [][LibraryNext]_libraryVars

-----------------------------------------------------------------------------

LibraryTypeOK ==
  /\ shown.folder \in Folders \union {NoFolder} /\ shown.page \in Pages
  /\ folderCache \in Folders \union {NoFolder}
  /\ matchCache \in [Folders -> [People -> 0..MaxPages]]
  /\ known \union inPlace \subseteq ((Folders \union {NoFolder}) \X Pages) \union {Aim}
  /\ request.at \in {"idle", "navigate", "folder", "wait", "cached", "cachedScan", "again", "scan",
                     "next", "click", "press"}

(* Whatever is stale, a resume that opens is one of the name that is asked *)
(* for.  It fits the candidate in every field, however the folders change  *)
(* under the caches, unless the rows it was found in were not those of the *)
(* page the tab was on, or the page has scrolled since they were read, or  *)
(* someone turned the tab: then the nearest look-alike may open instead.   *)
OpenedQualifies ==
  outcome.result = "opened" =>
    /\ SameName(outcome.person, outcome.asked)
    /\ outcome.sure => Qualifies(outcome.asked, outcome.person)

(* Rows in the cache for the page the tab is on are the rows it shows, as  *)
(* long as they were so when they were read and only requests have turned  *)
(* the tab since: no page is come to again without a click on its folder,  *)
(* which forgets them.                                                     *)
CacheIsShown ==
  shown.folder # NoFolder /\ Cached(shown.page) # <<>> /\ Key(shown.page) \in known =>
    Cached(shown.page)[1] = shown.rows
=============================================================================
