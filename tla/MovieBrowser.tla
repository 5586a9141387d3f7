---------------------------- MODULE MovieBrowser ----------------------------
(***************************************************************************)
(* Browsing: the list of movies (APMainViewController), the page of one    *)
(* movie (APMovieDetailsViewController), the bar that leads from one to    *)
(* the other (AppDelegate), and the searches they send to the background   *)
(* queue, whose answers come back on the main queue at any time and in any *)
(* order.                                                                  *)
(*                                                                         *)
(* A movie of a section is retained for good.  A movie that a search found *)
(* is retained by the collection view only, and not by the page that shows *)
(* it: new content frees it under the page.  What uses it then works as    *)
(* long as the memory is not reused, or ends the process.                  *)
(*                                                                         *)
(* Abstracted: language and quality are one preference; a search for       *)
(* movies that fails finds none; the trailer is left out; a torrent is     *)
(* named by the query it answers; the movies of two sections are named     *)
(* apart.                                                                  *)
(***************************************************************************)
EXTENDS Naturals, FiniteSets, Functions

CONSTANTS
    Section,    (* top rentals, current releases, new releases              *)
    Keywords,   (* what is typed in the search field                        *)
    Empty,      (* the empty search field, which may be searched for, too   *)
    Listed,     (* [Section -> set of titles]                               *)
    Hits,       (* [Keywords -> set of titles]                              *)
    Pref,       (* language and quality                                     *)
    MaxSearches,(* the searches for movies under way, per words (a bound)   *)
    MaxFinds,   (* the searches for a torrent under way (a bound)           *)
    None

ASSUME BrowserAssumption ==
    /\ Section # {} /\ Pref # {} /\ Empty \in Keywords
    /\ Section \cap Keywords = {} /\ None \notin Section \cup Keywords \cup Pref
    /\ DOMAIN Listed = Section /\ DOMAIN Hits = Keywords
    /\ MaxSearches \in Nat /\ MaxFinds \in Nat

Title == UNION ({Listed[s] : s \in Section} \cup {Hits[k] : k \in Keywords})
Movie == [title : Title, found : BOOLEAN]
Query == [title : Title, pref : Pref]

(* There are as many movies as the shop has, and a few languages and       *)
(* qualities (preferedLanguage, hdQuality).                                *)
ASSUME CatalogueAssumption == IsFiniteSet(Title) /\ IsFiniteSet(Pref)

VARIABLES
    page,       (* "list" or "details"                                      *)
    section,    (* the section button that is on, or None                   *)
    field,      (* the string in _searchField                               *)
    typed,      (* the field has changed and has not sent its action yet    *)
    content,    (* what the collection view shows: a section or the results *)
                (* of a search                                              *)
    loading,    (* _loadingView is visible                                  *)
    searches,   (* [Keywords -> number of searches under way]               *)
    movie,      (* _movie of the details page                               *)
    freed,      (* _movie has been released                                 *)
    offer,      (* _movie.bestTorrent                                       *)
    best,       (* bestTorrent of all the movies                            *)
    button,     (* title of _downloadButton, _ for each space               *)
    pref,       (* the user defaults preferedLanguage and hdQuality         *)
    queued,     (* blocks on the background queue that will find a torrent  *)
    sent,       (* [Query -> number of searches for a torrent under way]    *)
    app,        (* "up" or "crashed"                                        *)
    calm,       (* history: no search for movies was under way when the     *)
                (* page was opened                                          *)
    chosen      (* history: the last search for a torrent was started by a  *)
                (* choice of language or quality, and alone                 *)

listVars == <<page, section, field, typed, content, loading, searches>>
pageVars == <<movie, freed, offer, best, button, pref, queued, sent, calm, chosen>>
vars == <<listVars, pageVars, app>>

(* Every variable keeps its type.                                          *)
TypeOK ==
    /\ page \in {"list", "details"}
    /\ section \in Section \cup {None}
    /\ field \in Keywords /\ typed \in BOOLEAN /\ content \in Section \cup Keywords
    /\ loading \in BOOLEAN /\ searches \in [Keywords -> 0 .. MaxSearches]
    /\ movie \in Movie \cup {None} /\ freed \in BOOLEAN
    /\ offer \in Query \cup {None} /\ best \in [Movie -> Query \cup {None}]
    /\ button \in {"", "SEARCHING_TORRENT", "DOWNLOAD", "NO_DOWNLOAD_FOUND"}
    /\ pref \in Pref
    /\ queued \in 0 .. MaxFinds /\ sent \in [Query -> 0 .. MaxFinds]
    /\ app \in {"up", "crashed"} /\ calm \in BOOLEAN /\ chosen \in BOOLEAN

Init ==
    /\ page = "list" /\ section \in Section /\ content = section
    /\ field = Empty /\ typed = FALSE /\ loading = FALSE
    /\ searches = [k \in Keywords |-> 0]
    /\ movie = None /\ freed = FALSE /\ offer = None
    /\ best = [m \in Movie |-> None] /\ button = "" /\ pref \in Pref
    /\ queued = 0 /\ sent = [q \in Query |-> 0] /\ app = "up"
    /\ calm = TRUE /\ chosen = FALSE
-----------------------------------------------------------------------------
Shown ==
    IF content \in Section THEN [title : Listed[content], found : {FALSE}]
                           ELSE [title : Hits[content], found : {TRUE}]

(* setContent: the results shown before are released.                      *)
SetContent(c) ==
    /\ content' = c
    /\ freed' = (freed \/ (movie # None /\ movie.found))
    /\ best' = [m \in Movie |-> IF m.found THEN None ELSE best[m]]

(* A use of _movie.  Of a freed one, it may be the end.                    *)
Uses(effect) ==
    \/ effect /\ UNCHANGED app
    \/ freed /\ app' = "crashed" /\ UNCHANGED <<listVars, pageVars>>

(* _movie.bestTorrent = t                                                  *)
SetBestTorrent(t) ==
    /\ offer' = t
    /\ best' = IF freed THEN best ELSE [best EXCEPT ![movie] = t]

NoFinds == queued = 0 /\ \A q \in Query : sent[q] = 0

(* Mutant: the title stays while it searches.                              *)
FindDownloadQuietly ==
    /\ UNCHANGED button
    /\ queued + SumFunction(sent) < MaxFinds
    /\ queued' = queued + 1 /\ UNCHANGED sent

(* _findDownloadForCurrentLanguage                                         *)
FindDownload ==
    /\ button' = "SEARCHING_TORRENT"
    /\ queued + SumFunction(sent) < MaxFinds
    /\ queued' = queued + 1 /\ UNCHANGED sent
-----------------------------------------------------------------------------
(* The bar and the list.                                                   *)

(* Mutant: the search field keeps its words.                               *)
ShowSectionKeepsField(s) ==
    /\ page' = "list" /\ section' = s /\ field' = field /\ loading' = FALSE
    /\ typed' \in {FALSE, typed}
    /\ SetContent(s)
    /\ UNCHANGED <<searches, movie, offer, button, pref, queued, sent, app, calm, chosen>>

(* showTopRentals, showCurrentReleases, showNewReleases.  An action that   *)
(* the field was about to send may still come, for the empty string.       *)
ShowSection(s) ==
    /\ page' = "list" /\ section' = s /\ field' = Empty /\ loading' = FALSE
    /\ typed' \in {FALSE, typed}
    /\ SetContent(s)
    /\ UNCHANGED <<searches, movie, offer, button, pref, queued, sent, app, calm, chosen>>

Type(k) ==
    /\ k # field /\ field' = k /\ typed' = TRUE
    /\ UNCHANGED <<page, section, content, loading, searches, pageVars, app>>

(* Mutant: the page of the movie stays.                                    *)
SearchUnderPage ==
    /\ typed' = FALSE /\ section' = None /\ loading' = TRUE
    /\ searches' = [searches EXCEPT ![field] = @ + 1]
    /\ searches'[field] <= MaxSearches
    /\ UNCHANGED <<page, field, content, pageVars, app>>

(* search, sent by the field some time after the last change or at the     *)
(* return key, and showSearchForKeyWord.                                   *)
Search ==
    /\ typed' = FALSE /\ page' = "list" /\ section' = None /\ loading' = TRUE
    /\ searches' = [searches EXCEPT ![field] = @ + 1]
    /\ searches'[field] <= MaxSearches
    /\ UNCHANGED <<field, content, pageVars, app>>

(* back: to the section, or to the results, without searching again        *)
Back ==
    /\ page = "details"
    /\ \/ section # None /\ ShowSection(section)
       \/ section = None /\ page' = "list"
          /\ UNCHANGED <<section, field, typed, content, loading, searches,
                         pageVars, app>>

(* Mutant: without comparing the words.                                    *)
AnswerSearchAlways(k) ==
    /\ searches[k] > 0
    /\ searches' = [searches EXCEPT ![k] = @ - 1]
    /\ loading' = FALSE /\ SetContent(k)
    /\ UNCHANGED <<page, section, field, typed, movie, offer, button, pref, queued, sent,
                   app, calm, chosen>>

(* Mutant: the loading view goes when there is something to show.          *)
AnswerSearchHits(k) ==
    /\ searches[k] > 0
    /\ searches' = [searches EXCEPT ![k] = @ - 1]
    /\ IF k = field THEN loading' = (Hits[k] = {}) /\ SetContent(k)
                    ELSE UNCHANGED <<loading, content, freed, best>>
    /\ UNCHANGED <<page, section, field, typed, movie, offer, button, pref, queued, sent,
                   app, calm, chosen>>

(* The answer of a search: shown if the field still says the same.         *)
AnswerSearch(k) ==
    /\ searches[k] > 0
    /\ searches' = [searches EXCEPT ![k] = @ - 1]
    /\ IF k = field THEN loading' = FALSE /\ SetContent(k)
                    ELSE UNCHANGED <<loading, content, freed, best>>
    /\ UNCHANGED <<page, section, field, typed, movie, offer, button, pref, queued, sent,
                   app, calm, chosen>>
-----------------------------------------------------------------------------
(* The page of a movie.                                                    *)

(* showMovieDetails and updateViewWithMovie                                *)
ShowMovieDetails(m) ==
    /\ page = "list" /\ m \in Shown
    /\ page' = "details" /\ movie' = m /\ freed' = FALSE /\ offer' = best[m]
    /\ FindDownload
    /\ calm' = (\A k \in Keywords : searches[k] = 0) /\ chosen' = FALSE
    /\ UNCHANGED <<section, field, typed, content, loading, searches, best, pref, app>>

(* Mutant: bestTorrent is not reset.                                       *)
SelectPrefKeeps(p) ==
    /\ page = "details"
    /\ Uses(/\ pref' = p
            /\ UNCHANGED <<offer, best>>
            /\ FindDownload
            /\ chosen' = NoFinds
            /\ UNCHANGED <<listVars, movie, freed, calm>>)

(* languageSelect and qualitySelect                                        *)
SelectPref(p) ==
    /\ page = "details"
    /\ Uses(/\ pref' = p
            /\ SetBestTorrent(None)
            /\ FindDownload
            /\ chosen' = NoFinds
            /\ UNCHANGED <<listVars, movie, freed, calm>>)

(* Mutant: the block is dispatched again.                                  *)
FindTorrentTwice ==
    /\ queued > 0
    /\ Uses(LET q == [title |-> movie.title, pref |-> pref]
            IN  /\ queued' \in {queued, queued - 1} /\ sent' = [sent EXCEPT ![q] = @ + 1]
                /\ UNCHANGED <<listVars, movie, freed, offer, best, button, pref,
                               calm, chosen>>)

(* The block on the background queue: it reads _movie and the user         *)
(* defaults when it gets to run.                                           *)
FindTorrent ==
    /\ queued > 0
    /\ Uses(LET q == [title |-> movie.title, pref |-> pref]
            IN  /\ queued' = queued - 1 /\ sent' = [sent EXCEPT ![q] = @ + 1]
                /\ UNCHANGED <<listVars, movie, freed, offer, best, button, pref,
                               calm, chosen>>)

(* Mutant: says something when there is a torrent only.                    *)
FoundTorrentOnly(q) ==
    /\ sent[q] > 0
    /\ Uses(/\ \E t \in {q, None, offer} : SetBestTorrent(t)
            /\ button' = IF offer' # None THEN "DOWNLOAD" ELSE button
            /\ sent' = [sent EXCEPT ![q] = @ - 1]
            /\ UNCHANGED <<listVars, movie, freed, queued, pref, calm, chosen>>)

(* The block on the main queue: no answer leaves bestTorrent as it is, an  *)
(* answer without a url clears it.                                         *)
FoundTorrent(q) ==
    /\ sent[q] > 0
    /\ Uses(/\ \E t \in {q, None, offer} : SetBestTorrent(t)
            /\ button' = IF offer' # None THEN "DOWNLOAD" ELSE "NO_DOWNLOAD_FOUND"
            /\ sent' = [sent EXCEPT ![q] = @ - 1]
            /\ UNCHANGED <<listVars, movie, freed, queued, pref, calm, chosen>>)
-----------------------------------------------------------------------------
User ==
    \/ \E s \in Section : ShowSection(s)
    \/ \E k \in Keywords : Type(k)
    \/ Search
    \/ Back
    \/ \E m \in Movie : ShowMovieDetails(m)
    \/ \E p \in Pref : SelectPref(p)

Answers ==
    \/ \E k \in Keywords : AnswerSearch(k)
    \/ FindTorrent
    \/ \E q \in Query : FoundTorrent(q)

Next == app = "up" /\ (User \/ Answers)

(* Both queues run what they are given, requests time out after 15 s, and  *)
(* a field that has changed sends its action.                              *)
Fairness ==
    /\ WF_vars(app = "up" /\ typed /\ Search)
    /\ \A k \in Keywords : WF_vars(app = "up" /\ AnswerSearch(k))
    /\ WF_vars(app = "up" /\ FindTorrent)
    /\ WF_vars(app = "up" /\ \E q \in Query : FoundTorrent(q))

Spec == Init /\ [][Next]_vars /\ Fairness
-----------------------------------------------------------------------------
(* A late answer never replaces the list of a section, unless its words    *)
(* are being typed again or it answers the empty search: showTopRentals    *)
(* empties the field the answer is compared with.                          *)
SectionKept ==
    section # None /\ ~typed => content \in {section, Empty}

(* Once the loading view is gone, the results are those of the words in    *)
(* the field, whatever the order in which the answers came.                *)
ResultsMatchField ==
    section = None /\ ~loading /\ ~typed => content = field

(* The page of a movie opened when no search for movies was under way      *)
(* keeps its movie: _movie is only released behind the list.               *)
PageKeepsMovie ==
    page = "details" /\ calm => ~freed

(* download: takes the url of bestTorrent, so the button never says        *)
(* DOWNLOAD without one.                                                   *)
DownloadHasTorrent ==
    button = "DOWNLOAD" => offer # None

(* After a choice of language or quality made while no search for a        *)
(* torrent was under way, the torrent offered is of this movie and of this *)
(* choice, though answers fail and though the movie had another torrent.   *)
ChoiceObeyed ==
    chosen /\ button = "DOWNLOAD" => offer = [title |-> movie.title, pref |-> pref]

(* The loading view does not stay for ever over words that do not change,  *)
(* even though the answers to other words are dropped without removing it. *)
LoadingEnds ==
    \A k \in Keywords :
        (loading /\ field = k) ~> (~loading \/ field # k \/ app = "crashed")

(* "SEARCHING TORRENT" is always followed by an answer, on whatever page.  *)
FindEnds ==
    button = "SEARCHING_TORRENT" ~> (button # "SEARCHING_TORRENT" \/ app = "crashed")
=============================================================================
