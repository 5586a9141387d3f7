------------------------- MODULE MovieBrowserProofs -------------------------
(***************************************************************************)
(* Proofs about MovieBrowser: what a user sees is never replaced by the    *)
(* answer to something older, for any sections, words, movies, preferences *)
(* and any number of searches under way.                                   *)
(***************************************************************************)
EXTENDS MovieBrowser, FoldLemmas

(* The types the invariants rest on.                                       *)
ListTyped ==
    /\ section \in Section \cup {None} /\ field \in Keywords /\ typed \in BOOLEAN
    /\ searches \in [Keywords -> Nat]
FindsTyped == queued \in Nat /\ sent \in [Query -> Nat]

(* While a section is on, the field is empty unless something was typed    *)
(* that has not been searched for: only the empty search's answer fits.    *)
FieldEmptied == section # None /\ ~typed => field = Empty

ListInv == ListTyped /\ FieldEmptied /\ SectionKept /\ ResultsMatchField

(* A page opened while no search was under way has none behind it.         *)
NoneBehind == page = "details" /\ calm => \A k \in Keywords : searches[k] = 0

(* What the page asks for now.                                             *)
Current == [title |-> movie.title, pref |-> pref]

(* The one search for a torrent that a lone choice began is on the queue,  *)
(* under way with the current query, or answered.                          *)
Waiting == queued = 1 /\ (\A q \in Query : sent[q] = 0) /\ offer = None
Asked == /\ queued = 0 /\ offer = None
         /\ \A q \in Query : sent[q] = IF q = Current THEN 1 ELSE 0
Answered == queued = 0 /\ (\A q \in Query : sent[q] = 0) /\ offer \in {None, Current}
LoneChoice == chosen => Waiting \/ Asked \/ Answered

IInv ==
    /\ ListInv /\ FindsTyped
    /\ NoneBehind /\ PageKeepsMovie
    /\ DownloadHasTorrent
    /\ LoneChoice
-----------------------------------------------------------------------------
LEMMA InitIInv == Init => IInv
<1> SUFFICES ASSUME Init PROVE IInv
  OBVIOUS
<1>1. ListTyped /\ FindsTyped
  BY BrowserAssumption DEF Init, ListTyped, FindsTyped
<1>2. FieldEmptied /\ SectionKept /\ ResultsMatchField
  BY BrowserAssumption DEF Init, FieldEmptied, SectionKept, ResultsMatchField
<1>3. NoneBehind /\ PageKeepsMovie /\ DownloadHasTorrent
  BY DEF Init, NoneBehind, PageKeepsMovie, DownloadHasTorrent
<1>4. LoneChoice
  BY DEF Init, LoneChoice
<1> QED
  BY <1>1, <1>2, <1>3, <1>4 DEF IInv, ListInv

(* What the page does leaves the list alone, and the other way round.      *)
LEMMA ListStays == ASSUME ListInv, UNCHANGED listVars PROVE ListInv'
BY DEF ListInv, ListTyped, FieldEmptied, SectionKept, ResultsMatchField, listVars

LEMMA FindsStay ==
    ASSUME IInv, UNCHANGED <<movie, offer, button, pref, queued, sent, chosen>>
    PROVE  FindsTyped' /\ DownloadHasTorrent' /\ LoneChoice'
BY DEF IInv, FindsTyped, DownloadHasTorrent, LoneChoice, Waiting, Asked, Answered, Current

(* The end of the process changes nothing else.                            *)
LEMMA CrashIInv == ASSUME IInv, UNCHANGED <<listVars, pageVars>> PROVE IInv'
<1>1. ListInv'
  BY ListStays DEF IInv
<1>2. FindsTyped' /\ DownloadHasTorrent' /\ LoneChoice'
  BY FindsStay DEF pageVars
<1>3. NoneBehind' /\ PageKeepsMovie'
  BY DEF IInv, NoneBehind, PageKeepsMovie, listVars, pageVars
<1> QED
  BY <1>1, <1>2, <1>3 DEF IInv
-----------------------------------------------------------------------------
LEMMA ShowSectionIInv == ASSUME IInv, NEW s \in Section, ShowSection(s) PROVE IInv'
<1>1. ListTyped' /\ FieldEmptied' /\ SectionKept'
  BY BrowserAssumption
     DEF ShowSection, SetContent, IInv, ListInv, ListTyped, FieldEmptied, SectionKept
<1>2. ResultsMatchField' /\ NoneBehind' /\ PageKeepsMovie'
  BY BrowserAssumption DEF ShowSection, ResultsMatchField, NoneBehind, PageKeepsMovie
<1>3. FindsTyped' /\ DownloadHasTorrent' /\ LoneChoice'
  BY FindsStay DEF ShowSection
<1> QED
  BY <1>1, <1>2, <1>3 DEF IInv, ListInv

LEMMA TypeIInv == ASSUME IInv, NEW k \in Keywords, Type(k) PROVE IInv'
<1>1. ListInv'
  BY DEF Type, IInv, ListInv, ListTyped, FieldEmptied, SectionKept, ResultsMatchField
<1>2. NoneBehind' /\ PageKeepsMovie'
  BY DEF Type, pageVars, IInv, NoneBehind, PageKeepsMovie
<1>3. FindsTyped' /\ DownloadHasTorrent' /\ LoneChoice'
  BY FindsStay DEF Type, pageVars
<1> QED
  BY <1>1, <1>2, <1>3 DEF IInv

LEMMA SearchIInv == ASSUME IInv, Search PROVE IInv'
<1>1. ListTyped'
  <2>1. searches' \in [Keywords -> Nat]
    BY DEF Search, IInv, ListInv, ListTyped
  <2> QED
    BY <2>1 DEF Search, IInv, ListInv, ListTyped
<1>2. FieldEmptied' /\ SectionKept' /\ ResultsMatchField'
  BY DEF Search, FieldEmptied, SectionKept, ResultsMatchField
<1>3. NoneBehind' /\ PageKeepsMovie'
  BY DEF Search, NoneBehind, PageKeepsMovie
<1>4. FindsTyped' /\ DownloadHasTorrent' /\ LoneChoice'
  BY FindsStay DEF Search, pageVars
<1> QED
  BY <1>1, <1>2, <1>3, <1>4 DEF IInv, ListInv

LEMMA BackIInv == ASSUME IInv, Back PROVE IInv'
<1>1. CASE section # None /\ ShowSection(section)
  BY <1>1, ShowSectionIInv DEF IInv, ListInv, ListTyped
<1>2. CASE page' = "list" /\ UNCHANGED <<section, field, typed, content, loading, searches,
                                         pageVars>>
  <2>1. ListInv'
    BY <1>2 DEF IInv, ListInv, ListTyped, FieldEmptied, SectionKept, ResultsMatchField
  <2>2. NoneBehind' /\ PageKeepsMovie'
    BY <1>2 DEF NoneBehind, PageKeepsMovie
  <2>3. FindsTyped' /\ DownloadHasTorrent' /\ LoneChoice'
    BY <1>2, FindsStay DEF pageVars
  <2> QED
    BY <2>1, <2>2, <2>3 DEF IInv
<1> QED
  BY <1>1, <1>2 DEF Back

LEMMA AnswerSearchIInv == ASSUME IInv, NEW k \in Keywords, AnswerSearch(k) PROVE IInv'
<1>1. ListTyped'
  <2>1. searches' \in [Keywords -> Nat]
    BY DEF AnswerSearch, IInv, ListInv, ListTyped
  <2> QED
    BY <2>1 DEF AnswerSearch, IInv, ListInv, ListTyped
<1>2. FieldEmptied' /\ SectionKept' /\ ResultsMatchField'
  BY DEF AnswerSearch, SetContent, IInv, ListInv, FieldEmptied, SectionKept, ResultsMatchField
<1>3. NoneBehind' /\ PageKeepsMovie'
  <2>1. searches[k] # 0
    BY DEF AnswerSearch, IInv, ListInv, ListTyped
  <2>2. ~(page = "details" /\ calm)
    BY <2>1 DEF IInv, NoneBehind
  <2> QED
    BY <2>2 DEF AnswerSearch, NoneBehind, PageKeepsMovie
<1>4. FindsTyped' /\ DownloadHasTorrent' /\ LoneChoice'
  BY FindsStay DEF AnswerSearch
<1> QED
  BY <1>1, <1>2, <1>3, <1>4 DEF IInv, ListInv
-----------------------------------------------------------------------------
LEMMA ShowMovieDetailsIInv == ASSUME IInv, NEW m \in Movie, ShowMovieDetails(m) PROVE IInv'
<1>1. ListInv'
  BY DEF ShowMovieDetails, IInv, ListInv, ListTyped, FieldEmptied, SectionKept,
         ResultsMatchField
<1>2. FindsTyped'
  <2>1. FindsTyped
    BY DEF IInv
  <2>2. queued' = queued + 1 /\ sent' = sent
    BY DEF ShowMovieDetails, FindDownload
  <2> QED
    BY <2>1, <2>2 DEF FindsTyped
<1>3. NoneBehind' /\ PageKeepsMovie' /\ DownloadHasTorrent' /\ LoneChoice'
  BY DEF ShowMovieDetails, FindDownload, NoneBehind, PageKeepsMovie, DownloadHasTorrent,
         LoneChoice
<1> QED
  BY <1>1, <1>2, <1>3 DEF IInv

(* A choice is alone if there was no search at all: then its own waits.    *)
LEMMA SelectPrefIInv == ASSUME IInv, NEW p \in Pref, SelectPref(p) PROVE IInv'
<1>1. CASE UNCHANGED <<listVars, pageVars>>
  BY <1>1, CrashIInv
<1>2. CASE ~UNCHANGED <<listVars, pageVars>>
  <2>1. UNCHANGED listVars
    BY <1>2 DEF SelectPref, Uses
  <2>2. UNCHANGED <<movie, freed, calm, sent>>
    BY <1>2 DEF SelectPref, Uses, FindDownload
  <2>3. offer' = None /\ button' = "SEARCHING_TORRENT" /\ queued' = queued + 1
    BY <1>2 DEF SelectPref, Uses, SetBestTorrent, FindDownload
  <2>4. ListInv'
    BY <2>1, ListStays DEF IInv
  <2>5. FindsTyped'
    <3>1. FindsTyped
      BY DEF IInv
    <3> QED
      BY <2>2, <2>3, <3>1 DEF FindsTyped
  <2>6. NoneBehind' /\ PageKeepsMovie' /\ DownloadHasTorrent'
    BY <2>1, <2>2, <2>3 DEF listVars, IInv, NoneBehind, PageKeepsMovie, DownloadHasTorrent
  <2>7. LoneChoice'
    <3> SUFFICES ASSUME chosen' PROVE Waiting'
      BY DEF LoneChoice
    <3>1. chosen' = NoFinds
      BY <1>2 DEF SelectPref, Uses
    <3>2. queued = 0 /\ \A q \in Query : sent[q] = 0
      BY <3>1 DEF NoFinds
    <3> QED
      BY <2>2, <2>3, <3>2 DEF Waiting
  <2> QED
    BY <2>4, <2>5, <2>6, <2>7 DEF IInv
<1> QED
  BY <1>1, <1>2

(* The block reads the movie and the preferences as they are now.          *)
LEMMA FindTorrentIInv == ASSUME IInv, FindTorrent PROVE IInv'
<1>1. CASE UNCHANGED <<listVars, pageVars>>
  BY <1>1, CrashIInv
<1>2. CASE ~UNCHANGED <<listVars, pageVars>>
  <2>1. UNCHANGED listVars
    BY <1>2 DEF FindTorrent, Uses
  <2>2. UNCHANGED <<movie, freed, offer, button, pref, calm, chosen>>
    BY <1>2 DEF FindTorrent, Uses
  <2>3. /\ queued > 0 /\ queued' = queued - 1
        /\ sent' = [sent EXCEPT ![Current] = @ + 1]
    BY <1>2 DEF FindTorrent, Uses, Current
  <2>4. FindsTyped
    BY DEF IInv
  <2>5. ListInv'
    BY <2>1, ListStays DEF IInv
  <2>6. FindsTyped'
    <3>1. queued' \in Nat
      BY <2>3, <2>4 DEF FindsTyped
    <3>2. ASSUME NEW q \in Query PROVE sent'[q] \in Nat
      BY <2>3, <2>4 DEF FindsTyped
    <3>3. sent' \in [Query -> Nat]
      BY <2>3, <2>4, <3>2 DEF FindsTyped
    <3> QED
      BY <3>1, <3>3 DEF FindsTyped
  <2>7. NoneBehind' /\ PageKeepsMovie' /\ DownloadHasTorrent'
    BY <2>1, <2>2 DEF listVars, IInv, NoneBehind, PageKeepsMovie, DownloadHasTorrent
  <2>8. LoneChoice'
    <3> SUFFICES ASSUME chosen PROVE Asked'
      BY <2>2 DEF LoneChoice
    <3>1. queued # 0
      BY <2>3, <2>4 DEF FindsTyped
    <3>2. Waiting
      BY <3>1, Zenon DEF IInv, LoneChoice, Asked, Answered
    <3>3. Current' = Current
      BY <2>2 DEF Current
    <3>4. ASSUME NEW q \in Query PROVE sent'[q] = IF q = Current THEN 1 ELSE 0
      BY <2>3, <2>4, <3>2 DEF FindsTyped, Waiting
    <3> QED
      BY <2>2, <2>3, <3>2, <3>3, <3>4 DEF Asked, Waiting
  <2> QED
    BY <2>5, <2>6, <2>7, <2>8 DEF IInv
<1> QED
  BY <1>1, <1>2

(* Of a lone choice, the only answer there can be is to what it asked.     *)
LEMMA FoundTorrentIInv == ASSUME IInv, NEW q \in Query, FoundTorrent(q) PROVE IInv'
<1>1. CASE UNCHANGED <<listVars, pageVars>>
  BY <1>1, CrashIInv
<1>2. CASE ~UNCHANGED <<listVars, pageVars>>
  <2>1. UNCHANGED listVars
    BY <1>2 DEF FoundTorrent, Uses
  <2>2. UNCHANGED <<movie, freed, queued, pref, calm, chosen>>
    BY <1>2 DEF FoundTorrent, Uses
  <2>3. /\ sent[q] > 0 /\ sent' = [sent EXCEPT ![q] = @ - 1]
        /\ offer' \in {q, None, offer}
        /\ button' = IF offer' # None THEN "DOWNLOAD" ELSE "NO_DOWNLOAD_FOUND"
    BY <1>2 DEF FoundTorrent, Uses, SetBestTorrent
  <2>4. FindsTyped
    BY DEF IInv
  <2>5. ListInv'
    BY <2>1, ListStays DEF IInv
  <2>6. FindsTyped'
    BY <2>2, <2>3, <2>4 DEF FindsTyped
  <2>7. NoneBehind' /\ PageKeepsMovie' /\ DownloadHasTorrent'
    BY <2>1, <2>2, <2>3 DEF listVars, IInv, NoneBehind, PageKeepsMovie, DownloadHasTorrent
  <2>8. LoneChoice'
    <3> SUFFICES ASSUME chosen PROVE Answered'
      BY <2>2 DEF LoneChoice
    <3>1. sent[q] # 0
      BY <2>3, <2>4 DEF FindsTyped
    <3>2. Asked
      BY <3>1, Zenon DEF IInv, LoneChoice, Waiting, Answered
    <3>3. Current' = Current
      BY <2>2 DEF Current
    <3>4. q = Current
      BY <3>1, <3>2 DEF Asked
    <3>5. ASSUME NEW r \in Query PROVE sent'[r] = 0
      <4>1. sent[r] = IF r = q THEN 1 ELSE 0
        BY <3>2, <3>4 DEF Asked
      <4> QED
        BY <2>3, <2>4, <4>1 DEF FindsTyped
    <3> QED
      BY <2>2, <2>3, <3>2, <3>3, <3>4, <3>5 DEF Answered, Asked
  <2> QED
    BY <2>5, <2>6, <2>7, <2>8 DEF IInv
<1> QED
  BY <1>1, <1>2
-----------------------------------------------------------------------------
LEMMA NextIInv == IInv /\ [Next]_vars => IInv'
<1> SUFFICES ASSUME IInv, [Next]_vars PROVE IInv'
  OBVIOUS
<1>1. CASE UNCHANGED vars
  BY <1>1, CrashIInv DEF vars
<1>2. CASE User
  BY <1>2, ShowSectionIInv, TypeIInv, SearchIInv, BackIInv, ShowMovieDetailsIInv,
     SelectPrefIInv DEF User
<1>3. CASE Answers
  BY <1>3, AnswerSearchIInv, FindTorrentIInv, FoundTorrentIInv DEF Answers
<1> QED
  BY <1>1, <1>2, <1>3 DEF Next

LEMMA IInvHolds == Spec => []IInv
BY InitIInv, NextIInv, PTL DEF Spec

(* The list of a section is not replaced by a late answer: of the searches *)
(* under way only one for the empty string can still be shown, since       *)
(* showTopRentals and the other two have emptied the field.                *)
THEOREM SectionStays == Spec => []SectionKept
<1>1. IInv => SectionKept
  BY DEF IInv, ListInv
<1> QED
  BY <1>1, IInvHolds, PTL

(* Results on show without the loading view are those of the field's       *)
(* words: showSearchForKeyWord's answer compares them (k = field).         *)
THEOREM ResultsAreOfTheField == Spec => []ResultsMatchField
<1>1. IInv => ResultsMatchField
  BY DEF IInv, ListInv
<1> QED
  BY <1>1, IInvHolds, PTL

(* No content arrives behind a page opened while nothing was searched for, *)
(* so its movie, which the page does not retain, is not released.          *)
THEOREM MovieStays == Spec => []PageKeepsMovie
<1>1. IInv => PageKeepsMovie
  BY DEF IInv
<1> QED
  BY <1>1, IInvHolds, PTL

(* The button says DOWNLOAD only with a torrent to download.               *)
THEOREM DownloadIsOffered == Spec => []DownloadHasTorrent
<1>1. IInv => DownloadHasTorrent
  BY DEF IInv
<1> QED
  BY <1>1, IInvHolds, PTL

(* The torrent offered after a lone choice of language or quality is of    *)
(* this choice, because its search is the only one there is: until it      *)
(* begins on the queue it would follow the page, then it is fixed.         *)
THEOREM LoneChoiceObeyed == Spec => []ChoiceObeyed
<1>1. IInv => ChoiceObeyed
  <2> SUFFICES ASSUME IInv, chosen, button = "DOWNLOAD" PROVE offer = Current
    BY DEF ChoiceObeyed, Current
  <2> QED
    BY DEF IInv, DownloadHasTorrent, LoneChoice, Waiting, Asked, Answered
<1> QED
  BY <1>1, IInvHolds, PTL
-----------------------------------------------------------------------------
(* The searches for a torrent under way, one by one.                       *)
Tokens(s) == {t \in Query \X Nat : 0 < t[2] /\ t[2] <= s[t[1]]}

LEMMA QueriesFinite == IsFiniteSet(Query)
<1> DEFINE f == [q \in Title \X Pref |-> [title |-> q[1], pref |-> q[2]]]
<1>1. IsFiniteSet(Title \X Pref)
  BY CatalogueAssumption, FS_Product
<1>2. f \in [Title \X Pref -> Query]
  BY DEF Query
<1>3. ASSUME NEW r \in Query PROVE \E q \in Title \X Pref : f[q] = r
  <2>1. r.title \in Title /\ r.pref \in Pref /\ r = [title |-> r.title, pref |-> r.pref]
    BY DEF Query
  <2>2. <<r.title, r.pref>> \in Title \X Pref /\ f[<<r.title, r.pref>>] = r
    BY <2>1
  <2> QED
    BY <2>2
<1> HIDE DEF f
<1>4. f \in Surjection(Title \X Pref, Query)
  BY <1>2, <1>3 DEF Surjection
<1> QED
  BY <1>1, <1>4, FS_Surjection

(* Their number is the sum that _findDownloadForCurrentLanguage is bound   *)
(* by.                                                                     *)
LEMMA SumIsTokens ==
    ASSUME NEW s \in [Query -> Nat]
    PROVE  IsFiniteSet(Tokens(s)) /\ SumFunction(s) = Cardinality(Tokens(s))
<1> DEFINE A == [q \in Query |-> {q} \X (1 .. s[q])]
           Eq(it) == it = [u \in SUBSET (DOMAIN s) |->
                             IF u = {} THEN 0
                             ELSE s[CHOOSE x \in u : TRUE] + it[u \ {CHOOSE x \in u : TRUE}]]
           F == CHOOSE it : Eq(it)
<1>1. SumFunction(s) = F[DOMAIN s]
  BY Zenon DEF SumFunction, SumFunctionOnSet, FoldFunctionOnSet, MapThenFoldSet
<1>2. DOMAIN s = Query
  OBVIOUS
<1>3. ASSUME NEW q \in Query PROVE IsFiniteSet(A[q]) /\ Cardinality(A[q]) = s[q]
  <2> DEFINE n == s[q]
             J == {q}
             K == 1 .. n
  <2>1. n \in Nat
    OBVIOUS
  <2>2. IsFiniteSet(J) /\ Cardinality(J) = 1
    BY FS_Singleton
  <2>3. IsFiniteSet(K) /\ Cardinality(K) = n
    <3>1. Cardinality(K) = IF 1 > n THEN 0 ELSE n - 1 + 1
      BY <2>1, FS_Interval
    <3>2. IsFiniteSet(K)
      BY <2>1, FS_Interval
    <3> HIDE DEF n
    <3> QED
      BY <2>1, <3>1, <3>2
  <2>4. A[q] = J \X K
    OBVIOUS
  <2> HIDE DEF n, J, K, A
  <2>5. IsFiniteSet(J \X K) /\ Cardinality(J \X K) = 1 * n
    BY <2>2, <2>3, FS_Product
  <2>6. 1 * n = n
    BY <2>1
  <2> QED
    BY <2>4, <2>5, <2>6 DEF n
<1>4. \A x, y \in Query : x # y => A[x] \cap A[y] = {}
  OBVIOUS
<1>5. UnionOf(A, Query) = Tokens(s)
  <2>1. \A q \in Query : s[q] \in Nat /\ A[q] = {q} \X (1 .. s[q])
    OBVIOUS
  <2>2. ASSUME NEW t \in UnionOf(A, Query) PROVE t \in Tokens(s)
    <3>1. PICK q \in Query : t \in A[q]
      BY DEF UnionOf
    <3>2. t = <<q, t[2]>> /\ t[2] \in 1 .. s[q] /\ s[q] \in Nat
      BY <2>1, <3>1
    <3>3. t[1] = q /\ t[2] \in Nat /\ 0 < t[2] /\ t[2] <= s[q] /\ t \in Query \X Nat
      BY <3>2
    <3> QED
      BY <3>3 DEF Tokens
  <2>3. ASSUME NEW t \in Tokens(s) PROVE t \in UnionOf(A, Query)
    <3>1. /\ t[1] \in Query /\ t[2] \in Nat /\ t = <<t[1], t[2]>>
          /\ 0 < t[2] /\ t[2] <= s[t[1]]
      BY DEF Tokens
    <3>2. t[2] \in 1 .. s[t[1]]
      BY <2>1, <3>1
    <3>3. t \in A[t[1]]
      BY <2>1, <3>1, <3>2
    <3> HIDE DEF A
    <3> QED
      BY <3>1, <3>3 DEF UnionOf
  <2> QED
    BY <2>2, <2>3
<1> HIDE DEF A
<1>6. PICK g : SumsUp(g, Query, s)
  BY QueriesFinite, SumsExist
<1>7. Eq(g)
  BY <1>2, <1>6 DEF SumsUp
<1>8. Eq(F)
  <2> HIDE DEF Eq
  <2> QED
    BY <1>7
<1> HIDE DEF F
<1>9. SumsUp(F, Query, s)
  BY <1>2, <1>8 DEF SumsUp
<1>10. IsFiniteSet(UnionOf(A, Query)) /\ F[Query] = Cardinality(UnionOf(A, Query))
  BY <1>3, <1>4, <1>9, QueriesFinite, SumCounts
<1> QED
  BY <1>1, <1>2, <1>5, <1>10

(* A search more and a search less.                                        *)
LEMMA SumMore ==
    ASSUME NEW s \in [Query -> Nat], NEW q \in Query
    PROVE  SumFunction([s EXCEPT ![q] = @ + 1]) = SumFunction(s) + 1 /\ SumFunction(s) \in Nat
<1> DEFINE r == [s EXCEPT ![q] = @ + 1]
           new == <<q, s[q] + 1>>
<1>1. r \in [Query -> Nat] /\ s[q] \in Nat /\ \A x \in Query : r[x] = IF x = q THEN s[q] + 1 ELSE s[x]
  OBVIOUS
<1> HIDE DEF r
<1>2. new \notin Tokens(s)
  BY <1>1 DEF Tokens
<1>3. Tokens(r) = Tokens(s) \cup {new}
  <2>1. ASSUME NEW t \in Query \X Nat
        PROVE  0 < t[2] /\ t[2] <= r[t[1]] <=> (0 < t[2] /\ t[2] <= s[t[1]]) \/ t = new
    <3>1. t = <<t[1], t[2]>> /\ t[1] \in Query /\ t[2] \in Nat /\ s[t[1]] \in Nat
      OBVIOUS
    <3>2. CASE t[1] = q
      BY <1>1, <3>1, <3>2
    <3>3. CASE t[1] # q
      BY <1>1, <3>1, <3>3
    <3> QED
      BY <3>2, <3>3
  <2>2. new \in Query \X Nat
    BY <1>1
  <2> HIDE DEF new
  <2> QED
    BY <2>1, <2>2 DEF Tokens
<1>4. IsFiniteSet(Tokens(s)) /\ SumFunction(s) = Cardinality(Tokens(s))
  BY SumIsTokens
<1>5. SumFunction(r) = Cardinality(Tokens(r))
  BY <1>1, SumIsTokens
<1>6. Cardinality(Tokens(s)) \in Nat
  BY <1>4, FS_CardinalityType
<1> HIDE DEF new
<1>7. Cardinality(Tokens(s) \cup {new}) = Cardinality(Tokens(s)) + 1
  BY <1>2, <1>4, FS_AddElement
<1> QED
  BY <1>3, <1>4, <1>5, <1>6, <1>7 DEF r

LEMMA SumLess ==
    ASSUME NEW s \in [Query -> Nat], NEW q \in Query, s[q] > 0
    PROVE  SumFunction([s EXCEPT ![q] = @ - 1]) = SumFunction(s) - 1
<1> DEFINE r == [s EXCEPT ![q] = @ - 1]
<1>1. r \in [Query -> Nat] /\ s = [r EXCEPT ![q] = @ + 1]
  <2>1. \A x \in Query : s[x] \in Nat /\ r[x] = IF x = q THEN s[q] - 1 ELSE s[x]
    OBVIOUS
  <2>2. DOMAIN r = Query /\ r = [x \in Query |-> r[x]] /\ s = [x \in Query |-> s[x]]
    OBVIOUS
  <2> HIDE DEF r
  <2>3. s[q] - 1 \in Nat /\ (s[q] - 1) + 1 = s[q]
    BY <2>1
  <2>4. r \in [Query -> Nat]
    BY <2>1, <2>2, <2>3
  <2>5. [r EXCEPT ![q] = @ + 1] = [x \in Query |-> s[x]]
    BY <2>1, <2>2, <2>3
  <2> QED
    BY <2>2, <2>4, <2>5
<1> HIDE DEF r
<1>2. SumFunction(s) = SumFunction(r) + 1 /\ SumFunction(r) \in Nat
  BY <1>1, SumMore
<1> QED
  BY <1>2 DEF r

(* Each is one of them.                                                    *)
LEMMA OneOfSum ==
    ASSUME NEW s \in [Query -> Nat], NEW q \in Query
    PROVE  s[q] <= SumFunction(s) /\ SumFunction(s) \in Nat
<1> DEFINE n == s[q]
           P == {q} \X (1 .. n)
<1>1. n \in Nat
  OBVIOUS
<1>2. P \subseteq Tokens(s)
  BY DEF Tokens
<1>3. IsFiniteSet(Tokens(s)) /\ SumFunction(s) = Cardinality(Tokens(s))
  BY SumIsTokens
<1>4. Cardinality(P) = n
  <2> DEFINE J == {q}
             K == 1 .. n
  <2>1. IsFiniteSet(J) /\ Cardinality(J) = 1
    BY FS_Singleton
  <2>2. IsFiniteSet(K) /\ Cardinality(K) = n
    <3>1. IsFiniteSet(K) /\ Cardinality(K) = IF 1 > n THEN 0 ELSE n - 1 + 1
      BY <1>1, FS_Interval
    <3> HIDE DEF n
    <3> QED
      BY <1>1, <3>1
  <2>3. P = J \X K
    OBVIOUS
  <2> HIDE DEF n, J, K, P
  <2>4. Cardinality(J \X K) = 1 * n
    BY <2>1, <2>2, FS_Product
  <2> QED
    BY <1>1, <2>3, <2>4
<1>5. Cardinality(Tokens(s)) \in Nat
  BY <1>3, FS_CardinalityType
<1> HIDE DEF P, n
<1>6. Cardinality(P) <= Cardinality(Tokens(s))
  BY <1>2, <1>3, FS_Subset
<1> QED
  BY <1>3, <1>4, <1>5, <1>6 DEF n

(* The type invariant with what makes it inductive: the searches for a     *)
(* torrent, queued and sent, are within the bound together, and there is a *)
(* movie when they, or the page, use it.                                   *)
TypeInv ==
    /\ TypeOK
    /\ queued + SumFunction(sent) <= MaxFinds
    /\ movie \notin Movie => page = "list" /\ queued = 0 /\ \A q \in Query : sent[q] = 0

LEMMA SentTyped ==
    ASSUME NEW s \in [Query -> Nat], NEW n \in Nat, n + SumFunction(s) <= MaxFinds
    PROVE  n \in 0 .. MaxFinds /\ s \in [Query -> 0 .. MaxFinds]
<1>1. ASSUME NEW q \in Query PROVE s[q] \in 0 .. MaxFinds
  BY OneOfSum, BrowserAssumption
<1>2. n \in 0 .. MaxFinds
  <2>1. SumFunction(s) \in Nat
    BY SumIsTokens, FS_CardinalityType
  <2> QED
    BY <2>1, BrowserAssumption
<1> QED
  BY <1>1, <1>2

LEMMA InitTypeInv == Init => TypeInv
<1> SUFFICES ASSUME Init PROVE TypeInv
  OBVIOUS
<1> DEFINE s == [q \in Query |-> 0]
<1>1. s \in [Query -> Nat] /\ \A q \in Query : s[q] = 0
  OBVIOUS
<1>2. sent = s /\ queued = 0 /\ movie = None /\ page = "list"
  BY DEF Init
<1> HIDE DEF s
<1>3. SumFunction(s) = 0
  <2>1. Tokens(s) = {}
    BY <1>1 DEF Tokens
  <2>2. SumFunction(s) = Cardinality(Tokens(s))
    BY <1>1, SumIsTokens
  <2> QED
    BY <2>1, <2>2, FS_EmptySet
<1>4. MaxFinds \in Nat /\ MaxSearches \in Nat
  BY BrowserAssumption
<1>5. sent \in [Query -> 0 .. MaxFinds] /\ queued \in 0 .. MaxFinds
  BY <1>1, <1>2, <1>3, <1>4, SentTyped
<1>6. /\ section \in Section \cup {None} /\ field \in Keywords /\ content \in Section \cup Keywords
      /\ searches \in [Keywords -> 0 .. MaxSearches] /\ best \in [Movie -> Query \cup {None}]
      /\ pref \in Pref
  <2>1. section \in Section \cup {None} /\ field \in Keywords /\ content \in Section \cup Keywords
    BY BrowserAssumption DEF Init
  <2>2. searches \in [Keywords -> 0 .. MaxSearches]
    <3>1. 0 \in 0 .. MaxSearches
      BY <1>4
    <3> QED
      BY <3>1 DEF Init
  <2>3. best \in [Movie -> Query \cup {None}] /\ pref \in Pref
    BY DEF Init
  <2> QED
    BY <2>1, <2>2, <2>3
<1>7. TypeOK
  BY <1>5, <1>6 DEF Init, TypeOK
<1> QED
  BY <1>1, <1>2, <1>3, <1>4, <1>7 DEF TypeInv

(* The parts of the type invariant for the list and for the page.          *)
ListTypes ==
    /\ page \in {"list", "details"} /\ section \in Section \cup {None}
    /\ field \in Keywords /\ typed \in BOOLEAN /\ loading \in BOOLEAN
    /\ searches \in [Keywords -> 0 .. MaxSearches]
ShownTypes ==
    /\ content \in Section \cup Keywords /\ freed \in BOOLEAN
    /\ best \in [Movie -> Query \cup {None}]
PageTypes ==
    /\ movie \in Movie \cup {None} /\ offer \in Query \cup {None}
    /\ button \in {"", "SEARCHING_TORRENT", "DOWNLOAD", "NO_DOWNLOAD_FOUND"}
    /\ pref \in Pref /\ calm \in BOOLEAN /\ chosen \in BOOLEAN
FindTypes ==
    /\ queued \in Nat /\ sent \in [Query -> Nat]
    /\ queued + SumFunction(sent) <= MaxFinds

LEMMA TypeParts ==
    TypeInv <=> /\ ListTypes /\ ShownTypes /\ PageTypes /\ FindTypes /\ app \in {"up", "crashed"}
                /\ movie \notin Movie => page = "list" /\ queued = 0 /\ \A q \in Query : sent[q] = 0
<1>1. ASSUME FindTypes PROVE queued \in 0 .. MaxFinds /\ sent \in [Query -> 0 .. MaxFinds]
  BY <1>1, SentTyped DEF FindTypes
<1>2. ASSUME TypeOK PROVE queued \in Nat /\ sent \in [Query -> Nat]
  <2>1. queued \in 0 .. MaxFinds /\ sent \in [Query -> 0 .. MaxFinds]
    BY <1>2 DEF TypeOK
  <2>2. 0 .. MaxFinds \subseteq Nat
    BY BrowserAssumption
  <2> QED
    BY <2>1, <2>2
<1> QED
  BY <1>1, <1>2 DEF TypeInv, TypeOK, ListTypes, ShownTypes, PageTypes, FindTypes

LEMMA SearchesCounted ==
    ASSUME ListTypes, NEW k \in Keywords
    PROVE  /\ [searches EXCEPT ![k] = @ + 1] \in [Keywords -> Nat]
           /\ [searches EXCEPT ![k] = @ + 1][k] <= MaxSearches =>
                 [searches EXCEPT ![k] = @ + 1] \in [Keywords -> 0 .. MaxSearches]
           /\ searches[k] > 0 => [searches EXCEPT ![k] = @ - 1] \in [Keywords -> 0 .. MaxSearches]
<1> DEFINE s == searches
           n == s[k]
<1>1. s \in [Keywords -> 0 .. MaxSearches] /\ n \in Nat /\ n <= MaxSearches /\ MaxSearches \in Nat
  BY BrowserAssumption DEF ListTypes
<1> HIDE DEF s
<1>2. \A x \in Keywords : s[x] \in 0 .. MaxSearches /\ s[x] \in Nat
  BY <1>1
<1> HIDE DEF n
<1>3. [s EXCEPT ![k] = n + 1] \in [Keywords -> Nat]
  BY <1>1, <1>2
<1>4. n + 1 <= MaxSearches => [s EXCEPT ![k] = n + 1] \in [Keywords -> 0 .. MaxSearches]
  <2>1. n + 1 <= MaxSearches => n + 1 \in 0 .. MaxSearches
    BY <1>1
  <2> QED
    BY <1>1, <2>1
<1>5. n > 0 => [s EXCEPT ![k] = n - 1] \in [Keywords -> 0 .. MaxSearches]
  <2>1. n > 0 => n - 1 \in 0 .. MaxSearches
    BY <1>1
  <2> QED
    BY <1>1, <2>1
<1>6. [s EXCEPT ![k] = n + 1][k] = n + 1
  BY <1>1
<1> QED
  BY <1>3, <1>4, <1>5, <1>6 DEF s, n

(* What setContent shows and releases.                                     *)
LEMMA ContentTyped ==
    ASSUME ShownTypes, NEW c \in Section \cup Keywords, SetContent(c)
    PROVE  ShownTypes'
<1>1. content' = c /\ freed' \in BOOLEAN
  BY DEF SetContent
<1>2. best' = [m \in Movie |-> IF m.found THEN None ELSE best[m]]
  BY DEF SetContent
<1>3. best' \in [Movie -> Query \cup {None}]
  BY <1>2 DEF ShownTypes
<1> QED
  BY <1>1, <1>3 DEF ShownTypes

LEMMA FindKept ==
    ASSUME FindTypes, queued' = queued, sent' = sent PROVE FindTypes'
<1>1. SumFunction(sent') = SumFunction(sent)
  OBVIOUS
<1> QED
  BY <1>1 DEF FindTypes

(* The end of the process changes nothing else.                            *)
LEMMA CrashTyped ==
    ASSUME TypeInv, UNCHANGED <<listVars, pageVars>>, app' \in {"up", "crashed"}
    PROVE  TypeInv'
<1>1. /\ page' = page /\ section' = section /\ field' = field /\ typed' = typed
      /\ content' = content /\ loading' = loading /\ searches' = searches
      /\ movie' = movie /\ freed' = freed /\ offer' = offer /\ best' = best
      /\ button' = button /\ pref' = pref /\ queued' = queued /\ sent' = sent
      /\ calm' = calm /\ chosen' = chosen
  BY DEF listVars, pageVars
<1>2. TypeOK'
  <2>1. TypeOK
    BY DEF TypeInv
  <2>2. /\ page' \in {"list", "details"} /\ section' \in Section \cup {None}
        /\ field' \in Keywords /\ typed' \in BOOLEAN /\ content' \in Section \cup Keywords
        /\ loading' \in BOOLEAN /\ searches' \in [Keywords -> 0 .. MaxSearches]
    BY <1>1, <2>1 DEF TypeOK
  <2>3. /\ movie' \in Movie \cup {None} /\ freed' \in BOOLEAN
        /\ offer' \in Query \cup {None} /\ best' \in [Movie -> Query \cup {None}]
        /\ button' \in {"", "SEARCHING_TORRENT", "DOWNLOAD", "NO_DOWNLOAD_FOUND"}
        /\ pref' \in Pref
    BY <1>1, <2>1 DEF TypeOK
  <2>4. /\ queued' \in 0 .. MaxFinds /\ sent' \in [Query -> 0 .. MaxFinds]
        /\ calm' \in BOOLEAN /\ chosen' \in BOOLEAN
    BY <1>1, <2>1 DEF TypeOK
  <2> QED
    BY <2>2, <2>3, <2>4 DEF TypeOK
<1>3. SumFunction(sent') = SumFunction(sent)
  BY <1>1
<1> QED
  BY <1>1, <1>2, <1>3 DEF TypeInv

(* _findDownloadForCurrentLanguage keeps within the bound.                 *)
LEMMA FindMore ==
    ASSUME FindTypes, FindDownload
    PROVE  FindTypes' /\ button' = "SEARCHING_TORRENT" /\ queued' = queued + 1 /\ sent' = sent
<1>1. queued' = queued + 1 /\ sent' = sent /\ button' = "SEARCHING_TORRENT"
      /\ queued + SumFunction(sent) < MaxFinds
  BY DEF FindDownload
<1>2. SumFunction(sent) \in Nat /\ queued \in Nat /\ MaxFinds \in Nat
  BY SumIsTokens, FS_CardinalityType, BrowserAssumption DEF FindTypes
<1> DEFINE n == SumFunction(sent)
<1> HIDE DEF n
<1>3. queued + 1 \in Nat /\ (queued + 1) + n <= MaxFinds
  BY <1>1, <1>2 DEF n
<1> QED
  BY <1>1, <1>3 DEF FindTypes, n

LEMMA NextTypeInv == TypeInv /\ [Next]_vars => TypeInv'
<1> SUFFICES ASSUME TypeInv, [Next]_vars PROVE TypeInv'
  OBVIOUS
<1>1. /\ ListTypes /\ ShownTypes /\ PageTypes /\ FindTypes /\ app \in {"up", "crashed"}
      /\ movie \notin Movie => page = "list" /\ queued = 0 /\ \A q \in Query : sent[q] = 0
  BY TypeParts
<1>2. ASSUME ListTypes', ShownTypes', PageTypes', FindTypes', app' \in {"up", "crashed"},
             movie' \notin Movie => page' = "list" /\ queued' = 0 /\ \A q \in Query : sent'[q] = 0
      PROVE  TypeInv'
  <2>1. queued' \in 0 .. MaxFinds /\ sent' \in [Query -> 0 .. MaxFinds]
    BY <1>2, SentTyped DEF FindTypes
  <2> QED
    BY <1>2, <2>1 DEF TypeInv, TypeOK, ListTypes, ShownTypes, PageTypes, FindTypes
<1>3. ASSUME NEW s \in Section, ShowSection(s) PROVE TypeInv'
  <2>1. ListTypes'
    BY <1>1, <1>3, BrowserAssumption DEF ShowSection, ListTypes
  <2>2. ShownTypes'
    BY <1>1, <1>3, ContentTyped DEF ShowSection
  <2>3. PageTypes' /\ FindTypes'
    BY <1>1, <1>3 DEF ShowSection, PageTypes, FindTypes
  <2> QED
    BY <1>1, <1>2, <1>3, <2>1, <2>2, <2>3 DEF ShowSection
<1>4. ASSUME NEW k \in Keywords, Type(k) PROVE TypeInv'
  <2>1. ListTypes'
    BY <1>1, <1>4 DEF Type, ListTypes
  <2>2. ShownTypes' /\ PageTypes'
    BY <1>1, <1>4 DEF Type, pageVars, ShownTypes, PageTypes
  <2>3. FindTypes'
    BY <1>1, <1>4, FindKept DEF Type, pageVars
  <2> QED
    BY <1>1, <1>2, <1>4, <2>1, <2>2, <2>3 DEF Type, pageVars
<1>5. ASSUME Search PROVE TypeInv'
  <2>1. searches' \in [Keywords -> 0 .. MaxSearches]
    <3>1. field \in Keywords
      BY <1>1 DEF ListTypes
    <3>2. searches' = [searches EXCEPT ![field] = @ + 1] /\ searches'[field] <= MaxSearches
      BY <1>5 DEF Search
    <3> QED
      BY <1>1, <3>1, <3>2, SearchesCounted
  <2>2. ListTypes'
    BY <1>1, <1>5, <2>1 DEF Search, ListTypes
  <2>3. ShownTypes' /\ PageTypes' /\ FindTypes'
    BY <1>1, <1>5 DEF Search, pageVars, ShownTypes, PageTypes, FindTypes
  <2> QED
    BY <1>1, <1>2, <1>5, <2>2, <2>3 DEF Search, pageVars
<1>6. ASSUME Back PROVE TypeInv'
  <2>1. CASE section # None /\ ShowSection(section)
    BY <1>1, <1>3, <2>1 DEF ListTypes
  <2>2. CASE page' = "list" /\ UNCHANGED <<section, field, typed, content, loading, searches,
                                           pageVars, app>>
    <3>1. ListTypes'
      BY <1>1, <2>2 DEF ListTypes
    <3>2. ShownTypes' /\ PageTypes'
      BY <1>1, <2>2 DEF pageVars, ShownTypes, PageTypes
    <3>3. FindTypes'
      BY <1>1, <2>2, FindKept DEF pageVars
    <3> QED
      BY <1>1, <1>2, <2>2, <3>1, <3>2, <3>3 DEF pageVars
  <2> QED
    BY <1>6, <2>1, <2>2 DEF Back
<1>7. ASSUME NEW k \in Keywords, AnswerSearch(k) PROVE TypeInv'
  <2>1. searches' \in [Keywords -> 0 .. MaxSearches]
    BY <1>1, <1>7, SearchesCounted DEF AnswerSearch
  <2>2. ListTypes'
    BY <1>1, <1>7, <2>1 DEF AnswerSearch, ListTypes
  <2>3. ShownTypes'
    <3>1. CASE k = field
      BY <1>1, <1>7, <3>1, ContentTyped DEF AnswerSearch
    <3>2. CASE k # field
      BY <1>1, <1>7, <3>2 DEF AnswerSearch, ShownTypes
    <3> QED
      BY <3>1, <3>2
  <2>4. PageTypes' /\ FindTypes'
    BY <1>1, <1>7 DEF AnswerSearch, PageTypes, FindTypes
  <2> QED
    BY <1>1, <1>2, <1>7, <2>2, <2>3, <2>4 DEF AnswerSearch
<1>8. ASSUME NEW m \in Movie, ShowMovieDetails(m) PROVE TypeInv'
  <2>1. FindTypes' /\ button' = "SEARCHING_TORRENT"
    BY <1>1, <1>8, FindMore DEF ShowMovieDetails
  <2>2. ListTypes'
    BY <1>1, <1>8 DEF ShowMovieDetails, ListTypes
  <2>3. ShownTypes'
    BY <1>1, <1>8 DEF ShowMovieDetails, ShownTypes
  <2>4. PageTypes'
    BY <1>1, <1>8, <2>1 DEF ShowMovieDetails, PageTypes, ShownTypes
  <2> QED
    BY <1>1, <1>2, <1>8, <2>1, <2>2, <2>3, <2>4 DEF ShowMovieDetails
<1>9. ASSUME freed, app' = "crashed", UNCHANGED <<listVars, pageVars>> PROVE TypeInv'
  BY <1>9, CrashTyped
<1>10. ASSUME NEW t \in Query \cup {None}, SetBestTorrent(t)
       PROVE  offer' \in Query \cup {None} /\ best' \in [Movie -> Query \cup {None}]
  BY <1>1, <1>10 DEF SetBestTorrent, ShownTypes
<1>11. ASSUME NEW p \in Pref, SelectPref(p) PROVE TypeInv'
  <2>1. CASE freed /\ app' = "crashed" /\ UNCHANGED <<listVars, pageVars>>
    BY <1>9, <2>1
  <2>2. CASE /\ pref' = p /\ SetBestTorrent(None) /\ FindDownload /\ chosen' = NoFinds
             /\ UNCHANGED <<listVars, movie, freed, calm>> /\ UNCHANGED app
    <3>1. FindTypes' /\ button' = "SEARCHING_TORRENT"
      BY <1>1, <2>2, FindMore
    <3>2. offer' \in Query \cup {None} /\ best' \in [Movie -> Query \cup {None}]
      BY <1>10, <2>2
    <3>3. chosen' \in BOOLEAN
      BY <2>2 DEF NoFinds
    <3>4. ListTypes' /\ ShownTypes' /\ PageTypes'
      BY <1>1, <2>2, <3>1, <3>2, <3>3 DEF listVars, ListTypes, ShownTypes, PageTypes
    <3>5. movie \in Movie /\ movie' = movie
      BY <1>1, <1>11, <2>2 DEF SelectPref
    <3> QED
      BY <1>1, <1>2, <2>2, <3>1, <3>4, <3>5
  <2> QED
    BY <1>11, <2>1, <2>2 DEF SelectPref, Uses
<1>12. ASSUME FindTorrent PROVE TypeInv'
  <2>1. CASE freed /\ app' = "crashed" /\ UNCHANGED <<listVars, pageVars>>
    BY <1>9, <2>1
  <2>2. CASE /\ queued' = queued - 1 /\ sent' = [sent EXCEPT ![Current] = @ + 1]
             /\ UNCHANGED <<listVars, movie, freed, offer, best, button, pref, calm, chosen>>
             /\ UNCHANGED app
    <3>1. queued > 0 /\ movie \in Movie
      BY <1>1, <1>12 DEF FindTorrent, FindTypes
    <3>2. Current \in Query
      BY <1>1, <3>1 DEF Current, Movie, Query, PageTypes
    <3>3. FindTypes'
      <4> DEFINE n == SumFunction(sent)
      <4>1. SumFunction(sent') = n + 1 /\ n \in Nat /\ sent' \in [Query -> Nat]
        <5>1. sent \in [Query -> Nat]
          BY <1>1 DEF FindTypes
        <5>2. [sent EXCEPT ![Current] = @ + 1] \in [Query -> Nat]
          BY <3>2, <5>1
        <5> QED
          BY <2>2, <3>2, <5>1, <5>2, SumMore
      <4> HIDE DEF n
      <4>2. queued \in Nat /\ queued + n <= MaxFinds
        BY <1>1 DEF FindTypes, n
      <4>3. queued - 1 \in Nat /\ (queued - 1) + (n + 1) <= MaxFinds
        BY <3>1, <4>1, <4>2, BrowserAssumption
      <4> QED
        BY <2>2, <4>1, <4>3 DEF FindTypes
    <3>4. ListTypes'
      BY <1>1, <2>2 DEF listVars, ListTypes
    <3>5. ShownTypes' /\ PageTypes'
      BY <1>1, <2>2 DEF listVars, ShownTypes, PageTypes
    <3> QED
      BY <1>1, <1>2, <2>2, <3>1, <3>3, <3>4, <3>5
  <2> QED
    BY <1>12, <2>1, <2>2 DEF FindTorrent, Uses, Current
<1>13. ASSUME NEW q \in Query, FoundTorrent(q) PROVE TypeInv'
  <2>1. CASE freed /\ app' = "crashed" /\ UNCHANGED <<listVars, pageVars>>
    BY <1>9, <2>1
  <2>2. CASE /\ \E t \in {q, None, offer} : SetBestTorrent(t)
             /\ button' = IF offer' # None THEN "DOWNLOAD" ELSE "NO_DOWNLOAD_FOUND"
             /\ sent' = [sent EXCEPT ![q] = @ - 1]
             /\ UNCHANGED <<listVars, movie, freed, queued, pref, calm, chosen>>
             /\ UNCHANGED app
    <3>1. sent[q] > 0 /\ movie \in Movie
      BY <1>1, <1>13 DEF FoundTorrent, FindTypes
    <3>2. offer' \in Query \cup {None} /\ best' \in [Movie -> Query \cup {None}]
      BY <1>1, <1>10, <2>2 DEF PageTypes
    <3>3. FindTypes'
      <4> DEFINE n == SumFunction(sent)
      <4>1. sent \in [Query -> Nat]
        BY <1>1 DEF FindTypes
      <4>2. sent' \in [Query -> Nat]
        BY <2>2, <3>1, <4>1
      <4>3. SumFunction(sent') = n - 1 /\ n \in Nat
        BY <2>2, <3>1, <4>1, SumLess, OneOfSum
      <4> HIDE DEF n
      <4>4. queued \in Nat /\ queued + n <= MaxFinds
        BY <1>1 DEF FindTypes, n
      <4>5. queued + (n - 1) <= MaxFinds
        BY <4>3, <4>4, BrowserAssumption
      <4> QED
        BY <2>2, <4>2, <4>3, <4>4, <4>5 DEF FindTypes
    <3>4. ListTypes' /\ ShownTypes' /\ PageTypes'
      BY <1>1, <2>2, <3>2 DEF listVars, ListTypes, ShownTypes, PageTypes
    <3> QED
      BY <1>1, <1>2, <2>2, <3>1, <3>3, <3>4
  <2> QED
    BY <1>13, <2>1, <2>2 DEF FoundTorrent, Uses
<1>14. CASE UNCHANGED vars
  BY <1>1, <1>14, CrashTyped DEF vars
<1> QED
  BY <1>3, <1>4, <1>5, <1>6, <1>7, <1>8, <1>11, <1>12, <1>13, <1>14 DEF Next, User, Answers

(* Every variable keeps its type, which is more than that for the searches *)
(* under way: each counted one is answered once, and none is sent without  *)
(* a movie.                                                                *)
THEOREM BrowserTypeOK == Spec => []TypeOK
<1>1. TypeInv => TypeOK
  BY DEF TypeInv
<1> QED
  BY <1>1, InitTypeInv, NextTypeInv, PTL DEF Spec
=============================================================================
