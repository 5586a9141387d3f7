------------------------- MODULE DownloadListProofs -------------------------
(***************************************************************************)
(* Proofs about DownloadList: what the user has paused stays paused, and   *)
(* the list follows the folder and lists nothing twice, for any set of     *)
(* files, whatever the watcher reports late and however often the app is   *)
(* launched.                                                               *)
(***************************************************************************)
EXTENDS DownloadList, FoldLemmas

(* The engine's and the user defaults' part of the types.                  *)
EngineTyped == eng \in [File -> EngineRec]
PrefTyped == pref \in [File -> BOOLEAN \cup {None}]

(* The session ends with the process.                                      *)
SessionGone == ~Up => \A f \in File : ~Live(f)

IInv == EngineTyped /\ PrefTyped /\ SessionGone /\ PausedStaysPaused
-----------------------------------------------------------------------------
LEMMA NoTorrentTyped == NoTorrent \in EngineRec /\ ~NoTorrent.started
BY DEF NoTorrent, EngineRec

LEMMA MadeTyped ==
    ASSUME NEW r \in EngineRec, ~r.started, NEW m \in {"live", "freed"}, NEW d \in BOOLEAN
    PROVE  /\ [r EXCEPT !.mem = m] \in EngineRec /\ ~[r EXCEPT !.mem = m].started
           /\ [r EXCEPT !.mem = m, !.done = d] \in EngineRec
           /\ ~[r EXCEPT !.mem = m, !.done = d].started
BY DEF EngineRec

LEMMA StartedTyped == ASSUME NEW r \in EngineRec PROVE Started(r) \in EngineRec
BY DEF Started, EngineRec

LEMMA StoppedTyped ==
    ASSUME NEW r \in EngineRec
    PROVE  Stopped(r) \in EngineRec /\ ~Stopped(r).started /\ Stopped(r).mem = r.mem
BY DEF Stopped, EngineRec

LEMMA InitIInv == Init => IInv
BY NoTorrentTyped
   DEF Init, IInv, EngineTyped, PrefTyped, SessionGone, PausedStaysPaused, Live, NoTorrent

(* Nothing is left of the session, whatever ends the process.              *)
LEMMA GoneIInv == ASSUME IInv, NEW how, Gone(how), UNCHANGED pref PROVE IInv'
BY NoTorrentTyped
   DEF Gone, IInv, EngineTyped, PrefTyped, SessionGone, PausedStaysPaused, Live, NoTorrent

(* What neither the engine nor the defaults show.                          *)
LEMMA OthersIInv == ASSUME IInv, UNCHANGED <<app, eng, pref>> PROVE IInv'
BY DEF IInv, EngineTyped, PrefTyped, SessionGone, PausedStaysPaused, Live, Up

(* A torrent that is added starts only if its default allows it, and those *)
(* that are not added are as before.                                       *)
LEMMA AddTorrentsPaused ==
    ASSUME EngineTyped, NEW S, NEW kept, NEW P, AddTorrents(eng, S, kept, P)
    PROVE  /\ EngineTyped'
           /\ \A f \in File : \/ eng'[f] = eng[f]
                              \/ P[f] = FALSE => ~eng'[f].started
<1>1. PICK done \in SUBSET Addable(eng, S), refused \in SUBSET Addable(eng, S) :
          eng' = [f \in File |->
                    IF f \notin Addable(eng, S) THEN eng[f]
                    ELSE IF MayStart(P[f]) /\ f \notin refused
                         THEN Started([NoTorrent EXCEPT !.mem = "live", !.done = f \in done])
                         ELSE [NoTorrent EXCEPT !.mem = "live", !.done = f \in done]]
  BY DEF AddTorrents
<1>2. ASSUME NEW f \in File
      PROVE  /\ eng'[f] \in EngineRec
             /\ eng'[f] = eng[f] \/ (P[f] = FALSE => ~eng'[f].started)
  <2> DEFINE is == f \in done
             new == [NoTorrent EXCEPT !.mem = "live", !.done = is]
  <2>1. new \in EngineRec /\ ~new.started
    <3>1. is \in BOOLEAN
      OBVIOUS
    <3> HIDE DEF is
    <3> QED
      BY <3>1, NoTorrentTyped, MadeTyped
  <2>2. Started(new) \in EngineRec
    BY <2>1, StartedTyped
  <2> HIDE DEF new
  <2>3. eng'[f] = IF f \notin Addable(eng, S) THEN eng[f]
                  ELSE IF MayStart(P[f]) /\ f \notin refused THEN Started(new) ELSE new
    BY <1>1 DEF new
  <2> QED
    BY <2>1, <2>2, <2>3 DEF EngineTyped, MayStart
<1> QED
  BY <1>1, <1>2 DEF EngineTyped
-----------------------------------------------------------------------------
LEMMA LaunchIInv == ASSUME IInv, NEW reset \in BOOLEAN, Launch(reset) PROVE IInv'
<1>1. ~Up /\ Up' /\ AddTorrents(eng, folder', <<>>, pref')
  BY DEF Launch, Up
<1>2. /\ EngineTyped'
      /\ \A f \in File : eng'[f] = eng[f] \/ (pref'[f] = FALSE => ~eng'[f].started)
  BY <1>1, AddTorrentsPaused DEF IInv
<1>3. PrefTyped'
  BY DEF Launch, IInv, PrefTyped
<1> QED
  BY <1>1, <1>2, <1>3 DEF IInv, SessionGone, PausedStaysPaused, Live

LEMMA FolderEventIInv == ASSUME IInv, FolderEvent PROVE IInv'
<1>1. Up' /\ UNCHANGED pref /\ AddTorrents(eng, NewFiles, KeptRows, pref)
  BY DEF FolderEvent, Up
<1>2. /\ EngineTyped'
      /\ \A f \in File : eng'[f] = eng[f] \/ (pref[f] = FALSE => ~eng'[f].started)
  BY <1>1, AddTorrentsPaused DEF IInv
<1>3. PrefTyped'
  BY <1>1 DEF IInv, PrefTyped
<1> QED
  BY <1>1, <1>2, <1>3 DEF IInv, SessionGone, PausedStaysPaused, Live

(* A pause stops the torrent in the same step that sets its default, and a *)
(* start clears the default.                                               *)
LEMMA TogglePauseResumeIInv == ASSUME IInv, NEW f \in File, TogglePauseResume(f) PROVE IInv'
<1>1. CASE Faults
  BY <1>1, GoneIInv DEF Faults
<1>2. CASE ~Faults
  <2>1. Up /\ Up'
    BY <1>2 DEF TogglePauseResume, Up
  <2>2. CASE pref' = [pref EXCEPT ![f] = FALSE] /\ eng' = [eng EXCEPT ![f] = Stopped(@)]
    <3>1. eng[f] \in EngineRec
      BY DEF IInv, EngineTyped
    <3>2. EngineTyped' /\ PrefTyped'
      BY <2>2, <3>1, StoppedTyped DEF IInv, EngineTyped, PrefTyped
    <3>3. ASSUME NEW g \in File PROVE Live(g)' /\ pref'[g] = FALSE => ~eng'[g].started
      BY <2>2, <3>1, StoppedTyped DEF IInv, EngineTyped, PausedStaysPaused, Live
    <3> QED
      BY <2>1, <3>2, <3>3 DEF IInv, SessionGone, PausedStaysPaused
  <2>3. CASE pref' = [pref EXCEPT ![f] = TRUE] /\ eng' \in {eng, [eng EXCEPT ![f] = Started(@)]}
    <3>1. eng[f] \in EngineRec
      BY DEF IInv, EngineTyped
    <3>2. EngineTyped' /\ PrefTyped'
      BY <2>3, <3>1, StartedTyped DEF IInv, EngineTyped, PrefTyped
    <3>3. ASSUME NEW g \in File PROVE Live(g)' /\ pref'[g] = FALSE => ~eng'[g].started
      <4>1. CASE g = f
        BY <2>3, <4>1 DEF IInv, PrefTyped
      <4>2. CASE g # f
        BY <2>3, <4>2 DEF IInv, EngineTyped, PausedStaysPaused, Live
      <4> QED
        BY <4>1, <4>2
    <3> QED
      BY <2>1, <3>2, <3>3 DEF IInv, SessionGone, PausedStaysPaused
  <2> QED
    BY <1>2, <2>2, <2>3 DEF TogglePauseResume
<1> QED
  BY <1>1, <1>2

(* Closing does not start a torrent, and only live ones may be started.    *)
LEMMA RemoveSelectedIInv == ASSUME IInv, NEW f \in File, RemoveSelected(f) PROVE IInv'
<1>1. CASE AssertFails
  BY <1>1, GoneIInv DEF AssertFails
<1>2. CASE ~AssertFails
  <2>1. Up /\ Up' /\ UNCHANGED pref
        /\ \/ UNCHANGED eng
           \/ eng' = [eng EXCEPT ![f].closing = IF @ < 2 THEN @ + 1 ELSE @]
    BY <1>2 DEF RemoveSelected, Up
  <2>2. eng[f] \in EngineRec
    BY DEF IInv, EngineTyped
  <2>3. EngineTyped' /\ PrefTyped'
    BY <2>1, <2>2 DEF IInv, EngineTyped, PrefTyped, EngineRec
  <2>4. ASSUME NEW g \in File PROVE Live(g)' /\ pref'[g] = FALSE => ~eng'[g].started
    BY <2>1, <2>2 DEF IInv, EngineTyped, PausedStaysPaused, Live, EngineRec
  <2> QED
    BY <2>1, <2>3, <2>4 DEF IInv, SessionGone, PausedStaysPaused
<1> QED
  BY <1>1, <1>2

LEMMA ClearFinishedIInv == ASSUME IInv, ClearFinished PROVE IInv'
<1>1. CASE Faults
  BY <1>1, GoneIInv DEF Faults
<1>2. CASE ~Faults
  <2>1. PICK stopped :
          /\ Up /\ Up' /\ UNCHANGED pref
          /\ eng' = [f \in File |-> IF f \in stopped THEN Stopped(eng[f]) ELSE eng[f]]
    BY <1>2 DEF ClearFinished, Up
  <2>2. EngineTyped' /\ PrefTyped'
    BY <2>1, StoppedTyped DEF IInv, EngineTyped, PrefTyped
  <2>3. ASSUME NEW g \in File PROVE Live(g)' /\ pref'[g] = FALSE => ~eng'[g].started
    <3>1. eng[g] \in EngineRec
      BY DEF IInv, EngineTyped
    <3> QED
      BY <2>1, <3>1, StoppedTyped DEF IInv, PausedStaysPaused, Live
  <2> QED
    BY <2>1, <2>2, <2>3 DEF IInv, SessionGone, PausedStaysPaused
<1> QED
  BY <1>1, <1>2
-----------------------------------------------------------------------------
LEMMA EngineStepIInv == ASSUME IInv, NEW f \in File, EngineStep(f) PROVE IInv'
<1>1. PICK s \in Stat :
        /\ Up /\ Up' /\ UNCHANGED pref
        /\ eng' = [eng EXCEPT ![f].active = s.active, ![f].done = s.done]
  BY DEF EngineStep, Up
<1>2. eng[f] \in EngineRec
  BY DEF IInv, EngineTyped
<1>3. EngineTyped' /\ PrefTyped'
  BY <1>1, <1>2 DEF IInv, EngineTyped, PrefTyped, EngineRec, Stat
<1>4. ASSUME NEW g \in File PROVE Live(g)' /\ pref'[g] = FALSE => ~eng'[g].started
  BY <1>1, <1>2 DEF IInv, EngineTyped, PausedStaysPaused, Live, EngineRec, Stat
<1> QED
  BY <1>1, <1>3, <1>4 DEF IInv, SessionGone, PausedStaysPaused

LEMMA EngineCloseIInv == ASSUME IInv, NEW f \in File, EngineClose(f) PROVE IInv'
<1>1. CASE Faults
  BY <1>1, GoneIInv DEF Faults
<1>2. CASE ~Faults
  <2>1. Up /\ Up' /\ UNCHANGED pref
        /\ eng' = [eng EXCEPT ![f] = [NoTorrent EXCEPT !.mem = "freed"]]
    BY <1>2 DEF EngineClose, Up
  <2>2. [NoTorrent EXCEPT !.mem = "freed"] \in EngineRec
        /\ ~[NoTorrent EXCEPT !.mem = "freed"].started
    BY NoTorrentTyped, MadeTyped
  <2>3. EngineTyped' /\ PrefTyped'
    BY <2>1, <2>2 DEF IInv, EngineTyped, PrefTyped
  <2>4. ASSUME NEW g \in File PROVE Live(g)' /\ pref'[g] = FALSE => ~eng'[g].started
    BY <2>1, <2>2 DEF IInv, EngineTyped, PausedStaysPaused, Live
  <2> QED
    BY <2>1, <2>3, <2>4 DEF IInv, SessionGone, PausedStaysPaused
<1> QED
  BY <1>1, <1>2
-----------------------------------------------------------------------------
LEMMA NextIInv == IInv /\ [Next]_vars => IInv'
<1> SUFFICES ASSUME IInv, [Next]_vars PROVE IInv'
  OBVIOUS
<1>1. CASE UNCHANGED vars
  BY <1>1, OthersIInv DEF vars
<1>2. ASSUME NEW reset \in BOOLEAN, Launch(reset) PROVE IInv'
  BY <1>2, LaunchIInv
<1>3. CASE Quit
  BY <1>3, GoneIInv DEF Quit
<1>4. CASE ClearFinished
  BY <1>4, ClearFinishedIInv
<1>5. ASSUME NEW f \in File, Download(f) PROVE IInv'
  BY <1>5, OthersIInv DEF Download
<1>6. ASSUME NEW f \in File, TogglePauseResume(f) \/ RemoveSelected(f) PROVE IInv'
  BY <1>6, TogglePauseResumeIInv, RemoveSelectedIInv
<1>7. CASE FolderEvent
  BY <1>7, FolderEventIInv
<1>8. ASSUME NEW f \in File, Update(f) PROVE IInv'
  BY <1>8, OthersIInv, GoneIInv DEF Update, AssertFails
<1>9. CASE Engine
  BY <1>9, EngineStepIInv, EngineCloseIInv DEF Engine
<1> QED
  BY <1>1, <1>2, <1>3, <1>4, <1>5, <1>6, <1>7, <1>8, <1>9 DEF Next, User

(* "IsActive - <name>" is honoured for any number of files: whatever the   *)
(* user removes, downloads again, clears or pauses before the watcher      *)
(* reports, and however often the app is quit and launched, no torrent the *)
(* user has paused is asked to start (addTorrentsAtPaths,                  *)
(* togglePauseResume).                                                     *)
THEOREM PausedNeverStarted == Spec => []PausedStaysPaused
<1>1. IInv => PausedStaysPaused
  BY DEF IInv
<1> QED
  BY <1>1, InitIInv, NextIInv, PTL DEF Spec
-----------------------------------------------------------------------------
(* The rows.                                                               *)
ListTyped == list \in Seq(Readable)

(* What of the first i rows is kept: those with a file, once if they were  *)
(* listed once.                                                            *)
KeptOf(r, i) ==
    /\ r \in Seq(Readable)
    /\ \A j \in 1 .. Len(r) : r[j] \in folder /\ \E k \in 1 .. i : list[k] = r[j]
    /\ \A k \in 1 .. i : list[k] \in folder => \E j \in 1 .. Len(r) : r[j] = list[k]
    /\ RowsOnce => \A j, k \in 1 .. Len(r) : r[j] = r[k] => j = k

LEMMA KeptGrows ==
    ASSUME ListTyped, NEW i \in 1 .. Len(list), NEW r, KeptOf(r, i - 1)
    PROVE  KeptOf(IF list[i] \in folder THEN Append(r, list[i]) ELSE r, i)
<1>1. /\ Len(list) \in Nat /\ list[i] \in Readable /\ r \in Seq(Readable) /\ Len(r) \in Nat
      /\ DOMAIN list = 1 .. Len(list)
      /\ \A k \in 1 .. i : k = i \/ k \in 1 .. i - 1
      /\ \A k \in 1 .. i - 1 : k \in 1 .. i /\ k # i /\ k \in 1 .. Len(list)
  BY DEF ListTyped, KeptOf
<1>2. CASE list[i] \notin folder
  BY <1>1, <1>2 DEF KeptOf
<1>3. CASE list[i] \in folder
  <2> DEFINE s == Append(r, list[i])
  <2>1. /\ s \in Seq(Readable) /\ Len(s) = Len(r) + 1 /\ s[Len(r) + 1] = list[i]
        /\ \A j \in 1 .. Len(r) : s[j] = r[j]
    BY <1>1
  <2> HIDE DEF s
  <2>2. /\ \A j \in 1 .. Len(s) : j = Len(r) + 1 \/ j \in 1 .. Len(r)
        /\ \A j \in 1 .. Len(r) : j \in 1 .. Len(s)
        /\ Len(r) + 1 \in 1 .. Len(s)
    BY <1>1, <2>1
  <2>3. ASSUME NEW j \in 1 .. Len(s) PROVE s[j] \in folder /\ \E k \in 1 .. i : list[k] = s[j]
    <3>1. CASE j = Len(r) + 1
      <4>1. i \in 1 .. i
        OBVIOUS
      <4> QED
        BY <1>3, <2>1, <3>1, <4>1
    <3>2. CASE j \in 1 .. Len(r)
      <4>1. r[j] \in folder /\ \E k \in 1 .. i - 1 : list[k] = r[j]
        BY <3>2 DEF KeptOf
      <4> QED
        BY <1>1, <2>1, <3>2, <4>1
    <3> QED
      BY <2>2, <3>1, <3>2
  <2>4. ASSUME NEW k \in 1 .. i, list[k] \in folder PROVE \E j \in 1 .. Len(s) : s[j] = list[k]
    <3>1. CASE k = i
      BY <2>1, <2>2, <3>1
    <3>2. CASE k \in 1 .. i - 1
      <4>1. PICK j \in 1 .. Len(r) : r[j] = list[k]
        BY <2>4, <3>2 DEF KeptOf
      <4> QED
        BY <2>1, <2>2, <4>1
    <3> QED
      BY <1>1, <3>1, <3>2
  <2>5. ASSUME RowsOnce PROVE \A j, k \in 1 .. Len(s) : s[j] = s[k] => j = k
    <3>1. \A j \in 1 .. Len(r) : r[j] # list[i]
      BY <1>1, <2>5 DEF KeptOf, RowsOnce
    <3> QED
      BY <2>1, <2>2, <2>5, <3>1 DEF KeptOf
  <2> QED
    BY <1>3, <2>1, <2>3, <2>4, <2>5 DEF KeptOf, s
<1> QED
  BY <1>2, <1>3

LEMMA KeptRowsAre == ASSUME ListTyped PROVE KeptOf(KeptRows, Len(list))
<1> DEFINE n == Len(list)
           Base == <<>>
           Step(r, i) == IF list[i] \in folder THEN Append(r, list[i]) ELSE r
           step == [p \in Seq(Readable) \X (1 .. n) |-> Step(p[1], p[2])]
<1>1. n \in Nat /\ DOMAIN list = 1 .. n /\ \A i \in 1 .. n : list[i] \in Readable
  BY DEF ListTyped
<1>2. step \in [Seq(Readable) \X (1 .. n) -> Seq(Readable)]
  BY <1>1
<1>3. /\ Base \in Seq(Readable)
      /\ \A r \in Seq(Readable), i \in 1 .. n : step[<<r, i>>] = Step(r, i)
  OBVIOUS
<1> HIDE DEF step, n
<1>4. PICK g : FoldsLeft(g, n, Seq(Readable), Base, step)
  <2> HIDE DEF Base, Step
  <2> QED
    BY <1>1, <1>2, <1>3, FoldLeftExists
<1> DEFINE Eq(it) == it = [u \in SUBSET (1 .. n) |->
                             IF u = {} THEN Base ELSE Step(it[u \ {Max(u)}], Max(u))]
           F == CHOOSE it : Eq(it)
<1>5. Eq(g)
  <2>1. ASSUME NEW u \in SUBSET (1 .. n), u # {}
        PROVE  g[u] = Step(g[u \ {Max(u)}], Max(u))
    <3>1. Max(u) \in 1 .. n /\ u \ {Max(u)} \in SUBSET (1 .. n)
      BY <1>1, <2>1, GreatestIsMax
    <3> HIDE DEF Step
    <3> QED
      BY <1>3, <1>4, <2>1, <3>1 DEF FoldsLeft
  <2>2. g[{}] = Base /\ g \in [SUBSET (1 .. n) -> Seq(Readable)]
    BY <1>4 DEF FoldsLeft
  <2> HIDE DEF Step, Base
  <2>3. \A u \in SUBSET (1 .. n) :
           g[u] = IF u = {} THEN Base ELSE Step(g[u \ {Max(u)}], Max(u))
    BY <2>1, <2>2
  <2> QED
    BY <2>2, <2>3
<1>6. Eq(F)
  <2> HIDE DEF Eq
  <2> QED
    BY <1>5
<1>7. KeptRows = F[1 .. n]
  BY <1>1, Zenon DEF KeptRows, FoldLeft, MapThenFoldSet, F
<1>8. F[1 .. 0] = <<>>
  <2>1. 1 .. 0 = {} /\ {} \in SUBSET (1 .. n)
    OBVIOUS
  <2> HIDE DEF F
  <2> QED
    BY <1>6, <2>1
<1>9. ASSUME NEW i \in 1 .. n PROVE F[1 .. i] = Step(F[1 .. i - 1], i)
  <2>1. 1 .. i \in SUBSET (1 .. n) /\ 1 .. i # {} /\ Max(1 .. i) = i
        /\ (1 .. i) \ {Max(1 .. i)} = 1 .. i - 1
    BY <1>1, FoldAlong
  <2> HIDE DEF F, Step
  <2>2. F[1 .. i] = Step(F[(1 .. i) \ {Max(1 .. i)}], Max(1 .. i))
    BY <1>6, <2>1
  <2> QED
    BY <2>1, <2>2
<1> HIDE DEF F
<1> DEFINE G == {i \in 0 .. n : KeptOf(F[1 .. i], i)}
<1>10. 0 \in G
  <2>1. KeptOf(<<>>, 0)
    BY DEF KeptOf
  <2> QED
    BY <1>1, <1>8, <2>1
<1>11. ASSUME NEW i \in 1 .. n, i - 1 \in G PROVE i \in G
  BY <1>1, <1>9, <1>11, KeptGrows DEF n
<1> HIDE DEF G
<1>12. n \in G
  <2>1. 0 .. n \subseteq G
    BY <1>1, <1>10, <1>11, HandedOn
  <2> QED
    BY <1>1, <2>1
<1> QED
  BY <1>7, <1>12 DEF G, n
-----------------------------------------------------------------------------
(* The folder's files come in some order, each once.                       *)
LEMMA AddedAre ==
    ASSUME NEW A \in SUBSET File, NEW added \in SetToSeqs(A)
    PROVE  /\ added \in Seq(A) /\ \A j, k \in 1 .. Len(added) : added[j] = added[k] => j = k
           /\ \A f \in A : \E j \in 1 .. Len(added) : added[j] = f
<1> DEFINE n == Cardinality(A)
<1>1. IsFiniteSet(A) /\ n \in Nat
  BY DownloadAssumption, FS_Subset, FS_CardinalityType
<1>2. added \in [1 .. n -> A] /\ \A j, k \in 1 .. n : j # k => added[j] # added[k]
  BY DEF SetToSeqs
<1> HIDE DEF n
<1>3. added \in Seq(A) /\ Len(added) = n
  BY <1>1, <1>2
<1>4. added \in Injection(1 .. n, A)
  BY <1>2 DEF Injection, IsInjective
<1>5. Cardinality(1 .. n) = n
  BY <1>1, FS_Interval
<1>6. added \in Surjection(1 .. n, A)
  BY <1>1, <1>4, <1>5, FS_Injection DEF n
<1> QED
  BY <1>2, <1>3, <1>6 DEF Surjection

(* What the watcher's report, or a launch, makes of the rows it keeps.     *)
LEMMA RowsAfter ==
    ASSUME NEW S \in SUBSET File, NEW kept \in Seq(Readable), NEW P,
           AddTorrents(eng, S, kept, P)
    PROVE  /\ ListTyped'
           /\ \A f : (\E i \in DOMAIN list' : list'[i] = f)
                        <=> f \in Addable(eng, S) \/ \E i \in DOMAIN kept : kept[i] = f
           /\ (\A i, j \in 1 .. Len(kept) : kept[i] = kept[j] => i = j)
                 /\ (\A i \in 1 .. Len(kept) : kept[i] \notin S) => RowsOnce'
           /\ \A f \in Addable(eng, S) : eng'[f].mem # "none"
           /\ \A f \in File \ Addable(eng, S) : eng'[f] = eng[f]
<1> DEFINE A == Addable(eng, S)
           L == Len(kept)
<1>1. A \in SUBSET File /\ A \subseteq Readable /\ A \subseteq S
  BY DEF Addable
<1>2. PICK added \in SetToSeqs(A) : list' = kept \o added
  BY DEF AddTorrents
<1> HIDE DEF A
<1>3. /\ added \in Seq(A) /\ \A j, k \in 1 .. Len(added) : added[j] = added[k] => j = k
      /\ \A f \in A : \E j \in 1 .. Len(added) : added[j] = f
  BY <1>1, AddedAre
<1>4. added \in Seq(Readable) /\ \A j \in 1 .. Len(added) : added[j] \in A
  BY <1>1, <1>3
<1>5. /\ list' \in Seq(Readable) /\ Len(list') = L + Len(added)
      /\ \A i \in 1 .. L + Len(added) : list'[i] = IF i <= L THEN kept[i] ELSE added[i - L]
  BY <1>2, <1>4, ConcatProperties
<1>6. /\ L \in Nat /\ Len(added) \in Nat /\ DOMAIN kept = 1 .. L /\ DOMAIN added = 1 .. Len(added)
      /\ DOMAIN list' = 1 .. L + Len(added)
  BY <1>4, <1>5
<1> HIDE DEF L
<1>7. /\ \A i \in 1 .. L : i \in 1 .. L + Len(added) /\ list'[i] = kept[i]
      /\ \A j \in 1 .. Len(added) : j + L \in 1 .. L + Len(added) /\ list'[j + L] = added[j]
      /\ \A i \in 1 .. L + Len(added) :
            i \in 1 .. L \/ (i - L \in 1 .. Len(added) /\ list'[i] = added[i - L])
  <2>1. \A i \in 1 .. L : i \in 1 .. L + Len(added) /\ list'[i] = kept[i]
    BY <1>5, <1>6
  <2>2. \A j \in 1 .. Len(added) : j + L \in 1 .. L + Len(added) /\ ~(j + L <= L) /\ (j + L) - L = j
    BY <1>6
  <2>3. \A i \in 1 .. L + Len(added) : i \in 1 .. L \/ (i - L \in 1 .. Len(added) /\ ~(i <= L))
    BY <1>6
  <2> QED
    BY <1>5, <2>1, <2>2, <2>3
<1>8. \A f : (\E i \in DOMAIN list' : list'[i] = f) <=> f \in A \/ \E i \in DOMAIN kept : kept[i] = f
  <2>1. \A i \in DOMAIN list' : list'[i] \in A \/ \E j \in DOMAIN kept : kept[j] = list'[i]
    BY <1>4, <1>6, <1>7
  <2>2. \A f \in A : \E i \in DOMAIN list' : list'[i] = f
    <3> TAKE f \in A
    <3>1. PICK j \in 1 .. Len(added) : added[j] = f
      BY <1>3
    <3> QED
      BY <1>6, <1>7, <3>1
  <2>3. \A j \in DOMAIN kept : \E i \in DOMAIN list' : list'[i] = kept[j]
    BY <1>6, <1>7
  <2> QED
    BY <2>1, <2>2, <2>3
<1>9. ASSUME \A i, j \in 1 .. L : kept[i] = kept[j] => i = j, \A i \in 1 .. L : kept[i] \notin S
      PROVE  RowsOnce'
  <2>1. ASSUME NEW i \in 1 .. L + Len(added), NEW j \in 1 .. L + Len(added), list'[i] = list'[j]
        PROVE  i = j
    <3>1. CASE i \in 1 .. L /\ j \in 1 .. L
      BY <1>7, <1>9, <2>1, <3>1
    <3>2. CASE i \notin 1 .. L /\ j \notin 1 .. L
      <4>1. i - L \in 1 .. Len(added) /\ j - L \in 1 .. Len(added) /\ added[i - L] = added[j - L]
        BY <1>7, <2>1, <3>2
      <4>2. i - L = j - L
        BY <1>3, <4>1
      <4> QED
        BY <1>6, <4>2
    <3>3. CASE i \in 1 .. L /\ j \notin 1 .. L
      BY <1>1, <1>4, <1>7, <1>9, <2>1, <3>3
    <3>4. CASE i \notin 1 .. L /\ j \in 1 .. L
      BY <1>1, <1>4, <1>7, <1>9, <2>1, <3>4
    <3> QED
      BY <3>1, <3>2, <3>3, <3>4
  <2> QED
    BY <1>6, <2>1 DEF RowsOnce
<1>10. \A f \in A : eng'[f].mem # "none"
  <2>1. PICK done \in SUBSET A, refused \in SUBSET A :
          eng' = [f \in File |->
                    IF f \notin A THEN eng[f]
                    ELSE IF MayStart(P[f]) /\ f \notin refused
                         THEN Started([NoTorrent EXCEPT !.mem = "live", !.done = f \in done])
                         ELSE [NoTorrent EXCEPT !.mem = "live", !.done = f \in done]]
    BY DEF AddTorrents, A
  <2>2. ASSUME NEW b \in BOOLEAN
        PROVE  /\ [NoTorrent EXCEPT !.mem = "live", !.done = b].mem = "live"
               /\ Started([NoTorrent EXCEPT !.mem = "live", !.done = b]).mem = "live"
    BY DEF NoTorrent, Started
  <2> TAKE f \in A
  <2> DEFINE is == f \in done
  <2>3. is \in BOOLEAN
    OBVIOUS
  <2>4. \/ eng'[f] = [NoTorrent EXCEPT !.mem = "live", !.done = is]
        \/ eng'[f] = Started([NoTorrent EXCEPT !.mem = "live", !.done = is])
    BY <1>1, <2>1
  <2> HIDE DEF is
  <2> QED
    BY <2>2, <2>3, <2>4
<1>11. \A f \in File \ A : eng'[f] = eng[f]
  BY DEF AddTorrents, A
<1> QED
  BY <1>5, <1>8, <1>9, <1>10, <1>11 DEF A, L, ListTyped
-----------------------------------------------------------------------------
(* The list follows the folder.                                            *)
RowsSound == ListTyped /\ RowsOnce /\ RowsInFolder /\ NewFilesListed

RestTyped ==
    /\ app \in {"up", "down", "asserted", "faulted"}
    /\ folder \subseteq File
    /\ shown \in [File -> Stat]
    /\ event \in BOOLEAN

LInv == RowsSound /\ RestTyped

LEMMA StatTyped == ASSUME NEW r \in EngineRec PROVE StatOf(r) \in Stat
BY DEF StatOf, Stat, EngineRec

LEMMA NoStatTyped == NoStat \in Stat
BY NoTorrentTyped, StatTyped DEF NoStat

(* The rows end with the process.                                          *)
LEMMA GoneRows ==
    ASSUME LInv, NEW how \in {"down", "asserted", "faulted"}, Gone(how), UNCHANGED <<folder, pref>>
    PROVE  LInv'
<1>1. app' = how /\ list' = <<>> /\ shown' = [f \in File |-> NoStat] /\ event' = FALSE
  BY DEF Gone
<1>2. ListTyped' /\ RowsOnce' /\ ~Up'
  BY <1>1 DEF ListTyped, RowsOnce, Up
<1> QED
  BY <1>1, <1>2, NoStatTyped DEF LInv, RowsSound, RestTyped, RowsInFolder, NewFilesListed

(* Nothing changes in the folder or the list, and no torrent is forgotten. *)
LEMMA RowsStay ==
    ASSUME LInv, UNCHANGED <<app, list, folder, event>>, shown' \in [File -> Stat],
           \A f \in File : eng'[f].mem = "none" => eng[f].mem = "none"
    PROVE  LInv'
<1>1. ListTyped' /\ RowsOnce' /\ RowsInFolder' /\ RestTyped'
  BY DEF LInv, RowsSound, ListTyped, RowsOnce, RowsInFolder, RestTyped, Rows, Up
<1>2. NewFilesListed'
  BY DEF LInv, RowsSound, NewFilesListed, RestTyped, Rows, Up
<1> QED
  BY <1>1, <1>2 DEF LInv, RowsSound

(* The folder changes, and the watcher is to report it.                    *)
LEMMA RowsLate ==
    ASSUME LInv, UNCHANGED <<app, list>>, event' = TRUE, folder' \subseteq File,
           shown' \in [File -> Stat]
    PROVE  LInv'
BY DEF LInv, RowsSound, RestTyped, ListTyped, RowsOnce, RowsInFolder, NewFilesListed

(* After a report, or a launch, the list is what the folder says.          *)
LEMMA RowsFollow ==
    ASSUME IInv, LInv, NEW S \in SUBSET File, NEW kept \in Seq(Readable), NEW P,
           AddTorrents(eng, S, kept, P),
           \A i, j \in 1 .. Len(kept) : kept[i] = kept[j] => i = j,
           \A i \in 1 .. Len(kept) : kept[i] \notin S /\ kept[i] \in folder',
           S \subseteq folder', folder' \subseteq File,
           \A f \in folder' \ S : f \in Readable => \E i \in 1 .. Len(kept) : kept[i] = f
    PROVE  ListTyped' /\ RowsOnce' /\ RowsInFolder' /\ NewFilesListed' /\ shown' \in [File -> Stat]
<1>1. /\ ListTyped' /\ RowsOnce'
      /\ \A f : (\E i \in DOMAIN list' : list'[i] = f)
                   <=> f \in Addable(eng, S) \/ \E i \in DOMAIN kept : kept[i] = f
      /\ \A f \in Addable(eng, S) : eng'[f].mem # "none"
      /\ \A f \in File \ Addable(eng, S) : eng'[f] = eng[f]
  BY RowsAfter
<1>2. DOMAIN kept = 1 .. Len(kept)
  OBVIOUS
<1>3. RowsInFolder'
  BY <1>1, <1>2 DEF RowsInFolder, Rows, Range, Addable
<1>4. ASSUME NEW f \in folder' \cap Readable, eng'[f].mem = "none" PROVE f \in Rows'
  <2>1. CASE f \in S
    <3>1. f \in File /\ f \notin Addable(eng, S)
      BY <1>1, <1>4
    <3>2. eng[f].mem = "live" /\ eng'[f] = eng[f]
      BY <1>1, <1>4, <2>1, <3>1 DEF Addable
    <3> QED
      BY <1>4, <3>2
  <2>2. CASE f \notin S
    BY <1>1, <1>2, <1>4, <2>2 DEF Rows, Range
  <2> QED
    BY <2>1, <2>2
<1>5. NewFilesListed'
  BY <1>4 DEF NewFilesListed
<1>6. shown' \in [File -> Stat]
  <2>1. EngineTyped'
    BY AddTorrentsPaused DEF IInv
  <2>2. shown' = [f \in File |->
                    IF f \in Addable(eng, S) THEN StatOf(eng'[f])
                    ELSE IF f \in Range(kept) THEN shown[f] ELSE NoStat]
    BY DEF AddTorrents
  <2>3. ASSUME NEW f \in File PROVE StatOf(eng'[f]) \in Stat /\ shown[f] \in Stat
    BY <2>1, StatTyped DEF EngineTyped, LInv, RestTyped
  <2> QED
    BY <2>2, <2>3, NoStatTyped
<1> QED
  BY <1>1, <1>3, <1>5, <1>6
-----------------------------------------------------------------------------
LEMMA LaunchRows == ASSUME IInv, LInv, NEW reset \in BOOLEAN, Launch(reset) PROVE LInv'
<1> DEFINE kept == <<>>
<1>1. /\ folder' \in SUBSET File /\ app' = "up" /\ UNCHANGED event
      /\ AddTorrents(eng, folder', kept, pref')
  BY DEF Launch, LInv, RestTyped
<1>2. kept \in Seq(Readable) /\ Len(kept) = 0
  OBVIOUS
<1> HIDE DEF kept
<1>3. ListTyped' /\ RowsOnce' /\ RowsInFolder' /\ NewFilesListed' /\ shown' \in [File -> Stat]
  <2>1. \A i \in 1 .. Len(kept) : FALSE
    BY <1>2
  <2>2. folder' \ folder' = {}
    OBVIOUS
  <2> QED
    BY <1>1, <1>2, <2>1, <2>2, RowsFollow
<1> QED
  BY <1>1, <1>3 DEF LInv, RowsSound, RestTyped

LEMMA FolderEventRows == ASSUME IInv, LInv, FolderEvent PROVE LInv'
<1>1. /\ UNCHANGED <<app, folder>> /\ event' = FALSE /\ folder \subseteq File
      /\ AddTorrents(eng, NewFiles, KeptRows, pref)
  BY DEF FolderEvent, LInv, RestTyped
<1>2. ListTyped /\ RowsOnce /\ DOMAIN list = 1 .. Len(list)
  BY DEF LInv, RowsSound, ListTyped
<1>3. KeptOf(KeptRows, Len(list))
  BY <1>2, KeptRowsAre
<1> DEFINE kept == KeptRows
<1>4. /\ kept \in Seq(Readable)
      /\ \A i, j \in 1 .. Len(kept) : kept[i] = kept[j] => i = j
      /\ \A i \in 1 .. Len(kept) : kept[i] \in folder' /\ kept[i] \in Rows
      /\ \A f \in Rows : f \in folder => \E i \in 1 .. Len(kept) : kept[i] = f
  <2>1. /\ kept \in Seq(Readable)
        /\ \A j \in 1 .. Len(kept) : kept[j] \in folder /\ \E k \in DOMAIN list : list[k] = kept[j]
        /\ \A k \in DOMAIN list : list[k] \in folder => \E j \in 1 .. Len(kept) : kept[j] = list[k]
        /\ \A j, k \in 1 .. Len(kept) : kept[j] = kept[k] => j = k
    BY <1>2, <1>3 DEF KeptOf
  <2> HIDE DEF kept
  <2>2. \A f : f \in Rows <=> \E k \in DOMAIN list : list[k] = f
    BY DEF Rows, Range
  <2> QED
    BY <1>1, <2>1, <2>2
<1>5. /\ NewFiles \in SUBSET File /\ NewFiles \subseteq folder'
      /\ \A f \in folder' \ NewFiles : f \in Rows
      /\ \A f \in NewFiles : f \notin Rows
  BY <1>1 DEF NewFiles
<1> HIDE DEF kept
<1>6. ListTyped' /\ RowsOnce' /\ RowsInFolder' /\ NewFilesListed' /\ shown' \in [File -> Stat]
  <2>1. AddTorrents(eng, NewFiles, kept, pref)
    BY <1>1 DEF kept
  <2>2. \A f \in folder' \ NewFiles : \E i \in 1 .. Len(kept) : kept[i] = f
    BY <1>1, <1>4, <1>5
  <2>3. \A i \in 1 .. Len(kept) : kept[i] \notin NewFiles
    BY <1>4, <1>5
  <2> QED
    BY <1>1, <1>4, <1>5, <2>1, <2>2, <2>3, RowsFollow
<1> QED
  BY <1>1, <1>6 DEF LInv, RowsSound, RestTyped

LEMMA UpdateRows == ASSUME IInv, LInv, NEW f \in File, Update(f) PROVE LInv'
<1>1. CASE AssertFails
  BY <1>1, GoneRows DEF AssertFails
<1>2. CASE ~AssertFails
  <2>1. /\ shown' = [shown EXCEPT ![f] = StatOf(eng[f])]
        /\ UNCHANGED <<app, folder, list, eng, pref, event>>
    BY <1>2 DEF Update
  <2>2. StatOf(eng[f]) \in Stat
    BY StatTyped DEF IInv, EngineTyped
  <2>3. shown' \in [File -> Stat]
    BY <2>1, <2>2 DEF LInv, RestTyped
  <2> QED
    BY <2>1, <2>3, RowsStay
<1> QED
  BY <1>1, <1>2

LEMMA TogglePauseResumeRows == ASSUME IInv, LInv, NEW f \in File, TogglePauseResume(f) PROVE LInv'
<1>1. CASE Faults
  BY <1>1, GoneRows DEF Faults
<1>2. CASE ~Faults
  <2>1. /\ UNCHANGED <<app, folder, list, event>>
        /\ \/ UNCHANGED <<eng, shown>>
           \/ \E r \in {Started(eng[f]), Stopped(eng[f])} :
                 eng' = [eng EXCEPT ![f] = r] /\ shown' = [shown EXCEPT ![f] = StatOf(eng'[f])]
    BY <1>2 DEF TogglePauseResume
  <2>2. CASE UNCHANGED <<eng, shown>>
    BY <2>1, <2>2, RowsStay DEF LInv, RestTyped
  <2>3. ASSUME NEW r \in {Started(eng[f]), Stopped(eng[f])}, eng' = [eng EXCEPT ![f] = r],
               shown' = [shown EXCEPT ![f] = StatOf(eng'[f])]
        PROVE  LInv'
    <3>1. eng[f] \in EngineRec
      BY DEF IInv, EngineTyped
    <3>2. r \in EngineRec /\ r.mem = eng[f].mem
      <4>1. Started(eng[f]).mem = eng[f].mem
        BY <3>1 DEF Started, EngineRec
      <4> QED
        BY <2>3, <3>1, <4>1, StartedTyped, StoppedTyped
    <3>3. eng'[f] = r /\ \A g \in File : eng'[g].mem = eng[g].mem
      BY <2>3, <3>2 DEF IInv, EngineTyped
    <3>4. shown' \in [File -> Stat]
      BY <2>3, <3>2, <3>3, StatTyped DEF LInv, RestTyped
    <3> QED
      BY <2>1, <3>3, <3>4, RowsStay
  <2> QED
    BY <2>1, <2>2, <2>3
<1> QED
  BY <1>1, <1>2

LEMMA RemoveSelectedRows == ASSUME IInv, LInv, NEW f \in File, RemoveSelected(f) PROVE LInv'
<1>1. CASE AssertFails
  BY <1>1, GoneRows DEF AssertFails
<1>2. CASE ~AssertFails
  BY <1>2, RowsLate DEF RemoveSelected, LInv, RestTyped
<1> QED
  BY <1>1, <1>2

LEMMA ClearFinishedRows == ASSUME IInv, LInv, ClearFinished PROVE LInv'
<1>1. CASE Faults
  BY <1>1, GoneRows DEF Faults
<1>2. CASE ~Faults
  <2>1. PICK finished \in SUBSET Rows, stopped \in SUBSET Rows :
          /\ eng' = [f \in File |-> IF f \in stopped THEN Stopped(eng[f]) ELSE eng[f]]
          /\ shown' = [f \in File |-> IF f \in stopped THEN StatOf(eng'[f]) ELSE shown[f]]
          /\ folder' = folder \ finished
          /\ event' = TRUE /\ UNCHANGED <<app, list, pref>>
    <3>1. PICK s \in [Rows -> Stat] :
            LET finished == { f \in Rows : s[f].done }
                stopped  == { f \in finished : s[f].active }
            IN  /\ eng' = [f \in File |-> IF f \in stopped THEN Stopped(eng[f]) ELSE eng[f]]
                /\ shown' = [f \in File |-> IF f \in stopped THEN StatOf(eng'[f]) ELSE shown[f]]
                /\ folder' = folder \ finished
                /\ event' = TRUE /\ UNCHANGED <<app, list, pref>>
      BY <1>2 DEF ClearFinished
    <3> DEFINE finished == { f \in Rows : s[f].done }
               stopped  == { f \in finished : s[f].active }
    <3>2. finished \in SUBSET Rows /\ stopped \in SUBSET Rows
      OBVIOUS
    <3> QED
      BY <3>1, <3>2
  <2>2. ASSUME NEW f \in File PROVE StatOf(eng'[f]) \in Stat /\ shown[f] \in Stat
    BY <2>1, ClearFinishedIInv, StatTyped DEF IInv, EngineTyped, LInv, RestTyped
  <2>3. shown' \in [File -> Stat]
    BY <2>1, <2>2
  <2> QED
    BY <2>1, <2>3, RowsLate DEF LInv, RestTyped
<1> QED
  BY <1>1, <1>2

LEMMA EngineRows == ASSUME IInv, LInv, Engine PROVE LInv'
<1>1. PICK f \in File : EngineStep(f) \/ EngineClose(f)
  BY DEF Engine
<1>2. CASE Faults
  BY <1>2, GoneRows DEF Faults
<1>3. CASE ~Faults
  <2>1. UNCHANGED <<app, folder, list, shown, event>>
    BY <1>1, <1>3 DEF EngineStep, EngineClose
  <2>2. eng[f] \in EngineRec
    BY DEF IInv, EngineTyped
  <2>3. \A g \in File : eng'[g].mem = "none" => eng[g].mem = "none"
    <3>1. CASE EngineStep(f)
      <4>1. PICK s \in Stat : eng' = [eng EXCEPT ![f].active = s.active, ![f].done = s.done]
        BY <3>1 DEF EngineStep
      <4>2. [eng[f] EXCEPT !.active = s.active, !.done = s.done].mem = eng[f].mem
        BY <2>2 DEF EngineRec
      <4> QED
        BY <4>1, <4>2 DEF IInv, EngineTyped
    <3>2. CASE EngineClose(f)
      <4>1. eng' = [eng EXCEPT ![f] = [NoTorrent EXCEPT !.mem = "freed"]]
        BY <1>3, <3>2 DEF EngineClose
      <4>2. [NoTorrent EXCEPT !.mem = "freed"].mem = "freed"
        BY DEF NoTorrent
      <4> QED
        BY <4>1, <4>2 DEF IInv, EngineTyped
    <3> QED
      BY <1>1, <3>1, <3>2
  <2> QED
    BY <2>1, <2>3, RowsStay DEF LInv, RestTyped
<1> QED
  BY <1>2, <1>3

LEMMA InitRows == ASSUME Init PROVE LInv
<1>1. list = <<>> /\ app = "down" /\ folder = {} /\ shown = [f \in File |-> NoStat] /\ event = FALSE
  BY DEF Init
<1>2. ListTyped /\ RowsOnce /\ ~Up
  BY <1>1 DEF ListTyped, RowsOnce, Up
<1> QED
  BY <1>1, <1>2, NoStatTyped DEF LInv, RowsSound, RestTyped, RowsInFolder, NewFilesListed

LEMMA NextRows == ASSUME IInv, LInv, [Next]_vars PROVE LInv'
<1>1. CASE UNCHANGED vars
  BY <1>1, RowsStay DEF vars, LInv, RestTyped
<1>2. ASSUME NEW reset \in BOOLEAN, Launch(reset) PROVE LInv'
  BY <1>2, LaunchRows
<1>3. CASE Quit
  BY <1>3, GoneRows DEF Quit
<1>4. CASE ClearFinished
  BY <1>4, ClearFinishedRows
<1>5. ASSUME NEW f \in File, Download(f) PROVE LInv'
  BY <1>5, RowsLate DEF Download, LInv, RestTyped
<1>6. ASSUME NEW f \in File, TogglePauseResume(f) \/ RemoveSelected(f) PROVE LInv'
  BY <1>6, TogglePauseResumeRows, RemoveSelectedRows
<1>7. CASE FolderEvent
  BY <1>7, FolderEventRows
<1>8. ASSUME NEW f \in File, Update(f) PROVE LInv'
  BY <1>8, UpdateRows
<1>9. CASE Engine
  BY <1>9, EngineRows
<1> QED
  BY <1>1, <1>2, <1>3, <1>4, <1>5, <1>6, <1>7, <1>8, <1>9 DEF Next, User

LEMMA RowsInductive == Spec => [](IInv /\ LInv)
BY InitIInv, NextIInv, InitRows, NextRows, PTL DEF Spec

(* Every state the app can reach has the model's types; a row is of a file *)
(* that can be parsed.                                                     *)
THEOREM DownloadTypeOK == Spec => []TypeOK
<1>1. IInv /\ LInv => TypeOK
  BY DEF IInv, EngineTyped, PrefTyped, LInv, RowsSound, RestTyped, ListTyped, TypeOK
<1> QED
  BY <1>1, RowsInductive, PTL

(* No file has two rows, for any number of files and of changes that one   *)
(* report of the watcher stands for (pathWatcher:eventOccurred:).          *)
THEOREM NeverListedTwice == Spec => []RowsOnce
<1>1. LInv => RowsOnce
  BY DEF LInv, RowsSound
<1> QED
  BY <1>1, RowsInductive, PTL

(* Once the watcher has reported, every row has its file: the row of a     *)
(* removed file is taken away by that report, whatever else it stands for. *)
THEOREM RowsHaveFiles == Spec => []RowsInFolder
<1>1. LInv => RowsInFolder
  BY DEF LInv, RowsSound
<1> QED
  BY <1>1, RowsInductive, PTL

(* Once the watcher has reported, a readable file of the folder that this  *)
(* session has not met before has its row.                                 *)
THEOREM NewFilesGetRows == Spec => []NewFilesListed
<1>1. LInv => NewFilesListed
  BY DEF LInv, RowsSound
<1> QED
  BY <1>1, RowsInductive, PTL
=============================================================================
