---------------------------- MODULE DownloadList ----------------------------
(***************************************************************************)
(* The app's download list.  Four things must agree and are kept apart:    *)
(*                                                                         *)
(*   folder  the .torrent files of Application Support/AdmitOne/Temp; the  *)
(*           "Download" button writes one, removing a row deletes it       *)
(*   list    APTorrentList's rows, changed only when the folder watcher    *)
(*           reports, up to 3 s after the folder did                       *)
(*   eng     the session's tr_torrents, each handled by one row            *)
(*   pref    the user default "IsActive - <name>", kept across launches    *)
(*                                                                         *)
(* All user actions, timers and watcher callbacks run on the main thread,  *)
(* and none is delivered while an alert is open, so each is one step.  The *)
(* app never closes the session and never loads the torrents it saved:     *)
(* quitting looks like a crash, and a launch rebuilds the list from the    *)
(* folder.  The engine's own steps are those of TorrentLifecycle; here     *)
(* EngineStep allows any of them.  Torrents have distinct names, and both  *)
(* queues are off (the app's defaults), so that no row is "waiting".       *)
(***************************************************************************)
EXTENDS Naturals, Sequences, FiniteSets, SequencesExt

CONSTANTS
    File,       (* the .torrent files that may be downloaded                *)
    Readable,   (* those that hold a torrent: an error page is saved too    *)
    None        (* no user default is set                                   *)

ASSUME DownloadAssumption == IsFiniteSet(File) /\ Readable \subseteq File

VARIABLES
    app,        (* the process: "up", "down", or ended by a freed handle    *)
    folder,     (* the files in the watched folder                          *)
    list,       (* the rows                                                 *)
    eng,        (* the session's torrents                                   *)
    shown,      (* each row's fStat, as of its last update                  *)
    pref,       (* the user defaults                                        *)
    event       (* the watcher has a change to report                       *)

vars == <<app, folder, list, eng, shown, pref, event>>
-----------------------------------------------------------------------------
(* What a row reads of fStat: isActive (checking, downloading or seeding)  *)
(* and isComplete.                                                         *)
Stat == [active : BOOLEAN, done : BOOLEAN]

(* closing: the tr_torrentRemove calls under way, counted up to two.       *)
(* started: the last of the app's tr_torrentStart and tr_torrentStop calls *)
(* was a start.                                                            *)
EngineRec == [mem : {"none", "live", "freed"}, closing : 0 .. 2,
              started : BOOLEAN, active : BOOLEAN, done : BOOLEAN]

NoTorrent == [mem |-> "none", closing |-> 0, started |-> FALSE,
              active |-> FALSE, done |-> FALSE]
StatOf(r) == [active |-> r.active, done |-> r.done]
NoStat == StatOf(NoTorrent)

Rows == Range(list)
Live(f) == eng[f].mem = "live"
Dangling(f) == eng[f].mem = "freed"

(* What reading fStat gives: it points into the tr_torrent, so a freed     *)
(* torrent's row shows anything.                                           *)
Seen(f) == IF Dangling(f) THEN Stat ELSE {shown[f]}

(* tr_torrentStart and tr_torrentStop, as the update after them shows      *)
Started(r) == [r EXCEPT !.started = TRUE, !.active = TRUE]
Stopped(r) == [r EXCEPT !.started = FALSE, !.active = FALSE]

Up == app = "up"

(* The process ends: with it the session, the list and the watcher.        *)
Gone(how) ==
    /\ app' = how
    /\ list' = <<>>
    /\ eng' = [f \in File |-> NoTorrent]
    /\ shown' = [f \in File |-> NoStat]
    /\ event' = FALSE

(* Main asserts tr_isTorrent of a freed torrent, or follows one of its     *)
(* pointers; or the event thread closes it again.                          *)
AssertFails == Gone("asserted") /\ UNCHANGED <<folder, pref>>
Faults == Gone("faulted") /\ UNCHANGED <<folder, pref>>
-----------------------------------------------------------------------------
Init ==
    /\ app = "down"
    /\ folder = {}
    /\ list = <<>>
    /\ eng = [f \in File |-> NoTorrent]
    /\ shown = [f \in File |-> NoStat]
    /\ pref = [f \in File |-> None]
    /\ event = FALSE

(* Mutant of MayStart: the user default is not consulted.                  *)
MayStartAlways(p) == TRUE

(* addTorrentsAtPaths starts a torrent unless the user has paused it.      *)
MayStart(p) == p # FALSE

(* Mutant of Addable: a row is made of a file that cannot be parsed.       *)
AddableUnparsed(E, S) == { f \in S : E[f].mem # "live" }

(* initWithPath returns nil for a file tr_torrentNew cannot parse and for  *)
(* a torrent the session already has (TR_PARSE_DUPLICATE).                 *)
Addable(E, S) == { f \in S \cap Readable : E[f].mem # "live" }

(* addTorrentsAtPaths(S) after the rows "kept", in the order in which the  *)
(* folder's contents come.  "refused" are the ones the disk space alert,   *)
(* or missing data, keeps from starting.                                   *)
AddTorrents(E, S, kept, P) ==
    \E done \in SUBSET Addable(E, S), refused \in SUBSET Addable(E, S),
       added \in SetToSeqs(Addable(E, S)) :
        LET New(f) == [NoTorrent EXCEPT !.mem = "live", !.done = f \in done]
            E2 == [f \in File |->
                     IF f \notin Addable(E, S) THEN E[f]
                     ELSE IF MayStart(P[f]) /\ f \notin refused
                          THEN Started(New(f)) ELSE New(f)]
        IN  /\ list' = kept \o added
            /\ eng' = E2
            /\ shown' = [f \in File |->
                     IF f \in Addable(E, S) THEN StatOf(E2[f])
                     ELSE IF f \in Range(kept) THEN shown[f] ELSE NoStat]

(* applicationDidFinishLaunching: with Alt held, the user may reset all    *)
(* data; then the folder is watched and loaded.                            *)
Launch(reset) ==
    /\ ~Up
    /\ app' = "up"
    /\ folder' = IF reset THEN {} ELSE folder
    /\ pref' = IF reset THEN [f \in File |-> None] ELSE pref
    /\ AddTorrents(eng, folder', <<>>, pref')
    /\ UNCHANGED event

Quit == Up /\ Gone("down") /\ UNCHANGED <<folder, pref>>

(* download: the file is written whatever the response was                 *)
Download(f) ==
    /\ Up
    /\ folder' = folder \cup {f}
    /\ event' = TRUE
    /\ UNCHANGED <<app, list, eng, shown, pref>>

(* Mutants of NewFiles: the whole folder; only if no row has to go.        *)
NewFilesAll == folder
NewFilesElse == IF Rows \subseteq folder THEN folder \ Rows ELSE {}

(* newIndexes, computed before any row is dropped                          *)
NewFiles == folder \ Rows

(* Mutant of KeptRows: removedIndexes is not applied.                      *)
KeptRowsAll == list

(* the rows that are not in removedIndexes, in their order                 *)
KeptRows ==
    FoldLeft(LAMBDA kept, f : IF f \in folder THEN Append(kept, f) ELSE kept, <<>>, list)

(* pathWatcher:eventOccurred: drops the rows whose file is gone and adds   *)
(* the files without a row.                                                *)
FolderEvent ==
    /\ Up /\ event
    /\ AddTorrents(eng, NewFiles, KeptRows, pref)
    /\ event' = FALSE
    /\ UNCHANGED <<app, folder, pref>>
-----------------------------------------------------------------------------
(* reloadData, on a timer: each visible row updates its fStat.             *)
Update(f) ==
    /\ Up /\ f \in Rows
    /\ IF Dangling(f) THEN AssertFails
       ELSE /\ shown' = [shown EXCEPT ![f] = StatOf(eng[f])]
            /\ UNCHANGED <<app, folder, list, eng, pref, event>>

(* togglePauseResume decides by what the row shows; a start may be refused *)
(* by the disk space alert, after the default is set.                      *)
TogglePauseResume(f) ==
    /\ Up /\ f \in Rows
    /\ IF Dangling(f) THEN Faults
       ELSE /\ \/ /\ shown[f].active
                  /\ pref' = [pref EXCEPT ![f] = FALSE]
                  /\ eng' = [eng EXCEPT ![f] = Stopped(@)]
                  /\ shown' = [shown EXCEPT ![f] = StatOf(eng'[f])]
               \/ /\ ~shown[f].active
                  /\ pref' = [pref EXCEPT ![f] = TRUE]
                  /\ \/ /\ eng' = [eng EXCEPT ![f] = Started(@)]
                        /\ shown' = [shown EXCEPT ![f] = StatOf(eng'[f])]
                     \/ UNCHANGED <<eng, shown>>
            /\ UNCHANGED <<app, folder, list, event>>

(* removeSelected: a row that looks active is closed, any other only loses *)
(* its file.  The row stays until the watcher reports.                     *)
RemoveSelected(f) ==
    /\ Up /\ f \in Rows
    /\ \E s \in Seen(f) :
         IF s.active /\ Dangling(f) THEN AssertFails
         ELSE /\ eng' = IF s.active THEN [eng EXCEPT ![f].closing = IF @ < 2 THEN @ + 1 ELSE @]
                       ELSE eng
              /\ folder' = folder \ {f}
              /\ event' = TRUE
              /\ UNCHANGED <<app, list, shown, pref>>

(* clearFinished: rows that look complete are stopped, not closed, and     *)
(* lose their files.                                                       *)
ClearFinished ==
    /\ Up
    /\ \E s \in [Rows -> Stat] :
         /\ \A f \in Rows : s[f] \in Seen(f)
         /\ LET finished == { f \in Rows : s[f].done }
                stopped  == { f \in finished : s[f].active }
            IN  /\ finished # {}
                /\ IF \E f \in finished : Dangling(f) THEN Faults
                   ELSE /\ eng' = [f \in File |-> IF f \in stopped THEN Stopped(eng[f]) ELSE eng[f]]
                        /\ shown' = [f \in File |-> IF f \in stopped THEN StatOf(eng'[f]) ELSE shown[f]]
                        /\ folder' = folder \ finished
                        /\ event' = TRUE
                        /\ UNCHANGED <<app, list, pref>>
-----------------------------------------------------------------------------
(* The engine at work on a live torrent: it checks or transfers it, finds  *)
(* it complete or not, or stops it on an error.                            *)
EngineStep(f) ==
    /\ Up /\ Live(f)
    /\ \E s \in Stat : eng' = [eng EXCEPT ![f].active = s.active, ![f].done = s.done]
    /\ UNCHANGED <<app, folder, list, shown, pref, event>>

(* closeTorrent and freeTorrent, on the event thread; a row stays long     *)
(* enough to be removed twice, and the second removal finds it freed.      *)
EngineClose(f) ==
    /\ Up /\ Live(f) /\ eng[f].closing > 0
    /\ IF eng[f].closing > 1 THEN Faults
       ELSE /\ eng' = [eng EXCEPT ![f] = [NoTorrent EXCEPT !.mem = "freed"]]
            /\ UNCHANGED <<app, folder, list, shown, pref, event>>

User ==
    \/ \E reset \in BOOLEAN : Launch(reset)
    \/ Quit
    \/ ClearFinished
    \/ \E f \in File : Download(f) \/ TogglePauseResume(f) \/ RemoveSelected(f)

Engine == \E f \in File : EngineStep(f) \/ EngineClose(f)

Next == User \/ FolderEvent \/ (\E f \in File : Update(f)) \/ Engine

Spec == Init /\ [][Next]_vars
-----------------------------------------------------------------------------
(* Every variable keeps its type, and every row is of a readable file.     *)
TypeOK ==
    /\ app \in {"up", "down", "asserted", "faulted"}
    /\ folder \subseteq File
    /\ list \in Seq(Readable)
    /\ eng \in [File -> EngineRec]
    /\ shown \in [File -> Stat]
    /\ pref \in [File -> BOOLEAN \cup {None}]
    /\ event \in BOOLEAN

(* No download is listed twice, however events are delayed and files are   *)
(* removed and downloaded again meanwhile (pathWatcher's newIndexes).      *)
RowsOnce == \A i, j \in DOMAIN list : list[i] = list[j] => i = j

(* Once the watcher has reported, every row has its file: what the user    *)
(* removes or clears leaves the list, even if several changes of the       *)
(* folder come in one report (removedIndexes).                             *)
RowsInFolder == Up /\ ~event => Rows \subseteq folder

(* Once the watcher has reported, a readable file the session has not met  *)
(* since the launch is listed, though one report may stand for several     *)
(* changes of the folder.                                                  *)
NewFilesListed ==
    Up /\ ~event => \A f \in folder \cap Readable : eng[f].mem = "none" => f \in Rows

(* "IsActive - <name>" is honoured: a torrent the user has paused is not   *)
(* asked to start again by a launch, a re-download or a late event.        *)
PausedStaysPaused ==
    \A f \in File : Live(f) /\ pref[f] = FALSE => ~eng[f].started

(* assert (tr_isTorrent (tor)) of tr_torrentStat and tr_torrentRemove: a   *)
(* row is gone before its torrent is freed.                                *)
HandlesLive == app # "asserted"
=============================================================================
