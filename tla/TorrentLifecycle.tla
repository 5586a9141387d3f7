-------------------------- MODULE TorrentLifecycle --------------------------
(***************************************************************************)
(* The life of a torrent in the session: three threads share its flags.    *)
(*                                                                         *)
(*   main    the client's calls (tr_torrentNew, Start, Stop, Verify,       *)
(*           Remove, Stat).  A call changes flags at once and posts the    *)
(*           rest of its work to the event thread's pipe.                  *)
(*   event   runs the posted functions in order, and every 500 ms the      *)
(*           bandwidth pulse, which stops torrents and pumps the queues.   *)
(*   verify  checks one torrent's files at a time and posts the result.    *)
(*                                                                         *)
(* The event thread holds the session lock whenever it is between two      *)
(* steps (ev.at # "idle"); main takes it only where the code does, so its  *)
(* unlocked reads and writes may fall anywhere.  tr_verifyRemove waits for *)
(* the verify thread with the session lock held.                           *)
(*                                                                         *)
(* Pieces, files and trackers are abstracted: "have" is what               *)
(* tr_cpGetStatus would say, DiskLoss the answers of                       *)
(* setLocalErrorIfFilesDisappeared, SeedLimit those of the ratio and idle  *)
(* limits.  The stalled-torrent option is off, its default.                *)
(***************************************************************************)
EXTENDS Integers, Sequences, FiniteSets, SequencesExt

CONSTANTS
    Torrent,    (* the torrents that may be added, each once                *)
    QueueLimit, (* per direction: its queue size, or None when disabled     *)
    Calls,      (* the calls the client makes                               *)
    DiskLoss,   (* the possible answers to "did the files disappear?"       *)
    SeedLimit,  (* the possible answers to "has it seeded enough?"          *)
    PipeBound,  (* the posted functions at which the client stops calling   *)
    None

VARIABLES
    tor,        (* the fields of each tr_torrent                            *)
    line,       (* the session's torrents by queuePosition (SessionQueue)   *)
    pipe,       (* functions posted to the event thread, oldest first       *)
    ev,         (* where the event thread is                                *)
    mn,         (* where main is inside torrentStart                        *)
    ver,        (* verify.c: verifyList, currentNode, stopCurrent, thread   *)
    crashed     (* an assert failed, or freed memory was used               *)

vars == <<tor, line, pipe, ev, mn, ver, crashed>>
-----------------------------------------------------------------------------
Direction == {"up", "down"}
ClientCall == {"add", "start", "startNow", "stop", "verify", "remove", "stat"}
Posted == [fn : {"startImpl", "recheckDone", "verify", "stop", "remove"}, t : Torrent]

(* Two fields are not in the code: "paused", the client's last request was *)
(* a stop, and "late", it called the torrent when it had already asked for *)
(* its removal.                                                            *)
TorrentRec ==
    [mem : {"none", "live", "freed"}, running : BOOLEAN, queued : BOOLEAN,
     stopping : BOOLEAN, deleting : BOOLEAN, startAfter : BOOLEAN,
     verify : {"none", "wait", "now"}, seed : BOOLEAN, have : BOOLEAN,
     peers : BOOLEAN, paused : BOOLEAN, late : BOOLEAN]

ASSUME LifecycleAssumption ==
    /\ IsFiniteSet(Torrent) /\ None \notin Torrent
    /\ QueueLimit \in [Direction -> Nat \cup {None}]
    /\ Calls \subseteq ClientCall
    /\ DiskLoss \subseteq BOOLEAN /\ DiskLoss # {}
    /\ SeedLimit \subseteq BOOLEAN /\ SeedLimit # {}
    /\ PipeBound \in Nat \ {0}

Live(t) == tor[t].mem = "live"
QueueEnabled(d) == QueueLimit[d] # None

(* The sets of torrents found to have seeded enough, in one look at all.   *)
SeedDone == IF TRUE \in SeedLimit THEN IF FALSE \in SeedLimit THEN SUBSET Torrent
                                       ELSE {Torrent}
            ELSE {{}}

QueueDirection(r) == IF r.seed THEN "up" ELSE "down"

(* torrentGetActivity                                                      *)
Activity(r) ==
    CASE r.verify = "now"  -> "check"
      [] r.verify = "wait" -> "checkWait"
      [] r.verify = "none" /\ r.running -> IF r.seed THEN "seed" ELSE "download"
      [] r.verify = "none" /\ ~r.running ->
            IF r.queued /\ QueueEnabled(QueueDirection(r))
            THEN IF r.seed THEN "seedWait" ELSE "downloadWait"
            ELSE "stopped"

(* tr_torrentCheckSeedLimit, given its verdict                             *)
CheckSeedLimit(r, done) == [r EXCEPT !.stopping = @ \/ (r.running /\ r.seed /\ done)]

(* tr_torrentRecheckCompleteness: a running leech that became a seed is    *)
(* checked against the seed limits at once.                                *)
RecheckCompleteness(r, done) ==
    IF r.seed = r.have THEN r
    ELSE LET s == [r EXCEPT !.seed = r.have]
         IN  IF r.have THEN CheckSeedLimit(s, done) ELSE s

RecheckAll(T, D) ==
    [t \in Torrent |-> IF T[t].mem = "live" THEN RecheckCompleteness(T[t], t \in D) ELSE T[t]]

(* setLocalErrorIfFilesDisappeared, through tr_torrentSetLocalError        *)
LocalErrorIf(r, gone) == [r EXCEPT !.stopping = @ \/ (gone /\ r.running)]

(* torrentStartImpl                                                        *)
StartImpl(r, done) ==
    [RecheckCompleteness(r, done) EXCEPT
        !.queued = FALSE, !.running = TRUE, !.seed = r.have, !.peers = TRUE]

(* Mutant of StopImpl: tr_peerMgrStopTorrent is forgotten.                 *)
StopImplKeepsPeers(r) == [r EXCEPT !.queued = FALSE]

(* stopTorrent, after its tr_verifyRemove                                  *)
StopImpl(r) == [r EXCEPT !.queued = FALSE, !.peers = FALSE]

(* tr_sessionCountQueueFreeSlots, over torrents just rechecked             *)
ActiveIn(T, d) ==
    { t \in Torrent : /\ T[t].mem = "live"
                      /\ Activity(T[t]) = IF d = "up" THEN "seed" ELSE "download" }
HasFreeSlot(T, d) == QueueEnabled(d) => Cardinality(ActiveIn(T, d)) < QueueLimit[d]

(* Mutants of FreeSlots: without its lower bound; off by one.              *)
FreeSlotsUnclamped(T, d) == QueueLimit[d] - Cardinality(ActiveIn(T, d))
FreeSlotsOneLess(T, d) ==
    LET n == Cardinality(ActiveIn(T, d)) + 1
    IN  IF n >= QueueLimit[d] THEN 0 ELSE QueueLimit[d] - n

FreeSlots(T, d) ==
    LET n == Cardinality(ActiveIn(T, d))
    IN  IF n >= QueueLimit[d] THEN 0 ELSE QueueLimit[d] - n

(* torrentStart as the event thread runs it: tr_runInEventThread calls     *)
(* torrentStartImpl on the spot.  D and gone are the verdicts it meets.    *)
StartInEvent(T, t, bypass, D, gone) ==
    LET act    == Activity(T[t])
        counts == act = "stopped" /\ ~bypass /\ QueueEnabled(QueueDirection(T[t]))
        T1     == IF counts THEN RecheckAll(T, D) ELSE T
    IN  IF act \in {"seed", "download"} THEN T
        ELSE IF act \in {"seedWait", "downloadWait"} /\ ~bypass THEN T
        ELSE IF act \in {"check", "checkWait"} THEN [T EXCEPT ![t].startAfter = TRUE]
        ELSE IF counts /\ ~HasFreeSlot(T1, QueueDirection(T[t]))
             THEN [T1 EXCEPT ![t].queued = TRUE]
        ELSE IF gone THEN [T1 EXCEPT ![t] = LocalErrorIf(@, TRUE)]
        ELSE [T1 EXCEPT ![t] = StartImpl([@ EXCEPT !.running = TRUE], t \in D)]

(* tr_sessionGetNextQueuedTorrent: the first of the line, or None          *)
NextQueued(d) ==
    LET ready == { i \in DOMAIN line : /\ tor[line[i]].queued
                                       /\ QueueDirection(tor[line[i]]) = d }
    IN  IF ready = {} THEN None
        ELSE line[CHOOSE i \in ready : \A j \in ready : i <= j]

Idle == [at |-> "idle", fn |-> "none", t |-> None,
         todo |-> {}, dirs |-> {}, dir |-> "none", n |-> 0]
MainIdle == [at |-> "idle", t |-> None, bypass |-> FALSE]

(* Where each thread is; a failed assert ends them all.                    *)
MainAt(place) == ~crashed /\ mn.at = place
StartAt(place) == MainAt(place) /\ Live(mn.t)
EventAt(place) == ~crashed /\ ev.at = place
VerifierAt(place) == ~crashed /\ ver.at = place

SessionUnlocked == ev.at = "idle"
Room == Len(pipe) < PipeBound

(* Mutant of Post: what is posted last runs first.                         *)
PostFirst(fn, t) == pipe' = <<[fn |-> fn, t |-> t]>> \o pipe

(* tr_runInEventThread, from another thread                                *)
Post(fn, t) == pipe' = Append(pipe, [fn |-> fn, t |-> t])
-----------------------------------------------------------------------------
Init ==
    /\ tor = [t \in Torrent |->
                [mem |-> "none", running |-> FALSE, queued |-> FALSE, stopping |-> FALSE,
                 deleting |-> FALSE, startAfter |-> FALSE, verify |-> "none",
                 seed |-> FALSE, have |-> FALSE, peers |-> FALSE, paused |-> FALSE,
                 late |-> FALSE]]
    /\ line = <<>>
    /\ pipe = <<>>
    /\ ev = Idle
    /\ mn = MainIdle
    /\ ver = [at |-> "none", cur |-> None, stop |-> FALSE, list |-> {}]
    /\ crashed = FALSE
-----------------------------------------------------------------------------
(* Main: one client call at a time.  tr_isTorrent holds until the torrent  *)
(* is freed, so nothing keeps the client from calling a torrent whose      *)
(* removal is posted.  What a call does on one that is freed is left to    *)
(* DownloadList, which knows how long the client keeps its torrents.       *)
MayCall(call, t) ==
    /\ call \in Calls
    /\ MainAt("idle")
    /\ Live(t)

Called(r) == [r EXCEPT !.late = @ \/ r.deleting]

(* tr_torrentNew, torrentInit: the app's constructor forces "paused", so   *)
(* doStart is false.  A torrent without a saved .torrent file is verified; *)
(* one that has it may already be complete.                                *)
AddTorrent(t) ==
    /\ "add" \in Calls
    /\ MainAt("idle") /\ SessionUnlocked
    /\ tor[t].mem = "none"
    /\ line' = Append(line, t)
    /\ \/ /\ Room /\ Post("verify", t)
          /\ tor' = [tor EXCEPT ![t].mem = "live"]
       \/ \E complete \in BOOLEAN :
            /\ tor' = [tor EXCEPT ![t].mem = "live", ![t].have = complete,
                                  ![t].seed = complete]
            /\ UNCHANGED pipe
    /\ UNCHANGED <<ev, mn, ver, crashed>>

(* tr_torrentStart, StartNow: torrentStart reads the activity without the  *)
(* lock, and decides what to do later.                                     *)
CallStart(t, bypass) ==
    /\ MayCall(IF bypass THEN "startNow" ELSE "start", t)
    /\ LET act == Activity(tor[t])
           next == IF act \in {"check", "checkWait"} THEN "afterVerify"
                   ELSE IF act = "stopped" /\ ~bypass THEN "shouldQueue"
                   ELSE "start"
       IN  mn' = IF act \in {"seed", "download"}
                    \/ (act \in {"seedWait", "downloadWait"} /\ ~bypass)
                 THEN mn ELSE [at |-> next, t |-> t, bypass |-> bypass]
    /\ tor' = [tor EXCEPT ![t] = Called([@ EXCEPT !.paused = FALSE])]
    /\ UNCHANGED <<line, pipe, ev, ver, crashed>>

SetStartAfterVerify ==
    /\ StartAt("afterVerify")
    /\ tor' = [tor EXCEPT ![mn.t].startAfter = TRUE]
    /\ mn' = MainIdle
    /\ UNCHANGED <<line, pipe, ev, ver, crashed>>

(* torrentShouldQueue: the count of free slots rechecks every torrent,     *)
(* under the lock; its answer is used after the unlock.                    *)
ShouldQueue ==
    /\ StartAt("shouldQueue")
    /\ LET d == QueueDirection(tor[mn.t])
       IN  IF QueueEnabled(d)
           THEN /\ SessionUnlocked
                /\ \E D \in SeedDone :
                     /\ tor' = RecheckAll(tor, D)
                     /\ mn' = [mn EXCEPT !.at = IF HasFreeSlot(RecheckAll(tor, D), d)
                                                THEN "start" ELSE "queue"]
           ELSE mn' = [mn EXCEPT !.at = "start"] /\ UNCHANGED tor
    /\ UNCHANGED <<line, pipe, ev, ver, crashed>>

SetQueued ==
    /\ StartAt("queue")
    /\ tor' = [tor EXCEPT ![mn.t].queued = TRUE]
    /\ mn' = MainIdle
    /\ UNCHANGED <<line, pipe, ev, ver, crashed>>

(* The rest of torrentStart: refuse if the files disappeared, otherwise    *)
(* set isRunning under the lock and post torrentStartImpl.                 *)
CommitStart ==
    /\ StartAt("start")
    /\ \/ /\ TRUE \in DiskLoss
          /\ tor' = [tor EXCEPT ![mn.t] = LocalErrorIf(@, TRUE)]
          /\ UNCHANGED pipe
       \/ /\ FALSE \in DiskLoss
          /\ SessionUnlocked /\ Room
          /\ tor' = [tor EXCEPT ![mn.t].running = TRUE]
          /\ Post("startImpl", mn.t)
    /\ mn' = MainIdle
    /\ UNCHANGED <<line, ev, ver, crashed>>

(* The torrent was freed while torrentStart was under way.                 *)
StartMeetsFreed ==
    /\ ~crashed /\ mn.at # "idle" /\ ~Live(mn.t)
    /\ crashed' = TRUE
    /\ UNCHANGED <<tor, line, pipe, ev, mn, ver>>

(* tr_torrentStop                                                          *)
CallStop(t) ==
    /\ MayCall("stop", t) /\ SessionUnlocked /\ Room
    /\ tor' = [tor EXCEPT ![t] =
                  Called([@ EXCEPT !.running = FALSE, !.stopping = FALSE, !.paused = TRUE])]
    /\ Post("stop", t)
    /\ UNCHANGED <<line, ev, mn, ver, crashed>>

(* tr_torrentVerify                                                        *)
CallVerify(t) ==
    /\ MayCall("verify", t) /\ Room
    /\ tor' = [tor EXCEPT ![t] = Called(@)]
    /\ Post("verify", t)
    /\ UNCHANGED <<line, ev, mn, ver, crashed>>

(* tr_torrentRemove                                                        *)
CallRemove(t) ==
    /\ MayCall("remove", t) /\ Room
    /\ tor' = [tor EXCEPT ![t] = [Called(@) EXCEPT !.deleting = TRUE]]
    /\ Post("remove", t)
    /\ UNCHANGED <<line, ev, mn, ver, crashed>>

(* tr_torrentStat, the app's two-second update                             *)
CallStat(t) ==
    /\ MayCall("stat", t) /\ SessionUnlocked
    /\ tor[t].have # tor[t].seed
    /\ \E done \in SeedLimit :
         tor' = [tor EXCEPT ![t] = RecheckCompleteness(@, done)]
    /\ UNCHANGED <<line, pipe, ev, mn, ver, crashed>>
-----------------------------------------------------------------------------
(* Event thread.  readFromPipe runs the oldest posted function; those that *)
(* detach the torrent from the verifier go on when it has let go.          *)
Dispatched(fn) ==
    /\ EventAt("idle")
    /\ pipe # <<>> /\ Head(pipe).fn = fn /\ Live(Head(pipe).t)
    /\ pipe' = Tail(pipe)

(* It is about a torrent that was freed: each of them uses it unasked.     *)
PostedMeetsFreed ==
    /\ EventAt("idle")
    /\ pipe # <<>> /\ ~Live(Head(pipe).t)
    /\ crashed' = TRUE
    /\ UNCHANGED <<tor, line, pipe, ev, mn, ver>>

(* tr_verifyRemove up to its wait: ask the verify thread to drop t, or     *)
(* take t off its list.  todo is what the caller has left to do.           *)
Detach(fn, t, todo, T) ==
    /\ ev' = [ev EXCEPT !.at = "detach", !.fn = fn, !.t = t, !.todo = todo]
    /\ IF ver.cur = t
       THEN ver' = [ver EXCEPT !.stop = TRUE] /\ tor' = T
       ELSE /\ ver' = [ver EXCEPT !.list = @ \ {t}]
            /\ tor' = [T EXCEPT ![t].verify = "none"]

RunStartImpl ==
    /\ Dispatched("startImpl")
    /\ LET t == Head(pipe).t
       IN  \E done \in SeedLimit : tor' = [tor EXCEPT ![t] = StartImpl(@, done)]
    /\ UNCHANGED <<line, ev, mn, ver, crashed>>

(* torrentRecheckDoneImpl, posted by the verify thread                     *)
RunRecheckDone ==
    /\ Dispatched("recheckDone")
    /\ LET t == Head(pipe).t
       IN  \E D \in SeedDone : \E gone \in DiskLoss :
             LET T == [tor EXCEPT ![t] = RecheckCompleteness(@, t \in D)]
             IN  tor' = IF T[t].startAfter
                        THEN StartInEvent([T EXCEPT ![t].startAfter = FALSE], t, FALSE, D, gone)
                        ELSE T
    /\ UNCHANGED <<line, ev, mn, ver, crashed>>

(* verifyTorrent, stopTorrent and removeTorrent begin alike                *)
RunDetaching ==
    \E fn \in {"verify", "stop", "remove"} :
        /\ Dispatched(fn)
        /\ Detach(fn, Head(pipe).t, {}, tor)
        /\ UNCHANGED <<line, mn, crashed>>

(* Mutant of Detached: tr_verifyRemove does not wait for the verifier.     *)
DetachedAtOnce(fn) == EventAt("detach") /\ ev.fn = fn

(* The wait of tr_verifyRemove is over.                                    *)
Detached(fn) == EventAt("detach") /\ ev.fn = fn /\ ~ver.stop

(* Mutant of VerifyAdd: the idle verify thread is not created again.       *)
VerifyAddNoThread(v, t) == [v EXCEPT !.list = @ \cup {t}]

(* tr_verifyAdd on verifyList and verifyThread                             *)
VerifyAdd(v, t) ==
    [v EXCEPT !.list = @ \cup {t}, !.at = IF @ = "none" THEN "top" ELSE @]

(* The rest of verifyTorrent: a running torrent is stopped, and started    *)
(* again after the verification.                                           *)
FinishVerify ==
    /\ Detached("verify")
    /\ LET t == ev.t
           r == tor[t]
           again == (r.running \/ r.startAfter) /\ ~r.stopping
           s == IF r.running
                THEN StopImpl([r EXCEPT !.running = FALSE, !.stopping = FALSE]) ELSE r
       IN  \/ /\ TRUE \in DiskLoss
              /\ tor' = [tor EXCEPT ![t] = LocalErrorIf([s EXCEPT !.startAfter = FALSE], TRUE)]
              /\ UNCHANGED ver
           \/ /\ FALSE \in DiskLoss
              /\ tor' = [tor EXCEPT ![t] = [s EXCEPT !.startAfter = again, !.verify = "wait"]]
              /\ ver' = VerifyAdd(ver, t)
    /\ ev' = Idle
    /\ UNCHANGED <<line, pipe, mn, crashed>>

FinishStop ==
    /\ Detached("stop")
    /\ tor' = [tor EXCEPT ![ev.t] = StopImpl(@)]
    /\ ev' = Idle
    /\ UNCHANGED <<line, pipe, mn, ver, crashed>>

(* closeTorrent and freeTorrent: the torrent leaves the session            *)
FinishRemove ==
    /\ Detached("remove")
    /\ tor' = [tor EXCEPT ![ev.t] = [StopImpl(@) EXCEPT !.running = FALSE, !.mem = "freed"]]
    /\ line' = RemoveFirst(line, ev.t)
    /\ ev' = Idle
    /\ UNCHANGED <<pipe, mn, ver, crashed>>

(* bandwidthPulse.  Upkeep looks at every torrent and collects in todo the *)
(* ones to stop; dirs is the queues to pump after that.  A torrent's       *)
(* needsCompletenessCheck is set when peers deliver the last piece and not *)
(* when the verifier finds it, so each recheck may happen or not.          *)
Upkeep(t, done, check) ==
    LET r == CheckSeedLimit(tor[t], done)
    IN  IF check THEN RecheckCompleteness(r, done) ELSE r

PulseOrIdle(e) == IF e.todo = {} /\ e.dirs = {} /\ e.n = 0 THEN Idle ELSE e

PulseBegin ==
    /\ EventAt("idle")
    /\ \E D \in SeedDone : \E checked \in SUBSET { t \in Torrent : tor[t].have # tor[t].seed } :
         LET T == [t \in Torrent |-> IF Live(t) THEN Upkeep(t, t \in D, t \in checked)
                                    ELSE tor[t]]
         IN  /\ tor' = T
             /\ ev' = PulseOrIdle(
                        [Idle EXCEPT !.at = "pulse",
                                     !.todo = { t \in Torrent : Live(t) /\ T[t].stopping },
                                     !.dirs = { d \in Direction : QueueEnabled(d) }])
    /\ UNCHANGED <<line, pipe, mn, ver, crashed>>

(* tr_torrentStop, called by the upkeep                                    *)
PulseStop(t) ==
    /\ EventAt("pulse") /\ t \in ev.todo
    /\ Detach("pulse", t, ev.todo \ {t},
              [tor EXCEPT ![t].running = FALSE, ![t].stopping = FALSE])
    /\ UNCHANGED <<line, pipe, mn, crashed>>

FinishPulseStop ==
    /\ Detached("pulse")
    /\ tor' = [tor EXCEPT ![ev.t] = StopImpl(@)]
    /\ ev' = PulseOrIdle([ev EXCEPT !.at = "pulse", !.fn = "none", !.t = None])
    /\ UNCHANGED <<line, pipe, mn, ver, crashed>>

(* queuePulse: seeds, then downloads; count the free slots once, then      *)
(* start that many torrents                                                *)
CountSlots ==
    /\ EventAt("pulse") /\ ev.todo = {} /\ ev.n = 0
    /\ LET d == IF "up" \in ev.dirs THEN "up" ELSE "down"
       IN  \E D \in SeedDone :
             /\ tor' = RecheckAll(tor, D)
             /\ ev' = PulseOrIdle([ev EXCEPT !.dir = d, !.dirs = @ \ {d},
                                             !.n = FreeSlots(RecheckAll(tor, D), d)])
    /\ UNCHANGED <<line, pipe, mn, ver, crashed>>

StartQueued ==
    /\ EventAt("pulse") /\ ev.n > 0
    /\ LET t == NextQueued(ev.dir)
       IN  IF t = None THEN ev' = PulseOrIdle([ev EXCEPT !.n = 0]) /\ UNCHANGED tor
           ELSE /\ ev' = PulseOrIdle([ev EXCEPT !.n = @ - 1])
                /\ \E D \in SeedDone : \E gone \in DiskLoss :
                     tor' = StartInEvent(tor, t, TRUE, D, gone)
    /\ UNCHANGED <<line, pipe, mn, ver, crashed>>

(* Peer I/O, on the event thread: the peers deliver the last piece.        *)
PeersDeliver(t) ==
    /\ EventAt("idle")
    /\ Live(t) /\ tor[t].peers /\ ~tor[t].have
    /\ tor' = [tor EXCEPT ![t].have = TRUE]
    /\ UNCHANGED <<line, pipe, ev, mn, ver, crashed>>
-----------------------------------------------------------------------------
(* Mutant of VerifyNext: stopCurrent is not reset for the next torrent.    *)
VerifyNextKeepsStop ==
    /\ VerifierAt("top")
    /\ IF ver.list = {}
       THEN ver' = [ver EXCEPT !.cur = None, !.at = "none"]
       ELSE \E t \in ver.list :
               ver' = [ver EXCEPT !.at = "begin", !.cur = t, !.list = @ \ {t}]
    /\ UNCHANGED <<tor, line, pipe, ev, mn, crashed>>

(* Verify thread: verifyThreadFunc.  The list is ordered by priority and   *)
(* size, so which torrent is next is left open.                            *)
VerifyNext ==
    /\ VerifierAt("top")
    /\ IF ver.list = {}
       THEN ver' = [ver EXCEPT !.stop = FALSE, !.cur = None, !.at = "none"]
       ELSE \E t \in ver.list :
               ver' = [at |-> "begin", cur |-> t, stop |-> FALSE, list |-> ver.list \ {t}]
    /\ UNCHANGED <<tor, line, pipe, ev, mn, crashed>>

VerifyBegin ==
    /\ VerifierAt("begin")
    /\ tor' = [tor EXCEPT ![ver.cur].verify = "now"]
    /\ ver' = [ver EXCEPT !.at = "run"]
    /\ UNCHANGED <<line, pipe, ev, mn, crashed>>

(* The pieces checked, all of them or up to a stop, decide what we have.   *)
VerifyEnd ==
    /\ VerifierAt("run")
    /\ \E found \in BOOLEAN :
         tor' = [tor EXCEPT ![ver.cur].have = found, ![ver.cur].verify = "none"]
    /\ ver' = [ver EXCEPT !.at = "end"]
    /\ UNCHANGED <<line, pipe, ev, mn, crashed>>

(* Mutant of VerifyReport: only a torrent found complete is reported.      *)
VerifyReportComplete ==
    /\ VerifierAt("end")
    /\ IF ver.stop \/ ~tor[ver.cur].have THEN UNCHANGED pipe ELSE Post("recheckDone", ver.cur)
    /\ ver' = [ver EXCEPT !.at = "top"]
    /\ UNCHANGED <<tor, line, ev, mn, crashed>>

VerifyReport ==
    /\ VerifierAt("end")
    /\ IF ver.stop THEN UNCHANGED pipe ELSE Post("recheckDone", ver.cur)
    /\ ver' = [ver EXCEPT !.at = "top"]
    /\ UNCHANGED <<tor, line, ev, mn, crashed>>
-----------------------------------------------------------------------------
Client ==
    \E t \in Torrent :
        \/ AddTorrent(t)
        \/ \E bypass \in BOOLEAN : CallStart(t, bypass)
        \/ CallStop(t) \/ CallVerify(t) \/ CallRemove(t) \/ CallStat(t)

MainStep == SetStartAfterVerify \/ ShouldQueue \/ SetQueued \/ CommitStart \/ StartMeetsFreed

Dispatch == RunStartImpl \/ RunRecheckDone \/ RunDetaching \/ PostedMeetsFreed

EventStep ==
    \/ FinishVerify \/ FinishStop \/ FinishRemove \/ FinishPulseStop
    \/ \E t \in Torrent : PulseStop(t)
    \/ CountSlots \/ StartQueued

VerifyStep == VerifyNext \/ VerifyBegin \/ VerifyEnd \/ VerifyReport

Aborted == crashed /\ UNCHANGED vars

Next ==
    \/ Client \/ MainStep
    \/ Dispatch \/ PulseBegin \/ EventStep
    \/ \E t \in Torrent : PeersDeliver(t)
    \/ VerifyStep
    \/ Aborted

Spec == Init /\ [][Next]_vars

(* A thread that can run runs; one turn of the event loop serves every     *)
(* ready source, the pipe, the timer and the peers' sockets.               *)
Fairness ==
    /\ WF_vars(MainStep)
    /\ WF_vars(EventStep)
    /\ WF_vars(VerifyStep)
    /\ SF_vars(Dispatch)
    /\ SF_vars(PulseBegin)
    /\ \A t \in Torrent : SF_vars(PeersDeliver(t))

FairSpec == Spec /\ Fairness
-----------------------------------------------------------------------------
TypeOK ==
    /\ tor \in [Torrent -> TorrentRec]
    /\ line \in Seq(Torrent)
    /\ pipe \in Seq(Posted)
    /\ ev.at \in {"idle", "detach", "pulse"} /\ ev.t \in Torrent \cup {None}
    /\ ev.todo \subseteq Torrent /\ ev.n \in Nat
    /\ mn.at \in {"idle", "afterVerify", "shouldQueue", "queue", "start"}
    /\ ver.at \in {"none", "top", "begin", "run", "end"}
    /\ ver.cur \in Torrent \cup {None} /\ ver.list \subseteq Torrent
    /\ crashed \in BOOLEAN

(* The verifier and the torrents agree: a torrent waits exactly when the   *)
(* verifier holds it, is checked exactly when it is the current one, is    *)
(* never both current and listed, and is never freed while held.  The      *)
(* events of verify.c and of torrent removal interleave freely here.       *)
VerifierAgrees ==
    /\ \A t \in Torrent :
         /\ tor[t].verify = "wait" <=> t \in ver.list \/ (ver.cur = t /\ ver.at = "begin")
         /\ tor[t].verify = "now" <=> ver.cur = t /\ ver.at = "run"
         /\ t \in ver.list \/ ver.cur = t => Live(t)
    /\ ver.cur \notin ver.list
    /\ ver.list # {} => ver.at # "none"

(* The order of the pipe protects a client that does not call a torrent    *)
(* any more once it has removed it: whatever other calls were posted       *)
(* before, none is still to run when the torrent is freed.  Of such a      *)
(* client only the verifier's report can meet a freed torrent.             *)
PipeOrderProtects ==
    /\ \A i \in DOMAIN pipe :
          Live(pipe[i].t) \/ pipe[i].fn = "recheckDone" \/ tor[pipe[i].t].late
    /\ mn.at # "idle" => Live(mn.t) \/ tor[mn.t].late
    /\ ev.t # None => Live(ev.t)
    /\ \A i \in DOMAIN line : Live(line[i])

(* Peers are connected only for a torrent that runs or whose stop is on    *)
(* its way: no interleaving leaves a stopped torrent transferring.         *)
StopUnderWay(t) ==
    \/ \E i \in DOMAIN pipe : pipe[i].t = t /\ pipe[i].fn \in {"stop", "remove"}
    \/ ev.at = "detach" /\ ev.t = t

PeersNeedRunning == \A t \in Torrent : tor[t].peers => tor[t].running \/ StopUnderWay(t)

Quiet == pipe = <<>> /\ ev.at = "idle" /\ mn.at = "idle" /\ ver.at = "none"

(* "Stop (pause) a torrent" (transmission.h): when nothing is left to do,  *)
(* a torrent whose last request was a stop is not running or queued.       *)
StopPauses ==
    Quiet => \A t \in Torrent :
                Live(t) /\ tor[t].paused => ~tor[t].running /\ ~tor[t].queued

(* "verifying right now... wait until that's done so we'll know what       *)
(* completeness to use/announce" (torrentStart): no peers meanwhile.       *)
VerifiedBeforePeers == \A t \in Torrent : tor[t].peers => tor[t].verify = "none"

(* What the event thread is about to run                                   *)
Runs(fn, t) ==
    EventAt("idle") /\ pipe # <<>> /\ Head(pipe) = [fn |-> fn, t |-> t]

(* assert (tr_isTorrent (tor)) of torrentRecheckDoneImpl: the report of a  *)
(* verification always finds its torrent alive.                            *)
NoFreedRecheck == \A t \in Torrent : Runs("recheckDone", t) => Live(t)

(* Every removal completes, although the event thread waits for the        *)
(* verifier with the session lock held.                                    *)
RemoveCompletes ==
    \A t \in Torrent : tor[t].deleting ~> (tor[t].mem = "freed" \/ crashed)

(* No torrent stays "checking" or "waiting to check" for ever.             *)
VerifyEnds ==
    \A t \in Torrent : (tor[t].verify # "none") ~> (tor[t].verify = "none" \/ crashed)

VerifyPosted(t) == \E i \in DOMAIN pipe : pipe[i] = [fn |-> "verify", t |-> t]

ReportToCome(t) ==
    \/ tor[t].verify # "none"
    \/ ver.cur = t /\ ver.at = "end"
    \/ \E i \in DOMAIN pipe : pipe[i] = [fn |-> "recheckDone", t |-> t]

(* A start noted (startAfterVerify) while the report of a verification is  *)
(* still to come is made when it comes, unless a stop, a removal or        *)
(* another verification is on its way, or the files have disappeared.  An  *)
(* earlier stop still in the pipe ends the verification, and the start is  *)
(* lost.  A start that main notes only after the report has run is lost    *)
(* too, since nobody looks at it any more: it is not spoken of.            *)
NotedStartMade ==
    \A t \in Torrent :
        (tor[t].startAfter /\ ReportToCome(t))
            ~> (~tor[t].startAfter \/ StopUnderWay(t) \/ VerifyPosted(t) \/ crashed)

(* A torrent shown as waiting in the download queue is started, or stops   *)
(* being a download, once the torrents before it are done.                 *)
WaitsToDownload(t) == Live(t) /\ Activity(tor[t]) = "downloadWait"

QueueServed ==
    \A t \in Torrent : WaitsToDownload(t) ~> (~WaitsToDownload(t) \/ crashed)
=============================================================================
