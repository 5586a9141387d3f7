----------------------- MODULE TorrentLifecycleProofs -----------------------
(***************************************************************************)
(* Proofs about TorrentLifecycle: the verifier and the torrents agree,     *)
(* peers are connected only for a torrent that runs or whose stop is under *)
(* way, what is posted about a torrent before its removal runs before it   *)
(* is freed, and the session's line holds the live torrents, for any set   *)
(* of torrents, any queue sizes and any pipe.                              *)
(***************************************************************************)
EXTENDS TorrentLifecycle, FoldLemmas

(* What a step may do to a torrent's record without the verifier, the pipe *)
(* or a removal taking notice.                                             *)
Mild(r, s) ==
    /\ s \in TorrentRec
    /\ s.mem = r.mem /\ s.verify = r.verify /\ s.deleting = r.deleting
    /\ r.running => s.running
    /\ s.peers => r.peers \/ s.running
    /\ r.late => s.late

(* The same of all torrents.                                               *)
Milds(T, U) == U \in [Torrent -> TorrentRec] /\ \A t \in Torrent : Mild(T[t], U[t])
-----------------------------------------------------------------------------
LEMMA MildItself == ASSUME NEW r \in TorrentRec PROVE Mild(r, r)
BY DEF Mild

LEMMA MildTrans ==
    ASSUME NEW r \in TorrentRec, NEW s, NEW q, Mild(r, s), Mild(s, q)
    PROVE  Mild(r, q)
BY DEF Mild

(* The flags that only steer starts and stops.                             *)
LEMMA FlagsMild ==
    ASSUME NEW r \in TorrentRec, NEW b \in BOOLEAN
    PROVE  /\ Mild(r, [r EXCEPT !.stopping = b])
           /\ Mild(r, [r EXCEPT !.queued = b])
           /\ Mild(r, [r EXCEPT !.startAfter = b])
           /\ Mild(r, [r EXCEPT !.seed = b])
           /\ Mild(r, [r EXCEPT !.have = b])
           /\ Mild(r, [r EXCEPT !.paused = b])
           /\ Mild(r, [r EXCEPT !.running = TRUE])
<1>1. Mild(r, [r EXCEPT !.stopping = b]) /\ Mild(r, [r EXCEPT !.queued = b])
  BY DEF Mild, TorrentRec
<1>2. Mild(r, [r EXCEPT !.startAfter = b]) /\ Mild(r, [r EXCEPT !.seed = b])
  BY DEF Mild, TorrentRec
<1>3. Mild(r, [r EXCEPT !.have = b]) /\ Mild(r, [r EXCEPT !.paused = b])
  BY DEF Mild, TorrentRec
<1>4. Mild(r, [r EXCEPT !.running = TRUE])
  BY DEF Mild, TorrentRec
<1> QED
  BY <1>1, <1>2, <1>3, <1>4

LEMMA CheckSeedLimitMild ==
    ASSUME NEW r \in TorrentRec, NEW done PROVE Mild(r, CheckSeedLimit(r, done))
<1> DEFINE b == r.stopping \/ (r.running /\ r.seed /\ done)
<1>1. b \in BOOLEAN
  OBVIOUS
<1> HIDE DEF b
<1>2. Mild(r, [r EXCEPT !.stopping = b])
  BY <1>1, FlagsMild
<1> QED
  BY <1>2 DEF CheckSeedLimit, b

LEMMA RecheckMild ==
    ASSUME NEW r \in TorrentRec, NEW done PROVE Mild(r, RecheckCompleteness(r, done))
<1> DEFINE s == [r EXCEPT !.seed = r.have]
<1>1. Mild(r, s)
  BY FlagsMild DEF TorrentRec
<1>2. Mild(r, CheckSeedLimit(s, done))
  BY <1>1, CheckSeedLimitMild, MildTrans DEF Mild
<1> QED
  BY <1>1, <1>2, MildItself DEF RecheckCompleteness

LEMMA LocalErrorMild == ASSUME NEW r \in TorrentRec, NEW gone PROVE Mild(r, LocalErrorIf(r, gone))
<1> DEFINE b == r.stopping \/ (gone /\ r.running)
<1>1. b \in BOOLEAN
  OBVIOUS
<1> HIDE DEF b
<1>2. Mild(r, [r EXCEPT !.stopping = b])
  BY <1>1, FlagsMild
<1> QED
  BY <1>2 DEF LocalErrorIf, b

(* The peers come with isRunning.                                          *)
LEMMA StartImplMild == ASSUME NEW r \in TorrentRec, NEW done PROVE Mild(r, StartImpl(r, done))
<1> DEFINE s == RecheckCompleteness(r, done)
<1>1. Mild(r, s)
  BY RecheckMild
<1>2. s \in TorrentRec /\ r.have \in BOOLEAN
  BY <1>1 DEF Mild, TorrentRec
<1> HIDE DEF s
<1>3. Mild(s, [s EXCEPT !.queued = FALSE, !.running = TRUE, !.seed = r.have, !.peers = TRUE])
  BY <1>2 DEF Mild, TorrentRec
<1> QED
  BY <1>1, <1>3, MildTrans DEF StartImpl, s

LEMMA StopImplRec ==
    ASSUME NEW r \in TorrentRec
    PROVE  /\ StopImpl(r) \in TorrentRec
           /\ StopImpl(r).mem = r.mem /\ StopImpl(r).verify = r.verify
           /\ StopImpl(r).deleting = r.deleting /\ ~StopImpl(r).peers
           /\ StopImpl(r).late = r.late
BY DEF StopImpl, TorrentRec

(* A call is noted as late if it comes behind the removal.                 *)
LEMMA CalledMild ==
    ASSUME NEW r \in TorrentRec
    PROVE  /\ Mild(r, Called(r)) /\ (r.deleting => Called(r).late)
           /\ Called(r).running = r.running /\ Called(r).peers = r.peers
BY DEF Mild, Called, TorrentRec
-----------------------------------------------------------------------------
LEMMA MildsTrans ==
    ASSUME NEW T \in [Torrent -> TorrentRec], NEW U, NEW W, Milds(T, U), Milds(U, W)
    PROVE  Milds(T, W)
BY MildTrans DEF Milds

(* One torrent's record is replaced.                                       *)
LEMMA MildAt ==
    ASSUME NEW T \in [Torrent -> TorrentRec], NEW t, NEW s, t \in Torrent => Mild(T[t], s)
    PROVE  Milds(T, [T EXCEPT ![t] = s])
BY MildItself DEF Milds, Mild

LEMMA RecheckAllMild ==
    ASSUME NEW T \in [Torrent -> TorrentRec], NEW D PROVE Milds(T, RecheckAll(T, D))
<1>1. ASSUME NEW t \in Torrent PROVE Mild(T[t], RecheckAll(T, D)[t])
  <2>1. RecheckAll(T, D)[t] \in {T[t], RecheckCompleteness(T[t], t \in D)}
    BY DEF RecheckAll
  <2> QED
    BY <2>1, MildItself, RecheckMild
<1>2. RecheckAll(T, D) \in [Torrent -> TorrentRec]
  BY <1>1 DEF RecheckAll, Mild
<1> QED
  BY <1>1, <1>2 DEF Milds

(* torrentStart, run by the event thread, whatever it meets.               *)
LEMMA StartInEventMild ==
    ASSUME NEW T \in [Torrent -> TorrentRec], NEW t, NEW bypass, NEW D, NEW gone
    PROVE  Milds(T, StartInEvent(T, t, bypass, D, gone))
<1> DEFINE counts == Activity(T[t]) = "stopped" /\ ~bypass /\ QueueEnabled(QueueDirection(T[t]))
           T1 == IF counts THEN RecheckAll(T, D) ELSE T
<1>1. Milds(T, T)
  BY MildItself DEF Milds
<1>2. Milds(T, T1) /\ T1 \in [Torrent -> TorrentRec]
  BY <1>1, RecheckAllMild DEF Milds
<1>3. Milds(T, [T EXCEPT ![t] = [@ EXCEPT !.startAfter = TRUE]])
  BY MildAt, FlagsMild
<1> HIDE DEF T1
<1>4. Milds(T1, [T1 EXCEPT ![t] = [@ EXCEPT !.queued = TRUE]])
  BY <1>2, MildAt, FlagsMild
<1>5. Milds(T1, [T1 EXCEPT ![t] = LocalErrorIf(@, TRUE)])
  BY <1>2, MildAt, LocalErrorMild
<1>6. Milds(T1, [T1 EXCEPT ![t] = StartImpl([@ EXCEPT !.running = TRUE], t \in D)])
  <2>1. ASSUME t \in Torrent PROVE Mild(T1[t], StartImpl([T1[t] EXCEPT !.running = TRUE], t \in D))
    <3>1. Mild(T1[t], [T1[t] EXCEPT !.running = TRUE])
      BY <1>2, <2>1, FlagsMild
    <3>2. [T1[t] EXCEPT !.running = TRUE] \in TorrentRec
      BY <3>1 DEF Mild
    <3> QED
      BY <1>2, <2>1, <3>1, <3>2, StartImplMild, MildTrans
  <2> QED
    BY <1>2, <2>1, MildAt
<1> QED
  BY <1>1, <1>2, <1>3, <1>4, <1>5, <1>6, MildsTrans DEF StartInEvent, T1
-----------------------------------------------------------------------------
(* The types, without those of line and of the slots counted, which come   *)
(* with the line (LInv).                                                   *)
TorTyped == tor \in [Torrent -> TorrentRec]
PipeTyped == pipe \in Seq(Posted)
EvRec(e) == e \in [at : {"idle", "detach", "pulse"}, fn : {"none", "verify", "stop", "remove", "pulse"},
                   t : Torrent \cup {None}, todo : SUBSET Torrent, dirs : SUBSET Direction,
                   dir : Direction \cup {"none"}, n : {e.n}]
EvTyped == EvRec(ev)
MnTyped == mn \in [at : {"idle", "afterVerify", "shouldQueue", "queue", "start"},
                   t : Torrent \cup {None}, bypass : BOOLEAN]
VerTyped == ver \in [at : {"none", "top", "begin", "run", "end"}, cur : Torrent \cup {None},
                     stop : BOOLEAN, list : SUBSET Torrent]
Typed == TorTyped /\ PipeTyped /\ EvTyped /\ MnTyped /\ VerTyped

(* What is posted by main is posted for a torrent of the session, and what *)
(* stands behind its removal comes from a call that was late.              *)
PipeSound ==
    \A i \in DOMAIN pipe :
        /\ pipe[i].fn # "recheckDone" =>
             tor[pipe[i].t].mem # "none" /\ (Live(pipe[i].t) \/ tor[pipe[i].t].late)
        /\ pipe[i].fn = "remove" =>
             /\ tor[pipe[i].t].deleting
             /\ \A j \in DOMAIN pipe :
                  j > i /\ pipe[j].t = pipe[i].t
                     => pipe[j].fn = "recheckDone" \/ tor[pipe[j].t].late

(* While it detaches a torrent, the event thread has it off the list, and  *)
(* asked the verifier to stop if it was at it.                             *)
EvSound ==
    /\ ev.at = "detach" =>
         /\ ev.t \in Torrent /\ Live(ev.t)
         /\ ev.t \notin ver.list /\ (ver.cur = ev.t => ver.stop)
    /\ ev.at = "detach" /\ ev.fn = "remove" =>
         /\ tor[ev.t].deleting
         /\ \A j \in DOMAIN pipe :
               pipe[j].t = ev.t => pipe[j].fn = "recheckDone" \/ tor[ev.t].late
    /\ ev.at = "detach" /\ ev.fn # "pulse" => ev.todo = {}
    /\ \A t \in ev.todo : Live(t)

(* A call about a torrent whose removal was asked for is late.             *)
MnSound ==
    mn.at # "idle" =>
        /\ mn.t \in Torrent /\ tor[mn.t].mem # "none"
        /\ Live(mn.t) \/ tor[mn.t].late
        /\ tor[mn.t].deleting => tor[mn.t].late

(* At work, the verifier has a torrent.                                    *)
VerSound == ver.at \in {"begin", "run", "end"} => ver.cur \in Torrent

(* A verification only stops what runs, so it does not count here.         *)
StopPosted(t) == \E i \in DOMAIN pipe : pipe[i].t = t /\ pipe[i].fn \in {"stop", "remove"}
Stopping(t) == ev.at = "detach" /\ ev.t = t /\ ev.fn # "verify"
PeersSound == \A t \in Torrent : tor[t].peers => tor[t].running \/ StopPosted(t) \/ Stopping(t)

IInv == Typed /\ PipeSound /\ EvSound /\ MnSound /\ VerSound /\ VerifierAgrees /\ PeersSound
-----------------------------------------------------------------------------
(* Nobody leaves the session, and what was asked for stays so.             *)
Grows ==
    \A t \in Torrent :
        /\ tor[t].mem # "none" => tor'[t].mem = tor[t].mem
        /\ tor[t].deleting => tor'[t].deleting
        /\ tor[t].late => tor'[t].late

(* The client has asked for its removal.                                   *)
Leaving(t) == tor[t].mem # "none" /\ tor[t].deleting

LEMMA MildsGrow == ASSUME Milds(tor, tor') PROVE TorTyped' /\ Grows
BY DEF Milds, Mild, TorTyped, Grows, Live

LEMMA PipeElement ==
    ASSUME PipeTyped, NEW i \in DOMAIN pipe
    PROVE  pipe[i] \in Posted /\ pipe[i].t \in Torrent
<1>1. pipe[i] \in Posted
  BY DEF PipeTyped
<1> QED
  BY <1>1 DEF Posted

LEMMA PipeKept == ASSUME PipeTyped, PipeSound, Grows, UNCHANGED pipe PROVE PipeTyped' /\ PipeSound'
<1>1. ASSUME NEW i \in DOMAIN pipe PROVE pipe[i].t \in Torrent
  BY PipeElement
<1> QED
  BY <1>1 DEF PipeTyped, PipeSound, Grows, Live

LEMMA PipeAppended ==
    ASSUME PipeTyped, PipeSound, Grows, NEW p \in Posted, pipe' = Append(pipe, p),
           p.fn # "recheckDone" => tor'[p.t].mem = "live" /\ (Leaving(p.t) => tor'[p.t].late),
           p.fn = "remove" => tor'[p.t].deleting
    PROVE  PipeTyped' /\ PipeSound'
<1>1. ASSUME NEW i \in DOMAIN pipe PROVE pipe[i].t \in Torrent
  BY PipeElement
<1>2. /\ DOMAIN pipe' = DOMAIN pipe \cup {Len(pipe) + 1}
      /\ pipe'[Len(pipe) + 1] = p
      /\ \A i \in DOMAIN pipe : pipe'[i] = pipe[i] /\ i < Len(pipe) + 1
  BY DEF PipeTyped
<1>3. PipeTyped'
  BY DEF PipeTyped
<1>4. ASSUME NEW i \in DOMAIN pipe', pipe'[i].fn # "recheckDone"
      PROVE  /\ tor'[pipe'[i].t].mem # "none"
             /\ tor'[pipe'[i].t].mem = "live" \/ tor'[pipe'[i].t].late
  BY <1>1, <1>2, <1>4 DEF PipeSound, Grows, Live
<1>5. ASSUME NEW i \in DOMAIN pipe', pipe'[i].fn = "remove" PROVE tor'[pipe'[i].t].deleting
  BY <1>1, <1>2, <1>5 DEF PipeSound, Grows
<1>6. ASSUME NEW i \in DOMAIN pipe', pipe'[i].fn = "remove", NEW j \in DOMAIN pipe', j > i,
             pipe'[j].t = pipe'[i].t
      PROVE  pipe'[j].fn = "recheckDone" \/ tor'[pipe'[j].t].late
  <2>1. i \in DOMAIN pipe
    BY <1>2, <1>6 DEF PipeTyped
  <2>2. CASE j \in DOMAIN pipe
    BY <1>1, <1>2, <1>6, <2>1, <2>2 DEF PipeSound, Grows
  <2>3. CASE j = Len(pipe) + 1
    BY <1>2, <1>6, <2>1, <2>3 DEF PipeSound, Leaving
  <2> QED
    BY <1>2, <2>2, <2>3
<1> QED
  BY <1>3, <1>4, <1>5, <1>6 DEF PipeSound, Live

(* The oldest is taken.                                                    *)
LEMMA PipeTaken ==
    ASSUME PipeTyped, PipeSound, pipe # <<>>, pipe' = Tail(pipe)
    PROVE  /\ PipeTyped' /\ Head(pipe) \in Posted
           /\ Grows => PipeSound'
           /\ Head(pipe).fn = "remove" =>
                /\ tor[Head(pipe).t].deleting
                /\ \A j \in DOMAIN pipe' :
                      pipe'[j].t = Head(pipe).t
                         => pipe'[j].fn = "recheckDone" \/ tor[Head(pipe).t].late
           /\ \A t : StopPosted(t) =>
                 StopPosted(t)' \/ (Head(pipe).t = t /\ Head(pipe).fn \in {"stop", "remove"})
<1>1. ASSUME NEW i \in DOMAIN pipe PROVE pipe[i].t \in Torrent
  BY PipeElement
<1>2. /\ 1 \in DOMAIN pipe /\ Head(pipe) = pipe[1]
      /\ PipeTyped'
      /\ \A i \in DOMAIN pipe' : i + 1 \in DOMAIN pipe /\ pipe'[i] = pipe[i + 1] /\ i + 1 > 1
      /\ \A i \in DOMAIN pipe : i = 1 \/ (i - 1 \in DOMAIN pipe' /\ pipe'[i - 1] = pipe[i])
  BY DEF PipeTyped
<1>3. Head(pipe) \in Posted
  BY <1>2 DEF PipeTyped
<1>4. ASSUME Grows PROVE PipeSound'
  <2>1. ASSUME NEW i \in DOMAIN pipe', pipe'[i].fn # "recheckDone"
        PROVE  /\ tor'[pipe'[i].t].mem # "none"
               /\ tor'[pipe'[i].t].mem = "live" \/ tor'[pipe'[i].t].late
    BY <1>1, <1>2, <1>4, <2>1 DEF PipeSound, Grows, Live
  <2>2. ASSUME NEW i \in DOMAIN pipe', pipe'[i].fn = "remove" PROVE tor'[pipe'[i].t].deleting
    BY <1>1, <1>2, <1>4, <2>2 DEF PipeSound, Grows
  <2>3. ASSUME NEW i \in DOMAIN pipe', pipe'[i].fn = "remove", NEW j \in DOMAIN pipe', j > i,
               pipe'[j].t = pipe'[i].t
        PROVE  pipe'[j].fn = "recheckDone" \/ tor'[pipe'[j].t].late
    <3>1. j + 1 > i + 1
      BY <1>2, <2>3 DEF PipeTyped
    <3> QED
      BY <1>1, <1>2, <1>4, <2>3, <3>1 DEF PipeSound, Grows
  <2> QED
    BY <2>1, <2>2, <2>3 DEF PipeSound, Live
<1>6. ASSUME Head(pipe).fn = "remove"
      PROVE  /\ tor[Head(pipe).t].deleting
             /\ \A j \in DOMAIN pipe' :
                   pipe'[j].t = Head(pipe).t
                      => pipe'[j].fn = "recheckDone" \/ tor[Head(pipe).t].late
  BY <1>2, <1>6 DEF PipeSound
<1>7. ASSUME NEW t, StopPosted(t)
      PROVE  StopPosted(t)' \/ (Head(pipe).t = t /\ Head(pipe).fn \in {"stop", "remove"})
  BY <1>2, <1>7 DEF StopPosted
<1> QED
  BY <1>2, <1>3, <1>4, <1>6, <1>7
-----------------------------------------------------------------------------
(* No torrent is verified or handed to the verifier.                       *)
Held == \A t \in Torrent : tor'[t].verify = tor[t].verify

LEMMA MildsHeld == ASSUME Milds(tor, tor') PROVE Held
BY DEF Milds, Mild, Held

LEMMA VerKept ==
    ASSUME VerTyped, VerSound, VerifierAgrees, Grows, Held, UNCHANGED ver
    PROVE  VerTyped' /\ VerSound' /\ VerifierAgrees'
<1>1. VerTyped' /\ VerSound'
  BY DEF VerTyped, VerSound
<1> QED
  BY <1>1 DEF VerTyped, VerifierAgrees, Grows, Held, Live

(* The event thread stays where it is; nothing is posted about a torrent   *)
(* being removed but a report or by a late call.                           *)
LEMMA EvKept ==
    ASSUME EvTyped, EvSound, Grows, UNCHANGED <<ev, ver>>,
           \A j \in DOMAIN pipe' :
              \/ pipe'[j].fn = "recheckDone" \/ (Leaving(pipe'[j].t) => tor'[pipe'[j].t].late)
              \/ j \in DOMAIN pipe /\ pipe'[j] = pipe[j]
    PROVE  EvTyped' /\ EvSound'
<1>1. EvTyped'
  BY DEF EvTyped, EvRec
<1>2. ev.todo \subseteq Torrent
  BY DEF EvTyped, EvRec
<1> QED
  BY <1>1, <1>2 DEF EvSound, Grows, Live, Leaving

(* It is idle or in its pulse.                                             *)
LEMMA EvFree ==
    ASSUME EvRec(ev'), ev'.at # "detach", \A t \in ev'.todo : tor'[t].mem = "live"
    PROVE  EvTyped' /\ EvSound'
BY DEF EvTyped, EvSound, EvRec, Live

(* Stops on their way stay so, and peers come only to what runs.           *)
LEMMA PeersKept ==
    ASSUME PeersSound, UNCHANGED ev,
           \A t \in Torrent : StopPosted(t) => StopPosted(t)',
           \A t \in Torrent : tor'[t].peers =>
              tor'[t].running \/ StopPosted(t)' \/ (tor[t].peers /\ ~tor[t].running)
    PROVE  PeersSound'
BY DEF PeersSound, Stopping

(* A step that touches neither the pipe, nor the verifier, nor the place   *)
(* of the event thread, and brings peers only to what runs.                *)
LEMMA StayKeeps ==
    ASSUME IInv, TorTyped', Grows, Held, UNCHANGED <<pipe, ev, ver>>, MnTyped', MnSound',
           \A t \in Torrent :
              tor'[t].peers => tor'[t].running \/ (tor[t].peers /\ ~tor[t].running)
    PROVE  IInv'
<1>1. PipeTyped' /\ PipeSound'
  BY PipeKept DEF IInv, Typed
<1>2. VerTyped' /\ VerSound' /\ VerifierAgrees'
  BY VerKept DEF IInv, Typed
<1>3. EvTyped' /\ EvSound'
  BY EvKept DEF IInv, Typed
<1>4. PeersSound'
  <2>1. \A t \in Torrent : StopPosted(t) <=> StopPosted(t)'
    BY DEF StopPosted
  <2> QED
    BY <2>1, PeersKept DEF IInv
<1> QED
  BY <1>1, <1>2, <1>3, <1>4 DEF IInv, Typed

LEMMA MildKeeps ==
    ASSUME IInv, Milds(tor, tor'), UNCHANGED <<pipe, ev, ver>>, MnTyped', MnSound'
    PROVE  IInv'
<1>1. TorTyped' /\ Grows /\ Held
  BY MildsGrow, MildsHeld
<1>2. \A t \in Torrent :
         tor'[t].peers => tor'[t].running \/ (tor[t].peers /\ ~tor[t].running)
  BY DEF Milds, Mild
<1> QED
  BY <1>1, <1>2, StayKeeps

(* main or the verifier posts p.                                           *)
LEMMA AppendKeeps ==
    ASSUME IInv, TorTyped', Grows, Held, NEW p \in Posted, pipe' = Append(pipe, p),
           UNCHANGED <<ev, ver>>, MnTyped', MnSound',
           p.fn # "recheckDone" => tor'[p.t].mem = "live" /\ (Leaving(p.t) => tor'[p.t].late),
           p.fn = "remove" => tor'[p.t].deleting,
           \A t \in Torrent :
              /\ tor'[t].peers => tor[t].peers
              /\ tor[t].running => tor'[t].running \/ (p.t = t /\ p.fn = "stop")
    PROVE  IInv'
<1>1. PipeTyped' /\ PipeSound'
  BY PipeAppended DEF IInv, Typed
<1>2. VerTyped' /\ VerSound' /\ VerifierAgrees'
  BY VerKept DEF IInv, Typed
<1>3. /\ DOMAIN pipe' = DOMAIN pipe \cup {Len(pipe) + 1}
      /\ pipe'[Len(pipe) + 1] = p
      /\ \A i \in DOMAIN pipe : pipe'[i] = pipe[i]
  BY DEF IInv, Typed, PipeTyped
<1>4. EvTyped' /\ EvSound'
  BY <1>3, EvKept DEF IInv, Typed
<1>5. PeersSound'
  <2>1. \A t \in Torrent : StopPosted(t) => StopPosted(t)'
    BY <1>3 DEF StopPosted
  <2>2. p.fn = "stop" => StopPosted(p.t)'
    BY <1>3 DEF StopPosted
  <2> QED
    BY <2>1, <2>2 DEF IInv, PeersSound, Stopping
<1> QED
  BY <1>1, <1>2, <1>4, <1>5 DEF IInv, Typed
-----------------------------------------------------------------------------
(* main's own steps.                                                       *)
LEMMA MnAfter ==
    ASSUME MnTyped, MnSound, \A t \in Torrent : tor'[t].deleting = tor[t].deleting, Grows,
           mn' \in {mn, MainIdle}
    PROVE  MnTyped' /\ MnSound'
<1>1. MnTyped'
  <2>1. CASE mn' = mn
    BY <2>1 DEF MnTyped
  <2>2. CASE mn' = MainIdle
    BY <2>2 DEF MnTyped, MainIdle
  <2> QED
    BY <2>1, <2>2
<1> QED
  BY <1>1 DEF MnSound, MainIdle, Grows, Live

LEMMA MildMn == ASSUME Milds(tor, tor') PROVE \A t \in Torrent : tor'[t].deleting = tor[t].deleting
BY DEF Milds, Mild

LEMMA MildAtOne ==
    ASSUME TorTyped, NEW t \in Torrent, NEW s, Mild(tor[t], s), tor' = [tor EXCEPT ![t] = s]
    PROVE  Milds(tor, tor')
BY MildAt DEF TorTyped

LEMMA CallStartKeeps ==
    ASSUME IInv, NEW t \in Torrent, NEW bypass \in BOOLEAN, CallStart(t, bypass) PROVE IInv'
<1> DEFINE r == [tor[t] EXCEPT !.paused = FALSE]
<1>1. r \in TorrentRec /\ Mild(tor[t], Called(r)) /\ (tor[t].deleting => Called(r).late)
  <2>1. tor[t] \in TorrentRec
    BY DEF IInv, Typed, TorTyped
  <2>2. r \in TorrentRec /\ Mild(tor[t], r) /\ r.deleting = tor[t].deleting
    BY <2>1, FlagsMild DEF Mild
  <2> HIDE DEF r
  <2> QED
    BY <2>1, <2>2, CalledMild, MildTrans
<1>9. tor' = [tor EXCEPT ![t] = Called(r)]
  BY DEF CallStart
<1> HIDE DEF r
<1>2. Milds(tor, tor')
  BY <1>1, <1>9, MildAtOne DEF IInv, Typed
<1>3. Live(t) /\ (tor'[t].deleting => tor'[t].late)
  <2>1. tor'[t] = Called(r) /\ Live(t)
    BY <1>9 DEF CallStart, MayCall, IInv, Typed, TorTyped
  <2> QED
    BY <1>1, <2>1 DEF Mild
<1>4. mn' = mn \/ \E place \in {"afterVerify", "shouldQueue", "start"} :
                     mn' = [at |-> place, t |-> t, bypass |-> bypass]
  BY DEF CallStart
<1>5. MnTyped' /\ MnSound'
  <2>1. Grows /\ \A u \in Torrent : tor'[u].deleting = tor[u].deleting
    BY <1>2, MildsGrow, MildMn
  <2>2. CASE mn' = mn
    BY <2>1, <2>2, MnAfter DEF IInv, Typed
  <2>3. ASSUME NEW place \in {"afterVerify", "shouldQueue", "start"},
               mn' = [at |-> place, t |-> t, bypass |-> bypass]
        PROVE  MnTyped' /\ MnSound'
    <3>1. tor'[t].mem = "live"
      BY <1>3, <2>1 DEF Grows, Live
    <3> QED
      BY <1>3, <2>3, <3>1 DEF MnTyped, MnSound, Live
  <2> QED
    BY <1>4, <2>2, <2>3
<1> QED
  BY <1>2, <1>5, MildKeeps DEF CallStart

LEMMA SetStartAfterVerifyKeeps == ASSUME IInv, SetStartAfterVerify PROVE IInv'
<1>1. mn.t \in Torrent
  BY DEF IInv, MnSound, SetStartAfterVerify, StartAt, MainAt
<1>2. Mild(tor[mn.t], [tor[mn.t] EXCEPT !.startAfter = TRUE])
  BY <1>1, FlagsMild DEF IInv, Typed, TorTyped
<1>3. Milds(tor, tor')
  BY <1>1, <1>2, MildAtOne DEF SetStartAfterVerify, IInv, Typed
<1>4. MnTyped' /\ MnSound'
  BY <1>3, MildsGrow, MildMn, MnAfter DEF SetStartAfterVerify, IInv, Typed
<1> QED
  BY <1>3, <1>4, MildKeeps DEF SetStartAfterVerify

LEMMA SetQueuedKeeps == ASSUME IInv, SetQueued PROVE IInv'
<1>1. mn.t \in Torrent
  BY DEF IInv, MnSound, SetQueued, StartAt, MainAt
<1>2. Mild(tor[mn.t], [tor[mn.t] EXCEPT !.queued = TRUE])
  BY <1>1, FlagsMild DEF IInv, Typed, TorTyped
<1>3. Milds(tor, tor')
  BY <1>1, <1>2, MildAtOne DEF SetQueued, IInv, Typed
<1>4. MnTyped' /\ MnSound'
  BY <1>3, MildsGrow, MildMn, MnAfter DEF SetQueued, IInv, Typed
<1> QED
  BY <1>3, <1>4, MildKeeps DEF SetQueued

LEMMA ShouldQueueKeeps == ASSUME IInv, ShouldQueue PROVE IInv'
<1>1. Milds(tor, tor')
  <2>1. Milds(tor, tor)
    BY MildItself DEF Milds, IInv, Typed, TorTyped
  <2>2. \A D : Milds(tor, RecheckAll(tor, D))
    BY RecheckAllMild DEF IInv, Typed, TorTyped
  <2> QED
    BY <2>1, <2>2 DEF ShouldQueue
<1>2. mn.at = "shouldQueue" /\ \E place \in {"start", "queue"} : mn' = [mn EXCEPT !.at = place]
  BY DEF ShouldQueue, StartAt, MainAt
<1>3. MnTyped'
  BY <1>2 DEF MnTyped, IInv, Typed
<1>4. MnSound'
  BY <1>1, <1>2, MildsGrow, MildMn DEF MnSound, MnTyped, IInv, Typed, Grows, Live
<1> QED
  BY <1>1, <1>3, <1>4, MildKeeps DEF ShouldQueue

LEMMA CallStatKeeps == ASSUME IInv, NEW t \in Torrent, CallStat(t) PROVE IInv'
<1>1. \A done : Mild(tor[t], RecheckCompleteness(tor[t], done))
  BY RecheckMild DEF IInv, Typed, TorTyped
<1>2. Milds(tor, tor')
  BY <1>1, MildAtOne DEF CallStat, IInv, Typed
<1>3. MnTyped' /\ MnSound'
  BY <1>2, MildsGrow, MildMn, MnAfter DEF CallStat, IInv, Typed
<1> QED
  BY <1>2, <1>3, MildKeeps DEF CallStat

LEMMA PeersDeliverKeeps == ASSUME IInv, NEW t \in Torrent, PeersDeliver(t) PROVE IInv'
<1>1. Mild(tor[t], [tor[t] EXCEPT !.have = TRUE])
  BY FlagsMild DEF IInv, Typed, TorTyped
<1>2. Milds(tor, tor')
  BY <1>1, MildAtOne DEF PeersDeliver, IInv, Typed
<1>3. MnTyped' /\ MnSound'
  BY <1>2, MildsGrow, MildMn, MnAfter DEF PeersDeliver, IInv, Typed
<1> QED
  BY <1>2, <1>3, MildKeeps DEF PeersDeliver
-----------------------------------------------------------------------------
(* The calls, and the report of the verifier, that post.                   *)
LEMMA CommitStartKeeps == ASSUME IInv, CommitStart PROVE IInv'
<1>1. mn.t \in Torrent /\ Live(mn.t) /\ (tor[mn.t].deleting => tor[mn.t].late)
  BY DEF IInv, MnSound, CommitStart, StartAt, MainAt
<1>2. tor[mn.t] \in TorrentRec
  BY <1>1 DEF IInv, Typed, TorTyped
<1>3. CASE UNCHANGED pipe /\ tor' = [tor EXCEPT ![mn.t] = LocalErrorIf(@, TRUE)]
  <2>1. Milds(tor, tor')
    BY <1>1, <1>2, <1>3, LocalErrorMild, MildAtOne DEF IInv, Typed
  <2>2. MnTyped' /\ MnSound'
    BY <2>1, MildsGrow, MildMn, MnAfter DEF CommitStart, IInv, Typed
  <2> QED
    BY <1>3, <2>1, <2>2, MildKeeps DEF CommitStart
<1>4. CASE Post("startImpl", mn.t) /\ tor' = [tor EXCEPT ![mn.t].running = TRUE]
  <2> DEFINE p == [fn |-> "startImpl", t |-> mn.t]
  <2>1. Mild(tor[mn.t], [tor[mn.t] EXCEPT !.running = TRUE])
    BY <1>2, FlagsMild
  <2>2. Milds(tor, tor')
    BY <1>1, <1>4, <2>1, MildAtOne DEF IInv, Typed
  <2>3. TorTyped' /\ Grows /\ Held
    BY <2>2, MildsGrow, MildsHeld
  <2>4. MnTyped' /\ MnSound'
    BY <2>2, <2>3, MildMn, MnAfter DEF CommitStart, IInv, Typed
  <2>5. p \in Posted /\ pipe' = Append(pipe, p)
    BY <1>1, <1>4 DEF Post, Posted
  <2>6. /\ p.t = mn.t /\ p.fn = "startImpl" /\ tor'[mn.t].mem = "live"
        /\ Leaving(mn.t) => tor'[mn.t].late
    BY <1>1, <2>3 DEF Grows, Leaving, Live
  <2>7. \A t \in Torrent : (tor'[t].peers => tor[t].peers) /\ (tor[t].running => tor'[t].running)
    BY <1>1, <1>2, <1>4 DEF IInv, Typed, TorTyped, TorrentRec
  <2> HIDE DEF p
  <2> QED
    BY <1>1, <2>3, <2>4, <2>5, <2>6, <2>7, AppendKeeps DEF CommitStart
<1> QED
  BY <1>3, <1>4 DEF CommitStart

(* A call changes the record of t to q, and posts p about it.              *)
LEMMA CallPosts ==
    ASSUME IInv, NEW t \in Torrent, NEW q \in TorrentRec, tor' = [tor EXCEPT ![t] = q],
           Live(t), mn.at = "idle", UNCHANGED <<ev, mn, ver>>,
           NEW p \in Posted, p.t = t, p.fn # "recheckDone", pipe' = Append(pipe, p),
           q.mem = tor[t].mem, q.verify = tor[t].verify, q.peers = tor[t].peers,
           tor[t].deleting => q.deleting /\ q.late, tor[t].late => q.late,
           p.fn = "remove" => q.deleting,
           tor[t].running => q.running \/ p.fn = "stop"
    PROVE  IInv'
<1>1. tor'[t] = q /\ \A u \in Torrent : u # t => tor'[u] = tor[u]
  BY DEF IInv, Typed, TorTyped
<1>2. TorTyped' /\ Grows /\ Held
  BY <1>1 DEF IInv, Typed, TorTyped, Grows, Held
<1>3. MnTyped' /\ MnSound'
  BY DEF MnTyped, MnSound, IInv, Typed
<1>4. p.fn # "recheckDone" => tor'[p.t].mem = "live" /\ (Leaving(p.t) => tor'[p.t].late)
  BY <1>1 DEF Live, Leaving
<1>5. p.fn = "remove" => tor'[p.t].deleting
  BY <1>1
<1>6. \A u \in Torrent :
         /\ tor'[u].peers => tor[u].peers
         /\ tor[u].running => tor'[u].running \/ (p.t = u /\ p.fn = "stop")
  BY <1>1
<1> QED
  BY <1>2, <1>3, <1>4, <1>5, <1>6, AppendKeeps

LEMMA CallStopKeeps == ASSUME IInv, NEW t \in Torrent, CallStop(t) PROVE IInv'
<1> DEFINE p == [fn |-> "stop", t |-> t]
           r == [tor[t] EXCEPT !.running = FALSE, !.stopping = FALSE, !.paused = TRUE]
           q == Called(r)
<1>1. Live(t) /\ mn.at = "idle" /\ UNCHANGED <<ev, mn, ver>> /\ tor' = [tor EXCEPT ![t] = q]
  BY DEF CallStop, MayCall, MainAt
<1>2. /\ r \in TorrentRec /\ r.mem = tor[t].mem /\ r.verify = tor[t].verify
      /\ r.peers = tor[t].peers /\ r.deleting = tor[t].deleting /\ r.late = tor[t].late
  <2>1. tor[t] \in TorrentRec
    BY DEF IInv, Typed, TorTyped
  <2> QED
    BY <2>1 DEF TorrentRec
<1> HIDE DEF r
<1>3. /\ q \in TorrentRec /\ q.mem = tor[t].mem /\ q.verify = tor[t].verify
      /\ q.peers = tor[t].peers /\ (tor[t].deleting => q.deleting /\ q.late)
      /\ (tor[t].late => q.late)
  BY <1>2, CalledMild DEF Mild
<1>4. p \in Posted /\ pipe' = Append(pipe, p) /\ p.t = t /\ p.fn = "stop"
  BY DEF CallStop, Post, Posted
<1> HIDE DEF p, q
<1> QED
  BY <1>1, <1>3, <1>4, CallPosts

LEMMA CallVerifyKeeps == ASSUME IInv, NEW t \in Torrent, CallVerify(t) PROVE IInv'
<1> DEFINE p == [fn |-> "verify", t |-> t]
           q == Called(tor[t])
<1>1. Live(t) /\ mn.at = "idle" /\ UNCHANGED <<ev, mn, ver>> /\ tor' = [tor EXCEPT ![t] = q]
  BY DEF CallVerify, MayCall, MainAt
<1>2. tor[t] \in TorrentRec
  BY DEF IInv, Typed, TorTyped
<1>3. /\ q \in TorrentRec /\ q.mem = tor[t].mem /\ q.verify = tor[t].verify
      /\ q.peers = tor[t].peers /\ (tor[t].deleting => q.deleting /\ q.late)
      /\ (tor[t].late => q.late) /\ q.running = tor[t].running
  BY <1>2, CalledMild DEF Mild
<1>4. p \in Posted /\ pipe' = Append(pipe, p) /\ p.t = t /\ p.fn = "verify"
  BY DEF CallVerify, Post, Posted
<1> HIDE DEF p, q
<1> QED
  BY <1>1, <1>3, <1>4, CallPosts

LEMMA CallRemoveKeeps == ASSUME IInv, NEW t \in Torrent, CallRemove(t) PROVE IInv'
<1> DEFINE p == [fn |-> "remove", t |-> t]
           r == Called(tor[t])
           q == [r EXCEPT !.deleting = TRUE]
<1>1. Live(t) /\ mn.at = "idle" /\ UNCHANGED <<ev, mn, ver>> /\ tor' = [tor EXCEPT ![t] = q]
  BY DEF CallRemove, MayCall, MainAt
<1>2. tor[t] \in TorrentRec
  BY DEF IInv, Typed, TorTyped
<1>3. /\ r \in TorrentRec /\ r.mem = tor[t].mem /\ r.verify = tor[t].verify
      /\ r.peers = tor[t].peers /\ (tor[t].deleting => r.late)
      /\ (tor[t].late => r.late) /\ r.running = tor[t].running
  BY <1>2, CalledMild DEF Mild
<1> HIDE DEF r
<1>4. /\ q \in TorrentRec /\ q.mem = r.mem /\ q.verify = r.verify /\ q.peers = r.peers
      /\ q.deleting /\ q.late = r.late /\ q.running = r.running
  BY <1>3 DEF TorrentRec
<1>5. p \in Posted /\ pipe' = Append(pipe, p) /\ p.t = t /\ p.fn = "remove"
  BY DEF CallRemove, Post, Posted
<1> HIDE DEF q
<1>6. /\ q.mem = tor[t].mem /\ q.verify = tor[t].verify /\ q.peers = tor[t].peers
      /\ (tor[t].deleting => q.deleting /\ q.late) /\ (tor[t].late => q.late)
      /\ (tor[t].running => q.running)
  BY <1>3, <1>4
<1> HIDE DEF p
<1> QED
  BY <1>1, <1>4, <1>5, <1>6, CallPosts

LEMMA AddTorrentKeeps == ASSUME IInv, NEW t \in Torrent, AddTorrent(t) PROVE IInv'
<1> DEFINE p == [fn |-> "verify", t |-> t]
<1>1. tor[t].mem = "none" /\ tor[t] \in TorrentRec /\ mn.at = "idle"
  BY DEF AddTorrent, MainAt, IInv, Typed, TorTyped
<1>2. MnTyped' /\ MnSound'
  BY <1>1 DEF AddTorrent, MnTyped, MnSound, IInv, Typed
<1>3. CASE Post("verify", t) /\ tor' = [tor EXCEPT ![t].mem = "live"]
  <2>1. TorTyped' /\ Grows /\ Held
    BY <1>1, <1>3 DEF TorTyped, TorrentRec, Grows, Held, Live, IInv, Typed
  <2>2. p \in Posted /\ pipe' = Append(pipe, p) /\ p.t = t /\ p.fn = "verify"
    BY <1>3 DEF Post, Posted
  <2>3. /\ tor'[t].mem = "live"
        /\ \A u \in Torrent : tor'[u].peers = tor[u].peers /\ tor'[u].running = tor[u].running
    BY <1>1, <1>3 DEF IInv, Typed, TorTyped, TorrentRec
  <2> HIDE DEF p
  <2> QED
    BY <1>1, <1>2, <2>1, <2>2, <2>3, AppendKeeps DEF AddTorrent, Leaving, Live
<1>4. ASSUME NEW complete \in BOOLEAN, UNCHANGED pipe,
             tor' = [tor EXCEPT ![t].mem = "live", ![t].have = complete, ![t].seed = complete]
      PROVE  IInv'
  <2>1. TorTyped' /\ Grows /\ Held
    BY <1>1, <1>4 DEF TorTyped, TorrentRec, Grows, Held, Live, IInv, Typed
  <2>2. \A u \in Torrent : tor'[u].peers = tor[u].peers /\ tor'[u].running = tor[u].running
    BY <1>1, <1>4 DEF IInv, Typed, TorTyped, TorrentRec
  <2> QED
    BY <1>2, <1>4, <2>1, <2>2, StayKeeps DEF AddTorrent
<1> QED
  BY <1>3, <1>4 DEF AddTorrent
-----------------------------------------------------------------------------
(* The event thread runs a posted function that stays mild.                *)
LEMMA TakeKeeps ==
    ASSUME IInv, pipe # <<>>, pipe' = Tail(pipe), Head(pipe).fn \notin {"stop", "remove"},
           Milds(tor, tor'), ev.at # "detach", UNCHANGED <<ev, mn, ver>>
    PROVE  IInv'
<1>1. TorTyped' /\ Grows /\ Held
  BY MildsGrow, MildsHeld
<1>2. PipeTyped' /\ PipeSound'
  BY <1>1, PipeTaken DEF IInv, Typed
<1>3. VerTyped' /\ VerSound' /\ VerifierAgrees'
  BY <1>1, VerKept DEF IInv, Typed
<1>4. EvTyped' /\ EvSound'
  BY <1>1, EvFree DEF IInv, Typed, EvTyped, EvRec, EvSound, Grows, Live
<1>5. MnTyped' /\ MnSound'
  BY <1>1, MildMn, MnAfter DEF IInv, Typed
<1>6. PeersSound'
  <2>1. \A t \in Torrent : StopPosted(t) => StopPosted(t)'
    BY PipeTaken DEF IInv, Typed
  <2>2. ASSUME NEW t \in Torrent, tor'[t].peers
        PROVE  tor'[t].running \/ StopPosted(t)' \/ (tor[t].peers /\ ~tor[t].running)
    BY <2>2 DEF Milds, Mild
  <2> QED
    BY <2>1, <2>2, PeersKept DEF IInv
<1> QED
  BY <1>1, <1>2, <1>3, <1>4, <1>5, <1>6 DEF IInv, Typed

LEMMA RunStartImplMild == ASSUME IInv, RunStartImpl PROVE Milds(tor, tor')
<1> DEFINE t == Head(pipe).t
<1>1. pipe # <<>> /\ Head(pipe).fn = "startImpl" /\ pipe' = Tail(pipe) /\ ev.at = "idle"
  BY DEF RunStartImpl, Dispatched, EventAt
<1>2. t \in Torrent
  BY <1>1, PipeTaken DEF IInv, Typed, Posted
<1>3. \A done : Mild(tor[t], StartImpl(tor[t], done))
  BY <1>2, StartImplMild DEF IInv, Typed, TorTyped
<1>4. PICK done \in SeedLimit : tor' = [tor EXCEPT ![t] = StartImpl(tor[t], done)]
  BY DEF RunStartImpl
<1> QED
  BY <1>2, <1>3, <1>4, MildAtOne DEF IInv, Typed

LEMMA RunStartImplKeeps == ASSUME IInv, RunStartImpl PROVE IInv'
<1>1. pipe # <<>> /\ Head(pipe).fn = "startImpl" /\ pipe' = Tail(pipe) /\ ev.at = "idle"
  BY DEF RunStartImpl, Dispatched, EventAt
<1> QED
  BY <1>1, RunStartImplMild, TakeKeeps DEF RunStartImpl

LEMMA RunRecheckDoneMild == ASSUME IInv, RunRecheckDone PROVE Milds(tor, tor')
<1> DEFINE t == Head(pipe).t
           T(D) == [tor EXCEPT ![t] = RecheckCompleteness(@, t \in D)]
           S(D) == [T(D) EXCEPT ![t].startAfter = FALSE]
<1>1. pipe # <<>> /\ Head(pipe).fn = "recheckDone" /\ pipe' = Tail(pipe) /\ ev.at = "idle"
  BY DEF RunRecheckDone, Dispatched, EventAt
<1>2. t \in Torrent /\ tor \in [Torrent -> TorrentRec]
  BY <1>1, PipeTaken DEF IInv, Typed, TorTyped, Posted
<1>3. Milds(tor, tor)
  BY <1>2, MildItself DEF Milds
<1>4. ASSUME NEW D PROVE Milds(tor, T(D)) /\ T(D) \in [Torrent -> TorrentRec]
  BY <1>2, RecheckMild, MildAt DEF Milds
<1>5. ASSUME NEW D PROVE Milds(tor, S(D)) /\ S(D) \in [Torrent -> TorrentRec]
  <2> HIDE DEF T
  <2>1. Milds(T(D), S(D))
    BY <1>2, <1>4, FlagsMild, MildAt
  <2> HIDE DEF S
  <2>2. Milds(tor, S(D))
    BY <1>2, <1>4, <2>1, MildsTrans
  <2> QED
    BY <2>2 DEF Milds
<1>6. \/ tor' = tor
      \/ \E D \in SeedDone : \E gone \in DiskLoss :
            tor' = T(D) \/ tor' = StartInEvent(S(D), t, FALSE, D, gone)
  BY DEF RunRecheckDone
<1> HIDE DEF S, T
<1> QED
  BY <1>2, <1>3, <1>4, <1>5, <1>6, StartInEventMild, MildsTrans

LEMMA RunRecheckDoneKeeps == ASSUME IInv, RunRecheckDone PROVE IInv'
<1>1. pipe # <<>> /\ Head(pipe).fn = "recheckDone" /\ pipe' = Tail(pipe) /\ ev.at = "idle"
  BY DEF RunRecheckDone, Dispatched, EventAt
<1> QED
  BY <1>1, RunRecheckDoneMild, TakeKeeps DEF RunRecheckDone
-----------------------------------------------------------------------------
(* tr_verifyRemove begins for t; T is tor after the caller's own changes,  *)
(* which may stop t if the caller is not verifyTorrent.                    *)
LEMMA DetachKeeps ==
    ASSUME IInv, NEW fn \in {"verify", "stop", "remove", "pulse"}, NEW t \in Torrent,
           NEW todo \in SUBSET Torrent, NEW T \in [Torrent -> TorrentRec],
           Detach(fn, t, todo, T), ev.at # "detach", UNCHANGED mn, Live(t),
           fn # "pulse" => todo = {}, \A u \in todo : Live(u),
           \A u \in Torrent :
              /\ T[u].mem = tor[u].mem /\ T[u].verify = tor[u].verify
              /\ T[u].deleting = tor[u].deleting /\ T[u].peers = tor[u].peers
              /\ T[u].late = tor[u].late
              /\ T[u].running = tor[u].running \/ (u = t /\ fn # "verify"),
           PipeTyped', Grows => PipeSound',
           fn = "remove" =>
              /\ tor[t].deleting
              /\ \A j \in DOMAIN pipe' :
                    pipe'[j].t = t => pipe'[j].fn = "recheckDone" \/ tor[t].late,
           \A u \in Torrent : StopPosted(u) => StopPosted(u)' \/ (u = t /\ fn # "verify")
    PROVE  IInv'
<1>1. \A u \in Torrent :
         /\ tor'[u].mem = tor[u].mem /\ tor'[u].deleting = tor[u].deleting
         /\ tor'[u].peers = tor[u].peers /\ tor'[u].late = tor[u].late
         /\ tor'[u].running = tor[u].running \/ (u = t /\ fn # "verify")
         /\ tor'[u].verify = IF u = t /\ ver.cur # t THEN "none" ELSE tor[u].verify
  BY DEF Detach, TorrentRec
<1>2. TorTyped' /\ Grows
  <2>1. TorTyped'
    BY DEF Detach, TorTyped, TorrentRec
  <2> QED
    BY <1>1, <2>1 DEF Grows, Live
<1>3. /\ ver' \in [at : {ver.at}, cur : {ver.cur}, stop : BOOLEAN, list : {ver.list \ {t}}]
      /\ ver.cur = t => ver'.stop
  <2>1. ver.cur = t => ver.list \ {t} = ver.list
    BY DEF IInv, VerifierAgrees
  <2>2. CASE ver.cur = t
    <3>1. ver' = [ver EXCEPT !.stop = TRUE]
      BY <2>2 DEF Detach
    <3> QED
      BY <2>1, <2>2, <3>1 DEF IInv, Typed, VerTyped
  <2>3. CASE ver.cur # t
    <3>1. ver' = [ver EXCEPT !.list = @ \ {t}]
      BY <2>3 DEF Detach
    <3> QED
      BY <2>3, <3>1 DEF IInv, Typed, VerTyped
  <2> QED
    BY <2>2, <2>3
<1>4. VerTyped' /\ VerSound'
  BY <1>3 DEF IInv, Typed, VerTyped, VerSound
<1>5. VerifierAgrees'
  BY <1>1, <1>3 DEF IInv, VerifierAgrees, Live
<1>6. /\ ev'.at = "detach" /\ ev'.fn = fn /\ ev'.t = t /\ ev'.todo = todo
      /\ EvTyped'
  BY DEF Detach, IInv, Typed, EvTyped, EvRec
<1>7. EvSound'
  BY <1>1, <1>3, <1>6 DEF EvSound, Live
<1>8. MnTyped' /\ MnSound'
  BY <1>1, <1>2, MnAfter DEF IInv, Typed
<1>9. PeersSound'
  BY <1>1, <1>6 DEF IInv, PeersSound, Stopping
<1> QED
  BY <1>2, <1>4, <1>5, <1>6, <1>7, <1>8, <1>9 DEF IInv, Typed

LEMMA RunDetachingKeeps == ASSUME IInv, RunDetaching PROVE IInv'
<1>1. PICK fn \in {"verify", "stop", "remove"} : Dispatched(fn) /\ Detach(fn, Head(pipe).t, {}, tor)
  BY DEF RunDetaching
<1> DEFINE t == Head(pipe).t
<1>2. pipe # <<>> /\ Head(pipe).fn = fn /\ pipe' = Tail(pipe) /\ ev.at = "idle"
  BY <1>1 DEF Dispatched, EventAt
<1>3. Head(pipe) \in Posted /\ PipeTyped' /\ (Grows => PipeSound') /\ Live(t)
  BY <1>1, <1>2, PipeTaken DEF IInv, Typed, Dispatched
<1>4. t \in Torrent /\ tor \in [Torrent -> TorrentRec] /\ UNCHANGED mn
  BY <1>3 DEF Posted, RunDetaching, IInv, Typed, TorTyped
<1>5. fn = "remove" =>
         /\ tor[t].deleting
         /\ \A j \in DOMAIN pipe' :
               pipe'[j].t = t => pipe'[j].fn = "recheckDone" \/ tor[t].late
  BY <1>2, PipeTaken DEF IInv, Typed
<1>6. \A u \in Torrent : StopPosted(u) => StopPosted(u)' \/ (u = t /\ fn # "verify")
  BY <1>2, PipeTaken DEF IInv, Typed
<1> HIDE DEF t
<1> QED
  BY <1>1, <1>2, <1>3, <1>4, <1>5, <1>6, DetachKeeps DEF t

LEMMA PulseStopKeeps == ASSUME IInv, NEW t \in Torrent, PulseStop(t) PROVE IInv'
<1> DEFINE T == [tor EXCEPT ![t].running = FALSE, ![t].stopping = FALSE]
           todo == ev.todo \ {t}
<1>1. /\ ev.at = "pulse" /\ t \in ev.todo /\ Detach("pulse", t, todo, T)
      /\ UNCHANGED <<pipe, mn>>
  BY DEF PulseStop, EventAt
<1>2. Live(t) /\ todo \in SUBSET Torrent /\ \A u \in todo : Live(u)
  BY <1>1 DEF IInv, Typed, EvTyped, EvRec, EvSound
<1>3. T \in [Torrent -> TorrentRec]
  <2>1. tor \in [Torrent -> TorrentRec] /\ tor[t] \in TorrentRec
    BY DEF IInv, Typed, TorTyped
  <2> QED
    BY <2>1 DEF TorrentRec
<1>4. \A u \in Torrent :
         /\ T[u].mem = tor[u].mem /\ T[u].verify = tor[u].verify
         /\ T[u].deleting = tor[u].deleting /\ T[u].peers = tor[u].peers
         /\ T[u].late = tor[u].late
         /\ T[u].running = tor[u].running \/ u = t
  <2> TAKE u \in Torrent
  <2>1. CASE u # t
    BY <2>1 DEF IInv, Typed, TorTyped
  <2>2. CASE u = t
    BY <2>2 DEF IInv, Typed, TorTyped, TorrentRec
  <2> QED
    BY <2>1, <2>2
<1>5. PipeTyped' /\ (Grows => PipeSound')
  BY <1>1, PipeKept DEF IInv, Typed, PipeTyped
<1>6. \A u \in Torrent : StopPosted(u) => StopPosted(u)'
  BY <1>1 DEF StopPosted
<1> HIDE DEF T, todo
<1> QED
  BY <1>1, <1>2, <1>3, <1>4, <1>5, <1>6, DetachKeeps
-----------------------------------------------------------------------------
(* The wait is over: the verifier does not hold the torrent.               *)
LEMMA DetachedFree ==
    ASSUME IInv, NEW fn, Detached(fn)
    PROVE  /\ ev.t \in Torrent /\ Live(ev.t) /\ ev.t \notin ver.list /\ ver.cur # ev.t
           /\ tor[ev.t] \in TorrentRec /\ tor[ev.t].verify = "none"
<1>1. ev.t \in Torrent /\ Live(ev.t) /\ ev.t \notin ver.list /\ ver.cur # ev.t
  BY DEF Detached, EventAt, IInv, EvSound
<1>2. tor[ev.t] \in TorrentRec
  BY <1>1 DEF IInv, Typed, TorTyped
<1>3. tor[ev.t].verify = "none"
  BY <1>1, <1>2 DEF IInv, VerifierAgrees, TorrentRec
<1> QED
  BY <1>1, <1>2, <1>3

(* The event thread ends in its pulse or idle.                             *)
LEMMA FreeKeeps ==
    ASSUME IInv, TorTyped', Grows, Held, UNCHANGED <<pipe, mn, ver>>,
           \A t \in Torrent : tor'[t].deleting = tor[t].deleting,
           EvRec(ev'), ev'.at # "detach", \A t \in ev'.todo : tor'[t].mem = "live",
           \A t \in Torrent : tor'[t].peers => tor'[t].running \/ StopPosted(t)
    PROVE  IInv'
<1>1. PipeTyped' /\ PipeSound'
  BY PipeKept DEF IInv, Typed
<1>2. VerTyped' /\ VerSound' /\ VerifierAgrees'
  BY VerKept DEF IInv, Typed
<1>3. EvTyped' /\ EvSound'
  BY EvFree
<1>4. MnTyped' /\ MnSound'
  BY MnAfter DEF IInv, Typed
<1>5. PeersSound'
  BY DEF PeersSound, StopPosted
<1> QED
  BY <1>1, <1>2, <1>3, <1>4, <1>5 DEF IInv, Typed

LEMMA IdleRec == EvRec(Idle) /\ Idle.at # "detach" /\ Idle.todo = {}
BY DEF EvRec, Idle

LEMMA PulseOrIdleRec ==
    ASSUME NEW e, EvRec(e), e.at # "detach"
    PROVE  /\ EvRec(PulseOrIdle(e)) /\ PulseOrIdle(e).at # "detach"
           /\ PulseOrIdle(e).todo \subseteq e.todo
BY IdleRec DEF PulseOrIdle

(* stopTorrent ends, for a posted stop or for the pulse.                   *)
LEMMA StopEndsKeeps ==
    ASSUME IInv, NEW fn, Detached(fn), tor' = [tor EXCEPT ![ev.t] = StopImpl(@)],
           fn # "verify", UNCHANGED <<pipe, mn, ver>>,
           EvRec(ev'), ev'.at # "detach", ev'.todo \subseteq ev.todo
    PROVE  IInv'
<1>1. ev.t \in Torrent /\ tor[ev.t] \in TorrentRec
  BY DetachedFree
<1>2. /\ StopImpl(tor[ev.t]) \in TorrentRec
      /\ StopImpl(tor[ev.t]).mem = tor[ev.t].mem
      /\ StopImpl(tor[ev.t]).verify = tor[ev.t].verify
      /\ StopImpl(tor[ev.t]).deleting = tor[ev.t].deleting /\ ~StopImpl(tor[ev.t]).peers
      /\ StopImpl(tor[ev.t]).late = tor[ev.t].late
  BY <1>1, StopImplRec
<1>3. TorTyped' /\ Grows /\ Held /\ \A t \in Torrent : tor'[t].deleting = tor[t].deleting
  BY <1>1, <1>2 DEF IInv, Typed, TorTyped, Grows, Held, Live
<1>4. \A t \in Torrent : t # ev.t => tor'[t] = tor[t]
  BY DEF IInv, Typed, TorTyped
<1>5. ~tor'[ev.t].peers
  BY <1>1, <1>2 DEF IInv, Typed, TorTyped
<1>6. \A t \in Torrent : tor'[t].peers => tor'[t].running \/ StopPosted(t)
  BY <1>4, <1>5 DEF IInv, PeersSound, Stopping
<1>7. \A t \in ev'.todo : tor'[t].mem = "live"
  BY <1>3 DEF IInv, Typed, EvTyped, EvRec, EvSound, Grows, Live
<1> QED
  BY <1>3, <1>6, <1>7, FreeKeeps

LEMMA FinishStopKeeps == ASSUME IInv, FinishStop PROVE IInv'
BY StopEndsKeeps, IdleRec DEF FinishStop

LEMMA FinishPulseStopKeeps == ASSUME IInv, FinishPulseStop PROVE IInv'
<1> DEFINE e == [ev EXCEPT !.at = "pulse", !.fn = "none", !.t = None]
<1>1. EvRec(e) /\ e.at = "pulse" /\ e.todo = ev.todo
  BY DEF EvRec, IInv, Typed, EvTyped
<1>2. ev' = PulseOrIdle(e)
  BY DEF FinishPulseStop
<1> HIDE DEF e
<1>3. EvRec(ev') /\ ev'.at # "detach" /\ ev'.todo \subseteq ev.todo
  BY <1>1, <1>2, PulseOrIdleRec
<1> QED
  BY <1>3, StopEndsKeeps DEF FinishPulseStop

LEMMA FinishVerifyKeeps == ASSUME IInv, FinishVerify PROVE IInv'
<1> DEFINE t == ev.t
           r == tor[t]
           again == (r.running \/ r.startAfter) /\ ~r.stopping
           halted == [r EXCEPT !.running = FALSE, !.stopping = FALSE]
           s == IF r.running THEN StopImpl(halted) ELSE r
<1>1. t \in Torrent /\ Live(t) /\ t \notin ver.list /\ ver.cur # t /\ r \in TorrentRec
  BY DetachedFree DEF FinishVerify
<1>2. ev.at = "detach" /\ ev.fn = "verify"
  BY DEF FinishVerify, Detached, EventAt
<1>3. /\ s \in TorrentRec /\ s.mem = "live" /\ s.verify = "none" /\ s.deleting = r.deleting
      /\ s.peers => ~r.running /\ r.peers
      /\ s.late = r.late
  <2>1. halted \in TorrentRec /\ halted.mem = r.mem /\ halted.verify = r.verify
        /\ halted.deleting = r.deleting /\ halted.late = r.late
    BY <1>1 DEF TorrentRec
  <2>2. r.mem = "live" /\ r.verify = "none"
    BY DetachedFree DEF FinishVerify, Live
  <2> HIDE DEF halted
  <2> QED
    BY <1>1, <2>1, <2>2, StopImplRec
<1>4. \A u \in Torrent : tor[u].peers => tor[u].running \/ StopPosted(u)
  BY <1>2 DEF IInv, PeersSound, Stopping
<1>5. again \in BOOLEAN
  OBVIOUS
<1> HIDE DEF s, again
<1>6. CASE UNCHANGED ver /\ tor' = [tor EXCEPT ![t] = LocalErrorIf([s EXCEPT !.startAfter = FALSE], TRUE)]
  <2> DEFINE q == LocalErrorIf([s EXCEPT !.startAfter = FALSE], TRUE)
  <2>1. Mild(s, q)
    <3>1. /\ Mild(s, [s EXCEPT !.startAfter = FALSE])
          /\ [s EXCEPT !.startAfter = FALSE] \in TorrentRec
      BY <1>3, FlagsMild DEF Mild
    <3>2. Mild([s EXCEPT !.startAfter = FALSE], q)
      BY <3>1, LocalErrorMild
    <3> HIDE DEF q
    <3> QED
      BY <1>3, <3>1, <3>2, MildTrans
  <2>2. q \in TorrentRec /\ q.mem = "live" /\ q.verify = "none" /\ q.deleting = r.deleting
        /\ (q.peers => q.running \/ (~r.running /\ r.peers)) /\ (r.late => q.late)
    BY <1>3, <2>1 DEF Mild
  <2> HIDE DEF q
  <2>3. TorTyped' /\ Grows /\ Held /\ \A u \in Torrent : tor'[u].deleting = tor[u].deleting
    BY <1>1, <1>6, <2>2, DetachedFree
       DEF FinishVerify, IInv, Typed, TorTyped, Grows, Held, Live, q
  <2>4. \A u \in Torrent : tor'[u].peers => tor'[u].running \/ StopPosted(u)
    BY <1>1, <1>4, <1>6, <2>2 DEF IInv, Typed, TorTyped, q
  <2> QED
    BY <1>6, <2>3, <2>4, IdleRec, FreeKeeps DEF FinishVerify
<1>7. CASE /\ tor' = [tor EXCEPT ![t] = [s EXCEPT !.startAfter = again, !.verify = "wait"]]
           /\ ver' = VerifyAdd(ver, t)
  <2> DEFINE q == [s EXCEPT !.startAfter = again, !.verify = "wait"]
  <2>1. q \in TorrentRec /\ q.mem = "live" /\ q.verify = "wait" /\ q.deleting = r.deleting
        /\ (q.peers => ~r.running /\ r.peers) /\ q.late = r.late
    BY <1>3, <1>5 DEF TorrentRec
  <2>2. tor' = [tor EXCEPT ![t] = q]
    BY <1>7
  <2> HIDE DEF q
  <2>3. TorTyped' /\ Grows /\ \A u \in Torrent : tor'[u].deleting = tor[u].deleting
    BY <1>1, <2>1, <2>2 DEF IInv, Typed, TorTyped, Grows, Live
  <2>4. /\ ver'.list = ver.list \cup {t} /\ ver'.cur = ver.cur
        /\ ver'.at = (IF ver.at = "none" THEN "top" ELSE ver.at)
        /\ VerTyped'
    BY <1>1, <1>7 DEF VerifyAdd, IInv, Typed, VerTyped
  <2>5. VerSound'
    BY <2>4 DEF IInv, Typed, VerTyped, VerSound
  <2>6. VerifierAgrees'
    BY <1>1, <2>1, <2>2, <2>3, <2>4 DEF IInv, Typed, TorTyped, VerTyped, VerifierAgrees, Grows, Live
  <2>7. PipeTyped' /\ PipeSound'
    BY <2>3, PipeKept DEF FinishVerify, IInv, Typed
  <2>8. EvTyped' /\ EvSound'
    BY IdleRec, EvFree DEF FinishVerify
  <2>9. MnTyped' /\ MnSound'
    BY <2>3, MnAfter DEF FinishVerify, IInv, Typed
  <2>10. PeersSound'
    BY <1>1, <1>4, <2>1, <2>2 DEF FinishVerify, IInv, Typed, TorTyped, PeersSound, StopPosted
  <2> QED
    BY <2>3, <2>4, <2>5, <2>6, <2>7, <2>8, <2>9, <2>10 DEF IInv, Typed
<1> QED
  BY <1>6, <1>7 DEF FinishVerify, s, again
-----------------------------------------------------------------------------
(* A removal is over: nothing holds the torrent any more.                  *)
LEMMA FinishRemoveKeeps == ASSUME IInv, FinishRemove PROVE IInv'
<1> DEFINE t == ev.t
           q == [StopImpl(tor[t]) EXCEPT !.running = FALSE, !.mem = "freed"]
<1>1. t \in Torrent /\ Live(t) /\ t \notin ver.list /\ ver.cur # t /\ tor[t].verify = "none"
  BY DetachedFree DEF FinishRemove
<1>2. /\ ev.at = "detach" /\ ev.fn = "remove" /\ tor[t].deleting
      /\ \A j \in DOMAIN pipe : pipe[j].t = t => pipe[j].fn = "recheckDone" \/ tor[t].late
  BY DEF FinishRemove, Detached, EventAt, IInv, EvSound
<1>3. /\ q \in TorrentRec /\ q.mem = "freed" /\ q.verify = "none" /\ q.deleting /\ ~q.peers
      /\ q.late = tor[t].late
  <2>1. tor[t] \in TorrentRec
    BY <1>1 DEF IInv, Typed, TorTyped
  <2> QED
    BY <1>1, <1>2, <2>1 DEF StopImpl, TorrentRec
<1>4. tor' = [tor EXCEPT ![t] = q] /\ ev' = Idle /\ UNCHANGED <<pipe, mn, ver>>
  BY DEF FinishRemove
<1> HIDE DEF q
<1>5. TorTyped' /\ tor'[t] = q /\ \A u \in Torrent : u # t => tor'[u] = tor[u]
  BY <1>1, <1>3, <1>4 DEF IInv, Typed, TorTyped
<1>6. PipeTyped' /\ PipeSound'
  <2>1. PipeTyped'
    BY <1>4 DEF IInv, Typed, PipeTyped
  <2>2. \A i \in DOMAIN pipe : pipe[i].t \in Torrent
    BY PipeElement DEF IInv, Typed
  <2> QED
    BY <1>2, <1>3, <1>4, <1>5, <2>1, <2>2 DEF IInv, PipeSound, Live
<1>7. EvTyped' /\ EvSound'
  BY <1>4, IdleRec, EvFree
<1>8. MnTyped' /\ MnSound'
  BY <1>2, <1>3, <1>4, <1>5 DEF IInv, Typed, MnTyped, MnSound, Live
<1>9. VerTyped' /\ VerSound' /\ VerifierAgrees'
  <2>1. VerTyped' /\ VerSound'
    BY <1>4 DEF IInv, Typed, VerTyped, VerSound
  <2> QED
    BY <1>1, <1>3, <1>4, <1>5, <2>1 DEF IInv, VerifierAgrees, Live
<1>10. PeersSound'
  BY <1>3, <1>4, <1>5 DEF IInv, PeersSound, Stopping, StopPosted
<1> QED
  BY <1>5, <1>6, <1>7, <1>8, <1>9, <1>10 DEF IInv, Typed
-----------------------------------------------------------------------------
(* The pulse, between two stops.                                           *)
LEMMA PulseKeeps ==
    ASSUME IInv, Milds(tor, tor'), UNCHANGED <<pipe, mn, ver>>, ev.at # "detach",
           EvRec(ev'), ev'.at # "detach", \A t \in ev'.todo : Live(t)
    PROVE  IInv'
<1>1. TorTyped' /\ Grows /\ Held /\ \A t \in Torrent : tor'[t].deleting = tor[t].deleting
  BY MildsGrow, MildsHeld, MildMn
<1>2. \A t \in ev'.todo : tor'[t].mem = "live"
  BY <1>1 DEF Grows, EvRec, Live
<1>3. \A t \in Torrent : tor'[t].peers => tor'[t].running \/ StopPosted(t)
  BY DEF Milds, Mild, IInv, PeersSound, Stopping
<1> QED
  BY <1>1, <1>2, <1>3, FreeKeeps

LEMMA UpkeepMild ==
    ASSUME TorTyped, NEW t \in Torrent, NEW done, NEW check
    PROVE  Mild(tor[t], Upkeep(t, done, check))
<1> DEFINE r == CheckSeedLimit(tor[t], done)
<1>1. Mild(tor[t], r) /\ r \in TorrentRec
  BY CheckSeedLimitMild DEF TorTyped, Mild
<1>2. Mild(r, RecheckCompleteness(r, done))
  BY <1>1, RecheckMild
<1> QED
  BY <1>1, <1>2, MildTrans DEF TorTyped, Upkeep

LEMMA PulseBeginMild ==
    ASSUME IInv, PulseBegin
    PROVE  Milds(tor, tor') /\ EvRec(ev') /\ ev'.at # "detach" /\ \A t \in ev'.todo : Live(t)
<1> DEFINE T(D, checked) ==
             [t \in Torrent |-> IF Live(t) THEN Upkeep(t, t \in D, t \in checked) ELSE tor[t]]
           e(D, checked) ==
             [Idle EXCEPT !.at = "pulse",
                          !.todo = { t \in Torrent : Live(t) /\ T(D, checked)[t].stopping },
                          !.dirs = { d \in Direction : QueueEnabled(d) }]
<1>1. PICK D \in SeedDone, checked \in SUBSET { t \in Torrent : tor[t].have # tor[t].seed } :
         tor' = T(D, checked) /\ ev' = PulseOrIdle(e(D, checked))
  BY DEF PulseBegin
<1>2. Milds(tor, T(D, checked))
  <2>1. ASSUME NEW t \in Torrent PROVE Mild(tor[t], T(D, checked)[t])
    <3>1. T(D, checked)[t] \in {tor[t], Upkeep(t, t \in D, t \in checked)}
      OBVIOUS
    <3> QED
      BY <3>1, MildItself, UpkeepMild DEF IInv, Typed, TorTyped
  <2>2. T(D, checked) \in [Torrent -> TorrentRec]
    BY <2>1 DEF Mild
  <2> QED
    BY <2>1, <2>2 DEF Milds
<1>3. /\ EvRec(e(D, checked)) /\ e(D, checked).at = "pulse"
      /\ \A t \in e(D, checked).todo : Live(t)
  <2> DEFINE todo == { t \in Torrent : Live(t) /\ T(D, checked)[t].stopping }
             dirs == { d \in Direction : QueueEnabled(d) }
  <2>1. todo \in SUBSET Torrent /\ dirs \in SUBSET Direction /\ \A t \in todo : Live(t)
    OBVIOUS
  <2> HIDE DEF todo, dirs
  <2>2. [Idle EXCEPT !.at = "pulse", !.todo = todo, !.dirs = dirs] = e(D, checked)
    BY DEF todo, dirs
  <2>3. /\ EvRec([Idle EXCEPT !.at = "pulse", !.todo = todo, !.dirs = dirs])
        /\ [Idle EXCEPT !.at = "pulse", !.todo = todo, !.dirs = dirs].at = "pulse"
        /\ [Idle EXCEPT !.at = "pulse", !.todo = todo, !.dirs = dirs].todo = todo
    BY <2>1 DEF EvRec, Idle
  <2> HIDE DEF e
  <2> QED
    BY <2>1, <2>2, <2>3
<1> HIDE DEF T, e
<1> QED
  BY <1>1, <1>2, <1>3, PulseOrIdleRec

LEMMA PulseBeginKeeps == ASSUME IInv, PulseBegin PROVE IInv'
BY PulseBeginMild, PulseKeeps DEF PulseBegin, EventAt

LEMMA CountSlotsMild == ASSUME IInv, CountSlots PROVE Milds(tor, tor')
BY RecheckAllMild DEF CountSlots, IInv, Typed, TorTyped

LEMMA CountSlotsKeeps == ASSUME IInv, CountSlots PROVE IInv'
<1> DEFINE d == IF "up" \in ev.dirs THEN "up" ELSE "down"
           e(D) == [ev EXCEPT !.dir = d, !.dirs = @ \ {d}, !.n = FreeSlots(RecheckAll(tor, D), d)]
<1>1. PICK D \in SeedDone : tor' = RecheckAll(tor, D) /\ ev' = PulseOrIdle(e(D))
  BY DEF CountSlots
<1>2. ev.at = "pulse" /\ UNCHANGED <<pipe, mn, ver>>
  BY DEF CountSlots, EventAt
<1>3. Milds(tor, tor')
  BY CountSlotsMild
<1>4. EvRec(e(D)) /\ e(D).at = "pulse" /\ e(D).todo = ev.todo
  BY <1>2 DEF IInv, Typed, EvTyped, EvRec, Direction
<1> HIDE DEF e
<1>5. EvRec(ev') /\ ev'.at # "detach" /\ \A t \in ev'.todo : Live(t)
  BY <1>1, <1>4, PulseOrIdleRec DEF IInv, EvSound
<1> QED
  BY <1>2, <1>3, <1>5, PulseKeeps

LEMMA StartQueuedMild == ASSUME IInv, StartQueued PROVE Milds(tor, tor')
<1>1. Milds(tor, tor)
  BY MildItself DEF Milds, IInv, Typed, TorTyped
<1>2. UNCHANGED tor \/ \E t, D, gone : tor' = StartInEvent(tor, t, TRUE, D, gone)
  BY DEF StartQueued
<1> QED
  BY <1>1, <1>2, StartInEventMild DEF IInv, Typed, TorTyped

LEMMA StartQueuedKeeps == ASSUME IInv, StartQueued PROVE IInv'
<1> DEFINE e(n) == [ev EXCEPT !.n = n]
<1>1. PICK n : ev' = PulseOrIdle(e(n))
  BY DEF StartQueued
<1>2. ev.at = "pulse" /\ UNCHANGED <<pipe, mn, ver>>
  BY DEF StartQueued, EventAt
<1>3. Milds(tor, tor')
  BY StartQueuedMild
<1>4. EvRec(e(n)) /\ e(n).at = "pulse" /\ e(n).todo = ev.todo
  BY <1>2 DEF IInv, Typed, EvTyped, EvRec
<1> HIDE DEF e
<1>5. EvRec(ev') /\ ev'.at # "detach" /\ \A t \in ev'.todo : Live(t)
  BY <1>1, <1>4, PulseOrIdleRec DEF IInv, EvSound
<1> QED
  BY <1>2, <1>3, <1>5, PulseKeeps
-----------------------------------------------------------------------------
(* The verify thread.                                                      *)
LEMMA VerifyNextKeeps == ASSUME IInv, VerifyNext PROVE IInv'
<1>1. ver.at = "top" /\ UNCHANGED <<tor, pipe, ev, mn>>
  BY DEF VerifyNext, VerifierAt
<1>2. /\ TorTyped' /\ PipeTyped' /\ PipeSound' /\ EvTyped' /\ MnTyped' /\ MnSound' /\ PeersSound'
  BY <1>1 DEF IInv, Typed, TorTyped, PipeTyped, PipeSound, EvTyped, EvRec, MnTyped, MnSound,
              PeersSound, StopPosted, Stopping, Live
<1>3. CASE ver.list = {} /\ ver' = [ver EXCEPT !.stop = FALSE, !.cur = None, !.at = "none"]
  <2>1. /\ VerTyped' /\ VerSound'
        /\ ver'.cur = None /\ ver'.list = {} /\ ver'.at = "none"
    BY <1>3 DEF IInv, Typed, VerTyped, VerSound
  <2>2. None \notin Torrent
    BY LifecycleAssumption
  <2>3. VerifierAgrees'
    BY <1>1, <1>3, <2>1, <2>2 DEF IInv, VerifierAgrees, Live
  <2>4. EvSound'
    BY <1>1, <2>1, <2>2 DEF IInv, EvSound, Live
  <2> QED
    BY <1>2, <2>1, <2>3, <2>4 DEF IInv, Typed
<1>4. ASSUME NEW t \in ver.list,
             ver' = [at |-> "begin", cur |-> t, stop |-> FALSE, list |-> ver.list \ {t}]
      PROVE  IInv'
  <2>1. VerTyped' /\ VerSound' /\ t \in Torrent
    BY <1>4 DEF IInv, Typed, VerTyped, VerSound
  <2>2. VerifierAgrees'
    BY <1>1, <1>4, <2>1 DEF IInv, VerifierAgrees, Live
  <2>3. EvSound'
    BY <1>1, <1>4 DEF IInv, EvSound, Live
  <2> QED
    BY <1>2, <2>1, <2>2, <2>3 DEF IInv, Typed
<1> QED
  BY <1>3, <1>4 DEF VerifyNext

(* It marks or unmarks the torrent it is at: only "verify" and "have"      *)
(* change, and the place of the verifier.                                  *)
LEMMA VerifyMarks ==
    ASSUME IInv, NEW q \in TorrentRec, tor' = [tor EXCEPT ![ver.cur] = q],
           ver.at \in {"begin", "run"}, NEW place \in {"run", "end"},
           ver' = [ver EXCEPT !.at = place], UNCHANGED <<pipe, ev, mn>>,
           q.mem = tor[ver.cur].mem, q.deleting = tor[ver.cur].deleting,
           q.late = tor[ver.cur].late,
           q.running = tor[ver.cur].running, q.peers = tor[ver.cur].peers,
           q.verify = IF place = "run" THEN "now" ELSE "none"
    PROVE  IInv'
<1>1. ver.cur \in Torrent
  BY DEF IInv, VerSound
<1>2. /\ TorTyped'
      /\ \A t \in Torrent :
           /\ tor'[t].mem = tor[t].mem /\ tor'[t].deleting = tor[t].deleting
           /\ tor'[t].late = tor[t].late
           /\ tor'[t].running = tor[t].running /\ tor'[t].peers = tor[t].peers
           /\ tor'[t].verify = IF t = ver.cur THEN q.verify ELSE tor[t].verify
  BY <1>1 DEF IInv, Typed, TorTyped
<1>3. Grows
  BY <1>2 DEF Grows, Live
<1>4. PipeTyped' /\ PipeSound'
  BY <1>3, PipeKept DEF IInv, Typed
<1>5. /\ ver'.cur = ver.cur /\ ver'.list = ver.list /\ ver'.stop = ver.stop /\ ver'.at = place
      /\ VerTyped' /\ VerSound'
  BY <1>1 DEF IInv, Typed, VerTyped, VerSound
<1>6. VerifierAgrees'
  BY <1>1, <1>2, <1>5 DEF IInv, VerifierAgrees, Live
<1>7. EvTyped' /\ EvSound'
  <2>1. EvTyped'
    BY DEF IInv, Typed, EvTyped, EvRec
  <2>2. ev.todo \subseteq Torrent
    BY DEF IInv, Typed, EvTyped, EvRec
  <2> QED
    BY <1>2, <1>5, <2>1, <2>2 DEF IInv, EvSound, Live
<1>8. MnTyped' /\ MnSound'
  BY <1>2, <1>3, MnAfter DEF IInv, Typed
<1>9. PeersSound'
  BY <1>2 DEF IInv, PeersSound, StopPosted, Stopping
<1> QED
  BY <1>2, <1>4, <1>5, <1>6, <1>7, <1>8, <1>9 DEF IInv, Typed

LEMMA VerifyBeginKeeps == ASSUME IInv, VerifyBegin PROVE IInv'
<1> DEFINE q == [tor[ver.cur] EXCEPT !.verify = "now"]
<1>1. ver.at = "begin" /\ ver.cur \in Torrent /\ tor[ver.cur] \in TorrentRec
  BY DEF VerifyBegin, VerifierAt, IInv, VerSound, Typed, TorTyped
<1>2. /\ q \in TorrentRec /\ q.verify = "now"
      /\ q.mem = tor[ver.cur].mem /\ q.deleting = tor[ver.cur].deleting
      /\ q.late = tor[ver.cur].late
      /\ q.running = tor[ver.cur].running /\ q.peers = tor[ver.cur].peers
  BY <1>1 DEF TorrentRec
<1>3. tor' = [tor EXCEPT ![ver.cur] = q]
  BY DEF VerifyBegin
<1> HIDE DEF q
<1> QED
  BY <1>1, <1>2, <1>3, VerifyMarks DEF VerifyBegin

LEMMA VerifyEndKeeps == ASSUME IInv, VerifyEnd PROVE IInv'
<1>1. ver.at = "run" /\ ver.cur \in Torrent /\ tor[ver.cur] \in TorrentRec
  BY DEF VerifyEnd, VerifierAt, IInv, VerSound, Typed, TorTyped
<1>2. PICK found \in BOOLEAN :
         tor' = [tor EXCEPT ![ver.cur].have = found, ![ver.cur].verify = "none"]
  BY DEF VerifyEnd
<1> DEFINE q == [tor[ver.cur] EXCEPT !.have = found, !.verify = "none"]
<1>3. /\ q \in TorrentRec /\ q.verify = "none"
      /\ q.mem = tor[ver.cur].mem /\ q.deleting = tor[ver.cur].deleting
      /\ q.late = tor[ver.cur].late
      /\ q.running = tor[ver.cur].running /\ q.peers = tor[ver.cur].peers
  BY <1>1 DEF TorrentRec
<1>4. tor' = [tor EXCEPT ![ver.cur] = q]
  BY <1>1, <1>2 DEF IInv, Typed, TorTyped
<1> HIDE DEF q
<1> QED
  BY <1>1, <1>3, <1>4, VerifyMarks DEF VerifyEnd

LEMMA VerifyReportKeeps == ASSUME IInv, VerifyReport PROVE IInv'
<1>1. /\ ver.at = "end" /\ ver.cur \in Torrent /\ ver' = [ver EXCEPT !.at = "top"]
      /\ UNCHANGED <<tor, ev, mn>>
  BY DEF VerifyReport, VerifierAt, IInv, VerSound
<1>2. /\ ver'.cur = ver.cur /\ ver'.list = ver.list /\ ver'.stop = ver.stop /\ ver'.at = "top"
      /\ VerTyped' /\ VerSound'
  BY <1>1 DEF IInv, Typed, VerTyped, VerSound
<1>3. VerifierAgrees'
  BY <1>1, <1>2 DEF IInv, VerifierAgrees, Live
<1>4. TorTyped' /\ EvTyped' /\ MnTyped' /\ MnSound' /\ Grows
  BY <1>1 DEF IInv, Typed, TorTyped, EvTyped, EvRec, MnTyped, MnSound, Grows, Live
<1>5. CASE UNCHANGED pipe
  BY <1>1, <1>2, <1>3, <1>4, <1>5
     DEF IInv, Typed, PipeTyped, PipeSound, EvSound, PeersSound, StopPosted, Stopping, Live
<1>6. CASE Post("recheckDone", ver.cur)
  <2> DEFINE p == [fn |-> "recheckDone", t |-> ver.cur]
  <2>1. p \in Posted /\ pipe' = Append(pipe, p) /\ p.fn = "recheckDone"
    BY <1>1, <1>6 DEF Post, Posted
  <2> HIDE DEF p
  <2>2. PipeTyped' /\ PipeSound'
    BY <1>4, <2>1, PipeAppended DEF IInv, Typed
  <2>3. /\ DOMAIN pipe' = DOMAIN pipe \cup {Len(pipe) + 1}
        /\ pipe'[Len(pipe) + 1] = p
        /\ \A i \in DOMAIN pipe : pipe'[i] = pipe[i]
    BY <2>1 DEF IInv, Typed, PipeTyped
  <2>4. EvSound'
    BY <1>1, <1>2, <2>1, <2>3 DEF IInv, EvSound, Live
  <2>5. PeersSound'
    BY <1>1, <2>3 DEF IInv, PeersSound, StopPosted, Stopping
  <2> QED
    BY <1>2, <1>3, <1>4, <2>2, <2>4, <2>5 DEF IInv, Typed
<1> QED
  BY <1>5, <1>6 DEF VerifyReport
-----------------------------------------------------------------------------
LEMMA InitIInv == ASSUME Init PROVE IInv
<1>1. TorTyped /\ \A t \in Torrent : tor[t].verify = "none" /\ ~tor[t].peers
  BY DEF Init, TorTyped, TorrentRec
<1>2. PipeTyped /\ PipeSound
  BY DEF Init, PipeTyped, PipeSound
<1>3. EvTyped /\ EvSound
  BY DEF Init, Idle, EvTyped, EvRec, EvSound
<1>4. MnTyped /\ MnSound
  BY DEF Init, MainIdle, MnTyped, MnSound
<1>5. VerTyped /\ VerSound
  BY DEF Init, VerTyped, VerSound
<1>6. VerifierAgrees
  BY <1>1, LifecycleAssumption DEF Init, VerifierAgrees
<1>7. PeersSound
  BY <1>1 DEF PeersSound
<1> QED
  BY <1>1, <1>2, <1>3, <1>4, <1>5, <1>6, <1>7 DEF IInv, Typed

LEMMA MeetsFreedKeeps == ASSUME IInv, StartMeetsFreed \/ PostedMeetsFreed PROVE IInv'
<1>1. UNCHANGED <<tor, pipe, ev, mn, ver>>
  BY DEF StartMeetsFreed, PostedMeetsFreed
<1> QED
  BY <1>1 DEF IInv, Typed, TorTyped, PipeTyped, PipeSound, EvTyped, EvRec, EvSound,
              MnTyped, MnSound, VerTyped, VerSound, VerifierAgrees, PeersSound, StopPosted,
              Stopping, Live

LEMMA NextIInv == ASSUME IInv, [Next]_vars PROVE IInv'
<1>1. CASE Client
  <2>1. PICK t \in Torrent :
           \/ AddTorrent(t)
           \/ \E bypass \in BOOLEAN : CallStart(t, bypass)
           \/ CallStop(t) \/ CallVerify(t) \/ CallRemove(t) \/ CallStat(t)
    BY <1>1 DEF Client
  <2> QED
    BY <2>1, AddTorrentKeeps, CallStartKeeps, CallStopKeeps, CallVerifyKeeps,
       CallRemoveKeeps, CallStatKeeps
<1>2. CASE MainStep
  BY <1>2, SetStartAfterVerifyKeeps, ShouldQueueKeeps, SetQueuedKeeps, CommitStartKeeps,
     MeetsFreedKeeps DEF MainStep
<1>3. CASE Dispatch
  BY <1>3, RunStartImplKeeps, RunRecheckDoneKeeps, RunDetachingKeeps, MeetsFreedKeeps
     DEF Dispatch
<1>4. CASE PulseBegin
  BY <1>4, PulseBeginKeeps
<1>5. CASE EventStep
  BY <1>5, FinishVerifyKeeps, FinishStopKeeps, FinishRemoveKeeps, FinishPulseStopKeeps,
     PulseStopKeeps, CountSlotsKeeps, StartQueuedKeeps DEF EventStep
<1>6. CASE \E t \in Torrent : PeersDeliver(t)
  BY <1>6, PeersDeliverKeeps
<1>7. CASE VerifyStep
  BY <1>7, VerifyNextKeeps, VerifyBeginKeeps, VerifyEndKeeps, VerifyReportKeeps DEF VerifyStep
<1>8. CASE UNCHANGED vars
  BY <1>8 DEF vars, IInv, Typed, TorTyped, PipeTyped, PipeSound, EvTyped, EvRec, EvSound,
              MnTyped, MnSound, VerTyped, VerSound, VerifierAgrees, PeersSound, StopPosted,
              Stopping, Live
<1> QED
  BY <1>1, <1>2, <1>3, <1>4, <1>5, <1>6, <1>7, <1>8 DEF Next, Aborted

LEMMA Inductive == Spec => []IInv
<1>1. Init => IInv
  BY InitIInv
<1>2. IInv /\ [Next]_vars => IInv'
  BY NextIInv
<1> QED
  BY <1>1, <1>2, PTL DEF Spec

(* verify.c and the torrents never disagree about what is verified, and    *)
(* no torrent is freed while the verifier holds it.                        *)
THEOREM VerifierNeverDisagrees == Spec => []VerifierAgrees
<1>1. IInv => VerifierAgrees
  BY DEF IInv
<1> QED
  BY <1>1, Inductive, PTL

(* A torrent with peers runs, or its stop is under way.                    *)
THEOREM StoppedLoseTheirPeers == Spec => []PeersNeedRunning
<1>1. IInv => PeersNeedRunning
  BY DEF IInv, PeersSound, PeersNeedRunning, StopPosted, Stopping, StopUnderWay
<1> QED
  BY <1>1, Inductive, PTL
-----------------------------------------------------------------------------
(* The session's line: it holds every live torrent, once, and nothing      *)
(* else.  The event thread is about a torrent only while it detaches one.  *)
LineSound ==
    /\ line \in Seq(Torrent)
    /\ \A i \in 1 .. Len(line) : Live(line[i])
    /\ \A i, j \in 1 .. Len(line) : line[i] = line[j] => i = j
    /\ \A t \in Torrent : Live(t) => \E i \in 1 .. Len(line) : line[i] = t

(* In its pulse it has something left to do, and pumps only the queues     *)
(* that have a limit: what CountSlots subtracts from is a number.          *)
EvRest(e) ==
    /\ e.n \in Nat
    /\ e.at # "detach" => e.t = None
    /\ \A d \in e.dirs : QueueEnabled(d)
    /\ e.at = "pulse" => ~(e.todo = {} /\ e.dirs = {} /\ e.n = 0)

LInv == LineSound /\ EvRest(ev) /\ crashed \in BOOLEAN

(* Nobody enters or leaves the session.                                    *)
LineStays == UNCHANGED line /\ \A t \in Torrent : tor'[t].mem = tor[t].mem

LEMMA LineKept == ASSUME LineSound, LineStays PROVE LineSound'
<1>1. \A i \in 1 .. Len(line) : line[i] \in Torrent
  BY DEF LineSound
<1> QED
  BY <1>1 DEF LineSound, LineStays, Live

LEMMA OneReplaced ==
    ASSUME TorTyped, UNCHANGED line, NEW t, NEW s, tor' = [tor EXCEPT ![t] = s],
           t \in Torrent => s.mem = tor[t].mem
    PROVE  LineStays
BY DEF LineStays, TorTyped

LEMMA MildsStay == ASSUME Milds(tor, tor'), UNCHANGED line PROVE LineStays
BY DEF Milds, Mild, LineStays

LEMMA ClientStays ==
    ASSUME IInv, NEW t \in Torrent, NEW bypass \in BOOLEAN,
           CallStart(t, bypass) \/ CallStop(t) \/ CallVerify(t) \/ CallRemove(t)
              \/ CallStat(t) \/ PeersDeliver(t)
    PROVE  LineStays
<1>1. tor \in [Torrent -> TorrentRec] /\ tor[t] \in TorrentRec
  BY DEF IInv, Typed, TorTyped
<1>2. /\ Called([tor[t] EXCEPT !.paused = FALSE]).mem = tor[t].mem
      /\ [Called(tor[t]) EXCEPT !.deleting = TRUE].mem = tor[t].mem
      /\ Called(tor[t]).mem = tor[t].mem
      /\ [tor[t] EXCEPT !.have = TRUE].mem = tor[t].mem
      /\ Called([tor[t] EXCEPT !.running = FALSE, !.stopping = FALSE, !.paused = TRUE]).mem
            = tor[t].mem
  BY <1>1 DEF TorrentRec, Called
<1>3. \A done : RecheckCompleteness(tor[t], done).mem = tor[t].mem
  BY <1>1, RecheckMild DEF Mild
<1>4. CASE CallStart(t, bypass)
  BY <1>2, <1>4, OneReplaced DEF CallStart, IInv, Typed
<1>5. CASE CallStop(t)
  <2> DEFINE s == Called([tor[t] EXCEPT !.running = FALSE, !.stopping = FALSE, !.paused = TRUE])
  <2>1. tor' = [tor EXCEPT ![t] = s] /\ s.mem = tor[t].mem /\ UNCHANGED line
    BY <1>1, <1>2, <1>5 DEF CallStop
  <2> HIDE DEF s
  <2> QED
    BY <2>1, OneReplaced DEF IInv, Typed
<1>6. CASE CallVerify(t)
  BY <1>2, <1>6, OneReplaced DEF CallVerify, IInv, Typed
<1>7. CASE CallRemove(t)
  BY <1>2, <1>7, OneReplaced DEF CallRemove, IInv, Typed
<1>8. CASE CallStat(t)
  BY <1>3, <1>8, OneReplaced DEF CallStat, IInv, Typed
<1>9. CASE PeersDeliver(t)
  BY <1>2, <1>9, OneReplaced DEF PeersDeliver, IInv, Typed
<1> QED
  BY <1>4, <1>5, <1>6, <1>7, <1>8, <1>9

LEMMA MainStays == ASSUME IInv, MainStep PROVE LineStays
<1>1. mn.t \in Torrent /\ UNCHANGED line
  BY DEF IInv, MnSound, MainStep, SetStartAfterVerify, ShouldQueue, SetQueued, CommitStart,
         StartMeetsFreed, StartAt, MainAt
<1>2. tor \in [Torrent -> TorrentRec] /\ tor[mn.t] \in TorrentRec
  BY <1>1 DEF IInv, Typed, TorTyped
<1>3. /\ [tor[mn.t] EXCEPT !.startAfter = TRUE].mem = tor[mn.t].mem
      /\ [tor[mn.t] EXCEPT !.queued = TRUE].mem = tor[mn.t].mem
      /\ [tor[mn.t] EXCEPT !.running = TRUE].mem = tor[mn.t].mem
      /\ LocalErrorIf(tor[mn.t], TRUE).mem = tor[mn.t].mem
  BY <1>2 DEF TorrentRec, LocalErrorIf
<1>4. CASE SetStartAfterVerify
  BY <1>1, <1>3, <1>4, OneReplaced DEF SetStartAfterVerify, IInv, Typed
<1>5. CASE ShouldQueue
  <2>1. UNCHANGED tor \/ \E D : tor' = RecheckAll(tor, D)
    BY <1>5 DEF ShouldQueue
  <2>2. CASE UNCHANGED tor
    BY <1>1, <2>2 DEF LineStays
  <2>3. ASSUME NEW D, tor' = RecheckAll(tor, D) PROVE LineStays
    BY <1>1, <1>2, <2>3, RecheckAllMild, MildsStay
  <2> QED
    BY <2>1, <2>2, <2>3
<1>6. CASE SetQueued
  BY <1>1, <1>3, <1>6, OneReplaced DEF SetQueued, IInv, Typed
<1>7. CASE CommitStart
  BY <1>1, <1>3, <1>7, OneReplaced DEF CommitStart, IInv, Typed
<1>8. CASE StartMeetsFreed
  BY <1>8 DEF StartMeetsFreed, LineStays
<1> QED
  BY <1>4, <1>5, <1>6, <1>7, <1>8 DEF MainStep

LEMMA VerifierStays == ASSUME IInv, VerifyStep PROVE LineStays
<1>1. CASE VerifyNext \/ VerifyReport
  BY <1>1 DEF VerifyNext, VerifyReport, LineStays
<1>2. ASSUME ver.cur \in Torrent
      PROVE  /\ [tor[ver.cur] EXCEPT !.verify = "now"].mem = tor[ver.cur].mem
             /\ \A b \in BOOLEAN :
                   [tor[ver.cur] EXCEPT !.have = b, !.verify = "none"].mem = tor[ver.cur].mem
  <2>1. tor[ver.cur] \in TorrentRec
    BY <1>2 DEF IInv, Typed, TorTyped
  <2> QED
    BY <2>1 DEF TorrentRec
<1>3. CASE VerifyBegin
  BY <1>2, <1>3, OneReplaced DEF VerifyBegin, VerifierAt, IInv, Typed, VerSound
<1>4. CASE VerifyEnd
  <2>1. PICK b \in BOOLEAN :
           tor' = [tor EXCEPT ![ver.cur].have = b, ![ver.cur].verify = "none"]
    BY <1>4 DEF VerifyEnd
  <2> DEFINE s == [tor[ver.cur] EXCEPT !.have = b, !.verify = "none"]
  <2>2. ver.cur \in Torrent /\ UNCHANGED line
    BY <1>4 DEF VerifyEnd, VerifierAt, IInv, VerSound
  <2>3. tor' = [tor EXCEPT ![ver.cur] = s] /\ s.mem = tor[ver.cur].mem
    BY <1>2, <2>1, <2>2 DEF IInv, Typed, TorTyped
  <2> HIDE DEF s
  <2> QED
    BY <2>2, <2>3, OneReplaced DEF IInv, Typed
<1> QED
  BY <1>1, <1>3, <1>4 DEF VerifyStep

LEMMA EventStays ==
    ASSUME IInv,
           \/ RunStartImpl \/ RunRecheckDone \/ RunDetaching \/ PostedMeetsFreed \/ PulseBegin
           \/ FinishVerify \/ FinishStop \/ FinishPulseStop
           \/ \E t \in Torrent : PulseStop(t)
           \/ CountSlots \/ StartQueued
    PROVE  LineStays
<1>1. CASE RunStartImpl \/ RunRecheckDone \/ PulseBegin \/ CountSlots \/ StartQueued
  <2>1. Milds(tor, tor')
    BY <1>1, RunStartImplMild, RunRecheckDoneMild, PulseBeginMild, CountSlotsMild, StartQueuedMild
  <2>2. UNCHANGED line
    BY <1>1 DEF RunStartImpl, RunRecheckDone, PulseBegin, CountSlots, StartQueued
  <2> QED
    BY <2>1, <2>2, MildsStay
<1>2. ASSUME NEW fn, NEW t \in Torrent, NEW todo, NEW T \in [Torrent -> TorrentRec],
             Detach(fn, t, todo, T), UNCHANGED line, \A u \in Torrent : T[u].mem = tor[u].mem
      PROVE  LineStays
  <2>1. [T[t] EXCEPT !.verify = "none"].mem = T[t].mem
    <3>1. T[t] \in TorrentRec
      OBVIOUS
    <3> QED
      BY <3>1 DEF TorrentRec
  <2>2. tor' = T \/ tor' = [T EXCEPT ![t] = [T[t] EXCEPT !.verify = "none"]]
    BY <1>2 DEF Detach
  <2> QED
    BY <1>2, <2>1, <2>2 DEF LineStays
<1>3. CASE RunDetaching
  <2>1. PICK fn \in {"verify", "stop", "remove"} :
           Dispatched(fn) /\ Detach(fn, Head(pipe).t, {}, tor)
    BY <1>3 DEF RunDetaching
  <2>2. Head(pipe).t \in Torrent
    BY <2>1, PipeTaken DEF Dispatched, Posted, IInv, Typed
  <2> QED
    BY <1>2, <1>3, <2>1, <2>2 DEF RunDetaching, IInv, Typed, TorTyped
<1>4. ASSUME NEW t \in Torrent, PulseStop(t) PROVE LineStays
  <2> DEFINE s == [tor[t] EXCEPT !.running = FALSE, !.stopping = FALSE]
  <2>1. tor[t] \in TorrentRec /\ tor \in [Torrent -> TorrentRec]
    BY DEF IInv, Typed, TorTyped
  <2>2. s \in TorrentRec /\ s.mem = tor[t].mem
    BY <2>1 DEF TorrentRec
  <2>3. [tor EXCEPT ![t].running = FALSE, ![t].stopping = FALSE] = [tor EXCEPT ![t] = s]
    BY <2>1
  <2>4. Detach("pulse", t, ev.todo \ {t}, [tor EXCEPT ![t] = s]) /\ UNCHANGED line
    BY <1>4, <2>3 DEF PulseStop
  <2> HIDE DEF s
  <2>5. /\ [tor EXCEPT ![t] = s] \in [Torrent -> TorrentRec]
        /\ \A u \in Torrent : [tor EXCEPT ![t] = s][u].mem = tor[u].mem
    BY <2>1, <2>2
  <2> QED
    BY <1>2, <2>4, <2>5
<1>5. CASE FinishStop \/ FinishPulseStop
  <2>1. ev.t \in Torrent /\ tor[ev.t] \in TorrentRec
    BY <1>5, DetachedFree DEF FinishStop, FinishPulseStop
  <2>2. StopImpl(tor[ev.t]).mem = tor[ev.t].mem
    BY <2>1, StopImplRec
  <2> QED
    BY <1>5, <2>2, OneReplaced DEF FinishStop, FinishPulseStop, IInv, Typed
<1>6. CASE FinishVerify
  <2> DEFINE r == tor[ev.t]
             again == (r.running \/ r.startAfter) /\ ~r.stopping
             halted == [r EXCEPT !.running = FALSE, !.stopping = FALSE]
             s == IF r.running THEN StopImpl(halted) ELSE r
  <2>1. ev.t \in Torrent /\ r \in TorrentRec
    BY <1>6, DetachedFree DEF FinishVerify
  <2>2. halted \in TorrentRec /\ halted.mem = r.mem /\ again \in BOOLEAN
    BY <2>1 DEF TorrentRec
  <2> HIDE DEF halted, again
  <2>3. s \in TorrentRec /\ s.mem = r.mem
    BY <2>1, <2>2, StopImplRec
  <2> HIDE DEF s
  <2>4. /\ LocalErrorIf([s EXCEPT !.startAfter = FALSE], TRUE).mem = r.mem
        /\ [s EXCEPT !.startAfter = again, !.verify = "wait"].mem = r.mem
    BY <2>1, <2>2, <2>3 DEF LocalErrorIf, TorrentRec
  <2>5. \/ tor' = [tor EXCEPT ![ev.t] = LocalErrorIf([s EXCEPT !.startAfter = FALSE], TRUE)]
        \/ tor' = [tor EXCEPT ![ev.t] = [s EXCEPT !.startAfter = again, !.verify = "wait"]]
    BY <1>6 DEF FinishVerify, s, again, halted
  <2> QED
    BY <1>6, <2>4, <2>5, OneReplaced DEF FinishVerify, IInv, Typed
<1>7. CASE PostedMeetsFreed
  BY <1>7 DEF PostedMeetsFreed, LineStays
<1> QED
  BY <1>1, <1>3, <1>4, <1>5, <1>6, <1>7

(* torrentInit puts the torrent at the end of the line.                    *)
LEMMA AddTorrentLines == ASSUME IInv, LineSound, NEW t \in Torrent, AddTorrent(t) PROVE LineSound'
<1>1. tor[t].mem = "none" /\ line' = Append(line, t) /\ tor[t] \in TorrentRec
  BY DEF AddTorrent, IInv, Typed, TorTyped
<1>2. \A u \in Torrent : tor'[u].mem = IF u = t THEN "live" ELSE tor[u].mem
  <2>1. \A u \in Torrent : u # t => tor'[u].mem = tor[u].mem
    BY DEF AddTorrent, IInv, Typed, TorTyped
  <2>2. \A b \in BOOLEAN : [tor[t] EXCEPT !.mem = "live", !.have = b, !.seed = b].mem = "live"
    BY <1>1 DEF TorrentRec
  <2>3. [tor[t] EXCEPT !.mem = "live"].mem = "live"
    BY <1>1 DEF TorrentRec
  <2>4. tor'[t].mem = "live"
    <3>1. \/ tor' = [tor EXCEPT ![t].mem = "live"]
          \/ \E b \in BOOLEAN :
               tor' = [tor EXCEPT ![t].mem = "live", ![t].have = b, ![t].seed = b]
      BY DEF AddTorrent
    <3>2. CASE tor' = [tor EXCEPT ![t].mem = "live"]
      BY <2>3, <3>2 DEF IInv, Typed, TorTyped
    <3>3. ASSUME NEW b \in BOOLEAN,
                 tor' = [tor EXCEPT ![t].mem = "live", ![t].have = b, ![t].seed = b]
          PROVE  tor'[t].mem = "live"
      <4>1. tor'[t] = [tor[t] EXCEPT !.mem = "live", !.have = b, !.seed = b]
        BY <3>3 DEF IInv, Typed, TorTyped
      <4> QED
        BY <2>2, <4>1
    <3> QED
      BY <3>1, <3>2, <3>3
  <2> QED
    BY <2>1, <2>4
<1>3. /\ line' \in Seq(Torrent) /\ Len(line') = Len(line) + 1 /\ line'[Len(line) + 1] = t
      /\ \A i \in 1 .. Len(line) : line'[i] = line[i] /\ line[i] \in Torrent /\ line[i] # t
      /\ Len(line) \in Nat
  BY <1>1 DEF LineSound, Live
<1>4. \A i \in 1 .. Len(line') : i \in 1 .. Len(line) \/ i = Len(line) + 1
  BY <1>3
<1>5. \A i \in 1 .. Len(line) : i \in 1 .. Len(line')
  BY <1>3
<1>6. \A i \in 1 .. Len(line') : tor'[line'[i]].mem = "live"
  BY <1>2, <1>3, <1>4 DEF LineSound, Live
<1>7. \A i, j \in 1 .. Len(line') : line'[i] = line'[j] => i = j
  BY <1>3, <1>4 DEF LineSound
<1>8. \A u \in Torrent : tor'[u].mem = "live" => \E i \in 1 .. Len(line') : line'[i] = u
  <2>1. ASSUME NEW u \in Torrent, tor'[u].mem = "live" PROVE \E i \in 1 .. Len(line') : line'[i] = u
    <3>1. CASE u = t
      BY <1>3, <3>1
    <3>2. CASE u # t
      BY <1>2, <1>3, <1>5, <2>1, <3>2 DEF LineSound, Live
    <3> QED
      BY <3>1, <3>2
  <2> QED
    BY <2>1
<1> QED
  BY <1>3, <1>6, <1>7, <1>8 DEF LineSound, Live

(* freeTorrent takes it out, whatever place it has.                        *)
LEMMA FinishRemoveLines == ASSUME IInv, LineSound, FinishRemove PROVE LineSound'
<1> DEFINE t == ev.t
           q == [StopImpl(tor[t]) EXCEPT !.running = FALSE, !.mem = "freed"]
<1>1. t \in Torrent /\ Live(t) /\ tor[t] \in TorrentRec
  BY DetachedFree DEF FinishRemove
<1>2. q.mem = "freed"
  BY <1>1 DEF StopImpl, TorrentRec
<1>3. tor' = [tor EXCEPT ![t] = q] /\ line' = RemoveFirst(line, t)
  BY DEF FinishRemove
<1> HIDE DEF q
<1>4. \A u \in Torrent : tor'[u].mem = IF u = t THEN "freed" ELSE tor[u].mem
  BY <1>2, <1>3 DEF IInv, Typed, TorTyped
<1>5. PICK k \in 1 .. Len(line) : line[k] = t
  BY <1>1 DEF LineSound
<1> HIDE DEF t
<1>6. /\ line' \in Seq(Torrent) /\ Len(line') = Len(line) - 1
      /\ \A i \in 1 .. Len(line) - 1 : line'[i] = IF i < k THEN line[i] ELSE line[i + 1]
  <2>1. line \in Seq(Torrent) /\ \A i, j \in 1 .. Len(line) : line[i] = line[j] => i = j
    BY DEF LineSound
  <2>2. t = line[k]
    BY <1>5
  <2> QED
    BY <1>3, <2>1, <2>2, RemovedFirst DEF TakenOut
<1> DEFINE m(i) == IF i < k THEN i ELSE i + 1
<1>7. Len(line) \in Nat /\ \A i \in 1 .. Len(line) : line[i] \in Torrent
  BY DEF LineSound
<1>8. /\ \A i \in 1 .. Len(line') : m(i) \in 1 .. Len(line) /\ m(i) # k /\ line'[i] = line[m(i)]
      /\ \A i, j \in 1 .. Len(line') : m(i) = m(j) => i = j
      /\ \A j \in 1 .. Len(line) : j # k => \E i \in 1 .. Len(line') : m(i) = j
  <2>1. \A i \in 1 .. Len(line') : m(i) \in 1 .. Len(line) /\ m(i) # k /\ line'[i] = line[m(i)]
    BY <1>5, <1>6, <1>7
  <2>2. \A i, j \in 1 .. Len(line') : m(i) = m(j) => i = j
    BY <1>5, <1>6, <1>7
  <2>3. ASSUME NEW j \in 1 .. Len(line), j # k PROVE \E i \in 1 .. Len(line') : m(i) = j
    <3>1. CASE j < k
      BY <1>5, <1>6, <1>7, <3>1
    <3>2. CASE j > k
      <4>1. j - 1 \in 1 .. Len(line') /\ m(j - 1) = j
        BY <1>5, <1>6, <1>7, <3>2
      <4> QED
        BY <4>1
    <3> QED
      BY <1>5, <2>3, <3>1, <3>2
  <2> QED
    BY <2>1, <2>2, <2>3
<1> HIDE DEF m
<1>9. \A i \in 1 .. Len(line') : tor'[line'[i]].mem = "live"
  <2> TAKE i \in 1 .. Len(line')
  <2>1. line[m(i)] # t /\ line[m(i)] \in Torrent /\ Live(line[m(i)])
    BY <1>5, <1>7, <1>8 DEF LineSound
  <2> QED
    BY <1>4, <1>8, <2>1 DEF Live
<1>10. ASSUME NEW i \in 1 .. Len(line'), NEW j \in 1 .. Len(line'), line'[i] = line'[j]
       PROVE  i = j
  <2>1. line[m(i)] = line[m(j)] /\ m(i) \in 1 .. Len(line) /\ m(j) \in 1 .. Len(line)
    BY <1>8, <1>10
  <2>2. m(i) = m(j)
    BY <2>1 DEF LineSound
  <2> QED
    BY <1>8, <2>2
<1>11. \A u \in Torrent : tor'[u].mem = "live" => \E i \in 1 .. Len(line') : line'[i] = u
  <2>1. ASSUME NEW u \in Torrent, tor'[u].mem = "live" PROVE \E i \in 1 .. Len(line') : line'[i] = u
    <3>1. u # t /\ Live(u)
      BY <1>4, <2>1 DEF Live
    <3>2. PICK j \in 1 .. Len(line) : line[j] = u
      BY <3>1 DEF LineSound
    <3> QED
      BY <1>5, <1>8, <3>1, <3>2
  <2> QED
    BY <2>1
<1> QED
  BY <1>6, <1>9, <1>10, <1>11 DEF LineSound, Live
-----------------------------------------------------------------------------
(* The event thread's own record.                                          *)
LEMMA FreeSlotsNat == ASSUME NEW T, NEW d \in Direction, QueueEnabled(d) PROVE FreeSlots(T, d) \in Nat
<1>1. IsFiniteSet(ActiveIn(T, d))
  BY LifecycleAssumption, FS_Subset DEF ActiveIn
<1>2. Cardinality(ActiveIn(T, d)) \in Nat
  BY <1>1, FS_CardinalityType
<1>3. QueueLimit[d] \in Nat
  BY LifecycleAssumption DEF QueueEnabled
<1> QED
  BY <1>2, <1>3 DEF FreeSlots

LEMMA PulseOrIdleRest ==
    ASSUME NEW e, e.n \in Nat, e.t = None, \A d \in e.dirs : QueueEnabled(d)
    PROVE  EvRest(PulseOrIdle(e)) /\ EvRest(Idle)
BY DEF EvRest, Idle, PulseOrIdle

LEMMA DetachRest ==
    ASSUME EvTyped, EvRest(ev), NEW fn, NEW t, NEW todo, NEW T, Detach(fn, t, todo, T)
    PROVE  EvRest(ev')
BY DEF Detach, EvTyped, EvRec, EvRest

LEMMA EvRestKept == ASSUME IInv, EvRest(ev), Next PROVE EvRest(ev')
<1>1. EvTyped
  BY DEF IInv, Typed
<1>2. CASE Client \/ MainStep \/ VerifyStep \/ RunStartImpl \/ RunRecheckDone
           \/ PostedMeetsFreed \/ (\E t \in Torrent : PeersDeliver(t)) \/ Aborted
  <2>1. UNCHANGED ev
    BY <1>2 DEF Client, AddTorrent, CallStart, CallStop, CallVerify, CallRemove, CallStat,
                MainStep, SetStartAfterVerify, ShouldQueue, SetQueued, CommitStart,
                StartMeetsFreed, PostedMeetsFreed,
                VerifyStep, VerifyNext, VerifyBegin, VerifyEnd, VerifyReport,
                RunStartImpl, RunRecheckDone, PeersDeliver, Aborted, vars
  <2> QED
    BY <2>1
<1>3. CASE RunDetaching
  BY <1>1, <1>3, DetachRest DEF RunDetaching
<1>4. CASE PulseBegin
  <2> DEFINE T(D, checked) ==
               [t \in Torrent |-> IF Live(t) THEN Upkeep(t, t \in D, t \in checked) ELSE tor[t]]
             todo(D, checked) == { t \in Torrent : Live(t) /\ T(D, checked)[t].stopping }
             dirs == { d \in Direction : QueueEnabled(d) }
  <2>1. PICK D \in SeedDone, checked \in SUBSET { t \in Torrent : tor[t].have # tor[t].seed } :
           ev' = PulseOrIdle([Idle EXCEPT !.at = "pulse", !.todo = todo(D, checked), !.dirs = dirs])
    BY <1>4 DEF PulseBegin
  <2> HIDE DEF T, todo
  <2> DEFINE e == [Idle EXCEPT !.at = "pulse", !.todo = todo(D, checked), !.dirs = dirs]
  <2>2. e.n \in Nat /\ e.t = None /\ \A d \in e.dirs : QueueEnabled(d)
    BY DEF Idle
  <2> HIDE DEF e
  <2>3. ev' = PulseOrIdle(e)
    BY <2>1 DEF e
  <2> QED
    BY <2>2, <2>3, PulseOrIdleRest
<1>5. CASE FinishVerify \/ FinishStop \/ FinishRemove
  <2>1. ev' = Idle
    BY <1>5 DEF FinishVerify, FinishStop, FinishRemove
  <2> QED
    BY <2>1, <1>1 DEF EvRest, Idle
<1>6. CASE FinishPulseStop
  <2> DEFINE e == [ev EXCEPT !.at = "pulse", !.fn = "none", !.t = None]
  <2>1. e.n \in Nat /\ e.t = None /\ \A d \in e.dirs : QueueEnabled(d)
    BY <1>1 DEF EvTyped, EvRec, EvRest
  <2>2. ev' = PulseOrIdle(e)
    BY <1>6 DEF FinishPulseStop
  <2> HIDE DEF e
  <2> QED
    BY <2>1, <2>2, PulseOrIdleRest
<1>7. ASSUME NEW t \in Torrent, PulseStop(t) PROVE EvRest(ev')
  BY <1>1, <1>7, DetachRest DEF PulseStop
<1>8. CASE CountSlots
  <2> DEFINE d == IF "up" \in ev.dirs THEN "up" ELSE "down"
             e(D) == [ev EXCEPT !.dir = d, !.dirs = @ \ {d}, !.n = FreeSlots(RecheckAll(tor, D), d)]
  <2>1. ev.at = "pulse" /\ ev.todo = {} /\ ev.n = 0
    BY <1>8 DEF CountSlots, EventAt
  <2>2. d \in ev.dirs /\ d \in Direction
    BY <1>1, <2>1 DEF EvTyped, EvRec, EvRest, Direction
  <2>3. PICK D \in SeedDone : ev' = PulseOrIdle(e(D))
    BY <1>8 DEF CountSlots
  <2>4. FreeSlots(RecheckAll(tor, D), d) \in Nat
    <3> HIDE DEF d
    <3> QED
      BY <2>2, FreeSlotsNat DEF EvRest
  <2>5. e(D).n \in Nat /\ e(D).t = None /\ \A b \in e(D).dirs : QueueEnabled(b)
    BY <1>1, <2>1, <2>4 DEF EvTyped, EvRec, EvRest
  <2> HIDE DEF e, d
  <2> QED
    BY <2>3, <2>5, PulseOrIdleRest
<1>9. CASE StartQueued
  <2> DEFINE e(n) == [ev EXCEPT !.n = n]
  <2>1. PICK n \in Nat : ev' = PulseOrIdle(e(n))
    <3>1. ev.n - 1 \in Nat
      BY <1>9 DEF StartQueued, EvRest
    <3>2. ev' = PulseOrIdle(e(0)) \/ ev' = PulseOrIdle(e(ev.n - 1))
      BY <1>9 DEF StartQueued
    <3> HIDE DEF e
    <3> QED
      BY <3>1, <3>2
  <2>2. e(n).n \in Nat /\ e(n).t = None /\ \A d \in e(n).dirs : QueueEnabled(d)
    BY <1>1, <1>9 DEF StartQueued, EventAt, EvTyped, EvRec, EvRest
  <2> HIDE DEF e
  <2> QED
    BY <2>1, <2>2, PulseOrIdleRest
<1> QED
  BY <1>2, <1>3, <1>4, <1>5, <1>6, <1>7, <1>8, <1>9 DEF Next, Dispatch, EventStep

LEMMA NextLInv == ASSUME IInv, LInv, [Next]_vars PROVE LInv'
<1>1. CASE UNCHANGED vars
  BY <1>1 DEF vars, LInv, LineSound, EvRest, Live
<1>2. CASE Next
  <2>1. LineSound'
    <3>1. ASSUME NEW t \in Torrent, AddTorrent(t) PROVE LineSound'
      BY <3>1, AddTorrentLines DEF LInv
    <3>2. CASE FinishRemove
      BY <3>2, FinishRemoveLines DEF LInv
    <3>3. ASSUME NEW t \in Torrent, NEW bypass \in BOOLEAN,
                 CallStart(t, bypass) \/ CallStop(t) \/ CallVerify(t) \/ CallRemove(t)
                    \/ CallStat(t) \/ PeersDeliver(t)
          PROVE  LineStays
      BY <3>3, ClientStays
    <3>4. CASE MainStep
      BY <3>4, MainStays, LineKept DEF LInv
    <3>5. CASE VerifyStep
      BY <3>5, VerifierStays, LineKept DEF LInv
    <3>6. CASE Aborted
      BY <3>6 DEF Aborted, vars, LInv, LineSound, Live
    <3>7. CASE Client
      <4>1. PICK t \in Torrent :
               \/ AddTorrent(t)
               \/ \E bypass \in BOOLEAN : CallStart(t, bypass)
               \/ CallStop(t) \/ CallVerify(t) \/ CallRemove(t) \/ CallStat(t)
        BY <3>7 DEF Client
      <4> QED
        BY <4>1, <3>1, <3>3, LineKept DEF LInv
    <3>8. CASE \E t \in Torrent : PeersDeliver(t)
      BY <3>3, <3>8, LineKept DEF LInv
    <3>9. CASE Dispatch \/ PulseBegin \/ EventStep
      BY <3>2, <3>9, EventStays, LineKept DEF LInv, Dispatch, EventStep
    <3> QED
      BY <1>2, <3>4, <3>5, <3>6, <3>7, <3>8, <3>9 DEF Next
  <2>2. EvRest(ev')
    BY <1>2, EvRestKept DEF LInv
  <2>3. crashed' \in BOOLEAN
    BY <1>2 DEF LInv, Next, Client, AddTorrent, CallStart, CallStop, CallVerify, CallRemove,
                CallStat, MainStep, SetStartAfterVerify, ShouldQueue, SetQueued, CommitStart,
                StartMeetsFreed, PostedMeetsFreed, VerifyStep, VerifyNext, VerifyBegin, VerifyEnd, VerifyReport,
                Dispatch, RunStartImpl, RunRecheckDone, RunDetaching, PulseBegin,
                EventStep, FinishVerify, FinishStop, FinishRemove, FinishPulseStop, PulseStop,
                CountSlots, StartQueued, PeersDeliver, Aborted, vars
  <2> QED
    BY <2>1, <2>2, <2>3 DEF LInv, EvRest, QueueEnabled
<1> QED
  BY <1>1, <1>2

LEMMA InitLInv == ASSUME Init PROVE LInv
<1>1. line = <<>> /\ ev = Idle /\ crashed = FALSE /\ \A t \in Torrent : ~Live(t)
  BY DEF Init, Live
<1>2. LineSound
  BY <1>1 DEF LineSound
<1>3. EvRest(Idle)
  BY DEF Idle, EvRest
<1> QED
  BY <1>1, <1>2, <1>3 DEF LInv

LEMMA LineInductive == Spec => [](IInv /\ LInv)
<1>1. Init => LInv
  BY InitLInv
<1>2. IInv /\ LInv /\ [Next]_vars => LInv'
  BY NextLInv
<1> QED
  BY <1>1, <1>2, Inductive, PTL DEF Spec

(* Every state the session can reach has the model's types.                *)
THEOREM LifecycleTypeOK == Spec => []TypeOK
<1>1. IInv /\ LInv => TypeOK
  BY DEF IInv, Typed, TorTyped, PipeTyped, EvTyped, EvRec, MnTyped, VerTyped,
         LInv, LineSound, EvRest, TypeOK
<1> QED
  BY <1>1, LineInductive, PTL

(* The pipe keeps the order of the calls: what was posted about a torrent  *)
(* before its removal has run when it is freed, the call in progress and   *)
(* every place of the session's line are about live torrents, and only the *)
(* report of a verification (torrentRecheckDoneImpl) or what the client    *)
(* asked for behind the removal can meet a freed one.                      *)
THEOREM OrderProtectsTheFreed == Spec => []PipeOrderProtects
<1>1. IInv /\ LInv => PipeOrderProtects
  BY DEF IInv, PipeSound, EvSound, MnSound, LInv, LineSound, EvRest, PipeOrderProtects
<1> QED
  BY <1>1, LineInductive, PTL

(* session.c's torrentList: every live torrent has one place in the line,  *)
(* from torrentInit to freeTorrent, so none is missed by the queue pump.   *)
THEOREM LineHoldsTheLive ==
    Spec => []( /\ \A t \in Torrent : Live(t) <=> \E i \in DOMAIN line : line[i] = t
                /\ \A i, j \in DOMAIN line : line[i] = line[j] => i = j )
<1> DEFINE Inv == /\ \A t \in Torrent : Live(t) <=> \E i \in DOMAIN line : line[i] = t
                  /\ \A i, j \in DOMAIN line : line[i] = line[j] => i = j
<1>1. IInv /\ LInv => Inv
  <2>1. line \in Seq(Torrent) => DOMAIN line = 1 .. Len(line)
    OBVIOUS
  <2> QED
    BY <2>1 DEF LInv, LineSound
<1> QED
  BY <1>1, LineInductive, PTL
=============================================================================
