# A formal model of AdmitOne

AdmitOne is a Mac application that searches for movies, downloads a torrent file for the one chosen and
transfers its contents with libtransmission, which is compiled into the application
(`src/AdmitOne/Utilities/libtransmission`). This directory holds TLA+ modules translated from the sources,
TLC configurations that check them on small instances, and proofs checked by TLAPS.

Two parts carry the program's logic. The application's own part is the *download list*: rows, files in a
watched folder, user defaults and engine handles that must agree. The engine's part is the *life of a torrent*
and the *queue*: the client calls, the event thread, the periodic pulse and the verify thread share the
torrent's flags. What the user sees in the list is decided by both, so both are modelled. Around them
stand the *browser*, which finds movies and torrents by searches that answer late, and the *write path*, which
brings a block from the network to the disk and tells the next process about it. The network protocol is
modelled only by what it delivers.

## Inventory

| Component | State | Operations | Hard behaviour | Correct when |
|---|---|---|---|---|
| Download list: `AppDelegate.m`, `APTorrentList.m`, `APDownloadViewController.m` | rows, watched folder, user default "IsActive - name" | launch, reset, quit, folder report, row update, pause/resume, remove, clear finished | reports up to 3 s late and merged; rows outlive torrents; quitting without closing the session | rows follow the folder, no duplicates, paused stays paused, no freed handle is used |
| `TRTorrent.m` | handle `fHandle`, cached `fStat` | create, update, start, stop, remove | `fStat` points into the engine's struct | handle alive while the row is |
| `SCEvents` (folder watcher) | FSEvents stream, latency | start, stop, callback | late, merged reports | every change is followed by a report |
| Torrent queue: `torrent.c` | `queuePosition` of each torrent, `torrentCount` | add, free, set position, move up/down/top/bottom | unlocked renumbering walk, batches | positions are 0..n-1, each once |
| Torrent life cycle: `torrent.c` | `isRunning`, `isQueued`, `isStopping`, `isDeleting`, `startAfterVerify`, `verifyState`, completeness | start, start now, stop, verify, remove, stat | flags changed by main, work done later by the event thread | last request wins, nothing touches a freed torrent |
| Verify thread: `verify.c` | `verifyList`, `currentNode`, `stopCurrent`, `verifyThread` | add, remove, loop | handshake by polling with the session lock held; thread ends and is made again | list agrees with torrents, ends, no deadlock |
| Event thread: `trevent.c` | pipe | post, read | order of posted functions | first in, first out |
| Queue pump: `peer-mgr.c`, `session.c` | queue sizes | `bandwidthPulse`, `queuePulse` | slots counted, then used | waiting torrents are served |
| Main view and search: `APMainViewController.m`, the bar in `AppDelegate.m` | content, search field, loading view | show a section, search, answer, open a movie, back | answers in any order, fields that send late | the list shows what was asked for, no wait is endless |
| Movie details: `APMovieDetailsViewController.m` | current movie (not retained), its `bestTorrent`, the button | open, choose language or quality, search, answer, download | overlapping searches into one field | the button downloads the shown movie in the chosen language |
| Finder services, `APHTTPRequestServiceSupport.m` | response cache in memory and on disk | request, cache, look up | three singletons, one file, several threads | entries survive |
| Write cache: `cache.c`, `inout.c` | blocks not yet written, sorted | write, trim, flush (done, file, torrent), change the limit | failed and short writes, runs over piece and file borders, torrents freed while cached | nothing read or saved is wrong, nothing is left of a closed torrent |
| Block reception: `peer-msgs.c`, `webseed.c`, `peer-mgr.c`, `completion.c` | `blockBitfield` | block from a peer, from a web seed, piece checked | answers that come too late, bad data | what was verified stays right |
| Torrent layout and contents: `torrent.c`, `metainfo.c`, `completion.c`, `verify.c` | block, piece and file borders, lazy sums, choices of files | locate, count, verify, choose files and priorities, load the choices | short last blocks, empty files, pieces shared by files, sums marked dirty | the same by blocks as by bytes |
| Resume files: `resume.c` | blocks, choices | save, load | saved although the flush failed; sudden end | what is recorded complete is on disk |
| Preferences, views, Reachability | user defaults | set, draw, ask once | none | - |
| Announcer, request tables and choking of the peer manager, handshake, bandwidth, port forwarding, magnet metadata, RPC, DHT glue, `stats.c` | connections | network I/O | upstream protocol code | not modelled |
| libevent, libutp, dht, miniupnp, libnatpmp, Sparkle, GAJavaScriptTracker, JSON, XML | - | - | - | vendored, out of scope |

They interact as follows. *Download* writes a file to the watched folder; the watcher's report makes
`APTorrentList` create a `TRTorrent`, which adds a torrent to the session and perhaps starts it. Every later
click or timer calls libtransmission on the main thread. A libtransmission call changes flags at once and posts the rest to
the pipe of the event thread, which also runs a pulse every 500 ms. A verification is handed to the verify
thread, whose result comes back through the pipe. Removing a row asks the engine to free the torrent *and*
deletes the file; the row goes when the watcher has reported.

## Modules

* `QueueOrder` - the abstract specification of the queue: the torrents stand in a line; a new one joins at the
  back, one may leave, one may be put at another place.
* `SessionQueue` - `torrent.c`'s positions. `pos` is `queuePosition`, `inSession` the linked list,
  `torrentCount` the counter. `tr_torrentSetQueuePosition` takes no lock, so it is split: `BeginWalk`
  parks the torrent at -1, `VisitTorrent` renumbers one other torrent, `PlaceTorrent` ends the call. `walk[th]` holds
  the locals of the call in progress on thread `th` and `batch[th]` the sorted copy that a
  `tr_torrentsQueueMove*` call has left to move. Torrents are visited in any order, which includes the list's order.
* `MCSessionQueue` - its instance for TLC.
* `SessionQueueProofs` - theorems about it; likewise `TorrentLifecycleProofs`, `DownloadListProofs`, `MovieBrowserProofs`, `WritePathProofs`
  and `TorrentContentsProofs` about theirs. `BlockCacheProofs` holds the lemmas about the operators of `BlockCache`, `FoldLemmas` those
  that several of them need.
* `TorrentLifecycle` - `tor` holds the flags of each `tr_torrent`, `line` the torrents by queue position (the view of `SessionQueue` that
  `tr_sessionGetNextQueuedTorrent` uses), `pipe` the posted functions, `ev` where the event thread is, `mn` where
  main is inside `torrentStart`, `ver` the statics of `verify.c`. `Call*` actions are client calls, `ShouldQueue`, `SetQueued`,
  `SetStartAfterVerify` and `CommitStart` the later steps of `torrentStart` after its unlocked read of the activity,
  `Run*` and `Finish*` the posted functions before and after the wait of `tr_verifyRemove`, `PulseBegin` to
  `StartQueued` the pulse, `Verify*` the verify thread. A client may call a torrent until it is freed, also when its
  removal is in the pipe: `tr_isTorrent` is all the calls ask. `StartMeetsFreed` and `PostedMeetsFreed` are what then uses freed
  memory. `late` and `paused` only observe: that a torrent was called after its removal was asked for, and that its last request was a stop.
* `MCTorrentLifecycle` - queue settings and symmetry for TLC.
* `DownloadList` - `folder`, `list`, `eng`, `shown`, `pref`, `event` and whether the process is up. One action
  per click, timer or report, all on the main thread; `EngineStep` lets the engine change
  any live torrent's status (an over-approximation of `TorrentLifecycle`) and `EngineClose` is the event thread's
  `closeTorrent`.
* `MCDownloadList` - its instance for TLC; the readable files are symmetric, since rows are added in any order of the
  folder's contents.

* `MovieBrowser` - the main view, the page of a movie and the bar between them. `searches` and `sent` count the
  requests under way on the background queue, `queued` the blocks that have yet to read `_movie` and the user defaults;
  `AnswerSearch` and `FoundTorrent` are the blocks that come back to the main queue. `freed` says that `_movie` was
  released by new content; using it then may end the process (`Uses`).
* `MCMovieBrowser` - its instance for TLC.
* `BlockStore` - the abstract specification of the write path: a read returns the last write; data becomes durable
  at any time; only a fault takes a block back to what was durable.
* `BlockCache` - `cache.c` and the write of `inout.c` as operators over a store (cache, disk, faults): `RunInfo` is
  `getBlockRun`, `CalcRuns` the flushing order, `FlushContiguous` drops the blocks and then writes, `FlushRuns` moves the
  positions of the later runs, `CacheTrim`, `FlushDone`, `FlushRange` the callers.
* `WritePath` - the state machine above it: `ClientGotBlock` and `WebWrite` bring blocks, `GotBlock` is
  `peerCallbackFunc` with the check of a complete piece and the flush of its files, `Save` and `SaveTimer` write resume files,
  `StopTorrent`, `RemoveTorrent` and `SessionClose` end a torrent, `Restart` is the end of the process at any point
  and `loadProgress` in the next one. `lost`, `rewritten` and `unsafe` only observe.
* `TorrentLayout` - where the bytes of a torrent lie: blocks, pieces and files (`torrentInitFromInfo`,
  `tr_torGet*BlockRange`), `readOrWritePiece` over files, the counts of `completion.c`, `setFileDND`,
  `calculatePiecePriority` and their loading from a resume file, as operators.
* `TorrentContents` - the state those keep: `cp` is the `tr_completion` with its two lazy sums, `files` and `pieces` the
  choices, `check` the locals of `verifyTorrent`, one turn of its loop a step, with whatever the disk gives it. Calls hold the session
  lock and `verifyTorrent` takes none, so a call on the completion is two steps, `Hold` (as `AddBlock`, `BadPiece` or `Sums`) and its
  `Finish`; between them `op` is the call with the completion it found, and any turns of a verification, or its stop, may fall. A call whose turn meets
  a write of the verifier ends in any of the ways its unlocked reads and writes allow (`Disturbed`, `Mixed`). `raced` and `touched` only observe: what such a
  call may have left wrong, and the pieces that calls changed during a verification.
* `MCWritePath` - instances of `WritePath` and `TorrentContents`. A behaviour is of one of them; `PlacesOfTheTorrent`, an assumption
  TLC evaluates, ties the constants of the first to the layout of the second.

`SessionQueue` keeps positions and threads and forgets why a torrent is added; `TorrentLifecycle` keeps flags and
treats the queue as the line that `ImplementsQueueOrder` justifies; `DownloadList` keeps files and rows and treats the
engine's status as open. `MovieBrowser` ends where a torrent file is downloaded, with which `DownloadList` begins. `WritePath`
keeps the data of blocks and takes where pieces and files lie as given, which is what `TorrentLayout` computes;
`TorrentContents` keeps the counts and choices and treats what can be read of the files as open.

## Runs

| Run | Instance | What it shows |
|---|---|---|
| `session_queue` | 4 torrents, 1 thread, INT_MAX = 9 | `QueueSequenced`, the end moves and the single-step moves (`BatchMovesToEnd`, `StepKeepsOthers`), and the refinement of `QueueOrder` |
| `session_queue_race` | 3 torrents, 2 threads | violation of `QueueSequenced` |
| `lifecycle` | 1 torrent, all calls but `startNow`, files may vanish, seed limits may be hit, queues off, at most 3 posts pending | `PeersNeedRunning`; every removal completes; every verification ends; `NotedStartMade`, a start noted before the verification's report is made |
| `lifecycle_two` | 2 torrents, both queues of size 1, add, start, remove, 2 posts | `VerifierAgrees`, `PipeOrderProtects` |
| `queue_pump` | 2 torrents, download queue of size 1, only adds and starts, 1 post | `QueueServed` |
| `stop_pauses` | 1 torrent; add, start, stop | violation of `StopPauses` |
| `announce_while_verifying` | 1 torrent; add, start | violation of `VerifiedBeforePeers` |
| `freed_recheck` | 1 torrent; add, remove | violation of `NoFreedRecheck` |
| `download_list` | 2 torrent files and 1 unreadable file | `RowsOnce`, `RowsInFolder`, `NewFilesListed`, `PausedStaysPaused` |
| `write_path` | `WritePath`: 3 blocks in 2 pieces and 2 files that share a block, one block of each piece may be bad and one may come from a web seed, limit 0 or 2, one disk fault and one sudden end; `TorrentContents`: 4 lists of three files, empty ones at each place among them, in pieces of 1 or 2 blocks, any blocks to begin with, 2 calls, and verifications that they start or meet | `VerifiedIntact`, `ResumeOnDisk`, `ClosedLeavesNothing`, `CacheSorted`, `CacheNeverOvergrows`, the refinement of `BlockStore`; `BlocksTileTorrent`, `WritesLandInFiles`, `SumsNeverStale`, `CountsExact`, `VerifyFindsPieces`, `PrioritiesReachPieces`, `LeftOutOnlyTogether` |
| `movie_browser` | 1 section, 2 words (one of them empty), 2 movies, 2 preferences, 1 search per words, 2 searches for a torrent | `SectionKept`, `ResultsMatchField`, `PageKeepsMovie`, `DownloadHasTorrent`, `ChoiceObeyed`, and that `LoadingEnds` and `FindEnds` |
| `stale_row` | 1 torrent file | violation of `HandlesLive` |

**Bounds.** Four torrents let a batch of two have a neighbour on both sides; nothing in the code depends on more than
the moved torrent, the batch and the torrents before, between and after. `IntMax` only has to exceed the queue length.
Two torrents make the verifier choose, leave one listed while another is checked, and make a queue of one
slot wait. `PipeBound` is the number of pending posts at which the client pauses: three allows
start, stop and remove to be pending at once, all before the event thread has run the first; the verify thread is not held by it.
`startNow` is among the calls of no run: the application does not make it (only `initWithHistory:` would, which it does not use), the pulse's own starts pass the queue in the same way,
and the theorems are about any set of calls. In `TorrentLifecycle` a `tr_torrent` is added at most once, since a later add makes a new struct. In `DownloadList`
two files allow one report to stand for a removal and an addition, and `closing` counts pending removals up to two, because
the second one already meets a freed torrent.

In `WritePath` three blocks give two runs that are apart, a run over a piece border and a file that ends inside a piece; a limit of two is
exceeded by three blocks, a limit of 0 by one. One fault may fall on any write, short or refused, and one more end of the process
on any state after it. Two blocks may be bad, and the web seed is asked for one of them, which is enough for a late bad
answer over good data; in the source only the numbering and the neighbours of a block matter. In `TorrentContents` a block is two bytes: a
last block may be short, a file may begin and end inside a block, be empty, or lie with two others in one piece. The calls
start from *any* blocks, and from any choices a resume file may hold, so two calls are enough to make a sum and then make it stale, or to
leave out a file beside one left out before. Reads of at most three bytes end before, at and after the ends of pieces and files.
In `MovieBrowser` two answers under way may overtake one another; a third would be as late as the second.

**Fairness** (`FairSpec`). A thread with a step to take takes it: weak fairness of main's later steps, of the event thread inside a
handler and of the verify thread. The event loop serves each ready source in every turn, so the pipe and the timer get
strong fairness: serving one disables the other for a moment only. `PeersDeliver` being strongly fair is an assumption about the
environment, that a connected download is not without a source for ever; `QueueServed` needs it because a slot is
freed only by a download that ends. The client's calls are never fair.

`MovieBrowser` is weakly fair to the background queue and the main queue (both run what they are given), to the answers (requests time out
after 15 s, so each search is answered, if only by a failure) and to the search field, which sends its action some time
after it has changed. Typing and clicking are never fair. `WritePath` and `TorrentContents` claim no liveness.

**What the conditions of some properties mean.** `NotedStartMade` speaks of a start noted while the report of a verification is still to come, be it not yet
posted or in the pipe, and excuses a stop, a removal or another verification that is in the pipe: a stop
posted *before* the start ends the verification the start waits for, and the start is then lost. One noted after the report has run, because main read
the activity before the verifier was done, is lost silently: nobody looks at `startAfterVerify` any more. The model has that behaviour and no property speaks of it. `PipeOrderProtects` excuses a torrent that was called after its removal was asked for, and the report of a verification: what is posted
behind a removal runs on freed memory (`PostedMeetsFreed`, and the run `freed_recheck` for the report); it says that nothing else does, the posts made before a removal, the event
thread's own torrent and the line included. `QueueServed` is checked with adds and starts only: a torrent left running without peers (`stop_pauses`) or
whose start was lost would spoil the count or the wait. `SumsNeverStale` excuses `sizeNow` once a call that changes blocks met a write of the verifier, and the
lazy sums once a call that makes them did: the verifier takes no lock, and a sum made while it sets a piece is stored as clean although it is old. `VerifyFindsPieces` leaves out the pieces that a call changed during the
verification, all of them once a call met its writes: a torrent can receive blocks while it is verified, as
`announce_while_verifying` shows. `DownloadHasTorrent` and `ChoiceObeyed` do not say that a torrent is of the movie it is offered for when searches for several overlap: it may not be.
`SectionKept` excuses the empty search:
`showTopRentals` empties the field that a late answer is compared with, so an answer to "" replaces the section. `ChoiceObeyed` speaks of a search that
was alone: two at once may answer in the wrong order, and the older torrent is offered. `PageKeepsMovie` speaks of a page opened while no search
was under way: the answer of one frees the movie under the page. `VerifiedIntact` excuses two things the
code lets happen: a write that failed after the blocks were dropped from the cache, and a web seed's block that comes for a piece
that has been checked already. `ResumeOnDisk` excuses a resume file written although the flush before it failed.

**Violations.** Each such run checks one property that a comment, a header or an assertion states, and TLC finds a
behaviour of the code that breaks it; `PROJECT.json` quotes the lines under "findings".

* `stop_pauses`: `tr_torrentStart` and then `tr_torrentStop` before the event thread has run the first one.
  `torrentStartImpl` sets `isRunning` again; `stopTorrent` disconnects the peers and does not clear it. The torrent
  stays "running" without peers.
* `announce_while_verifying`: a new torrent's verification is posted, not yet recorded in `verifyState`, when it is started.
* `freed_recheck`: the report of a verification is posted behind the removal of its torrent.
* `session_queue_race`: main renumbers without the lock while the event thread frees a torrent. The model lets either thread do any
  operation; the application adds and moves on main and frees on the event thread.
* `stale_row`: the row of a removed torrent is refreshed or removed again before the watcher reports.

## Proofs

Eight modules hold proofs. Each theorem is taken from an inductive invariant, which is proved action by action; TLC has found each invariant
to hold on the instances of the runs. Every invariant, every action property and both refinements that a passing run checks are
stated by a theorem for every value of the constants; only liveness is left to TLC.

| Module | Theorem | States, for every value of the constants |
|---|---|---|
| `SessionQueueProofs` | `QueueTypeOK`, `QueueStaysSequenced` | `OneThread => (Spec => []TypeOK)`, `OneThread => (Spec => []QueueSequenced)` |
| | `BatchesReachTheEnd`, `StepsCarryOthers` | `OneThread => (Spec => BatchMovesToEnd)`, `OneThread => (Spec => StepKeepsOthers)` |
| | `QueueImplementsOrder` | `OneThread => (Spec => ImplementsQueueOrder)` |
| `TorrentLifecycleProofs` | `LifecycleTypeOK`, `VerifierNeverDisagrees` | `Spec => []TypeOK`, `Spec => []VerifierAgrees` |
| | `StoppedLoseTheirPeers`, `OrderProtectsTheFreed` | `Spec => []PeersNeedRunning`, `Spec => []PipeOrderProtects` |
| | `LineHoldsTheLive` | the line holds each live torrent once and no other |
| `DownloadListProofs` | `DownloadTypeOK`, `PausedNeverStarted` | `Spec => []TypeOK`, `Spec => []PausedStaysPaused` |
| | `NeverListedTwice`, `RowsHaveFiles`, `NewFilesGetRows` | `Spec => []RowsOnce`, `Spec => []RowsInFolder`, `Spec => []NewFilesListed` |
| `MovieBrowserProofs` | `BrowserTypeOK` | `Spec => []TypeOK` |
| | `SectionStays`, `ResultsAreOfTheField` | `Spec => []SectionKept`, `Spec => []ResultsMatchField` |
| | `MovieStays`, `DownloadIsOffered`, `LoneChoiceObeyed` | `Spec => []PageKeepsMovie`, `Spec => []DownloadHasTorrent`, `Spec => []ChoiceObeyed` |
| `WritePathProofs` | `WriteTypeOK`, `CacheStaysSorted` | `Spec => []TypeOK`, `Spec => []CacheSorted` |
| | `VerifiedStaysIntact`, `ResumeFileIsTrue`, `NothingOfTheClosed` | `Spec => []VerifiedIntact`, `Spec => []ResumeOnDisk`, `Spec => []ClosedLeavesNothing` |
| | `CacheKeepsItsLimit` | `Spec => CacheNeverOvergrows` |
| | `WritePathImplementsStore` | `Spec => ImplementsBlockStore` |
| `TorrentContentsProofs` | `BlocksTile`, `EachByteLands` | `ContentsSpec => []BlocksTileTorrent`, `ContentsSpec => []WritesLandInFiles` |
| | `PrioritiesReach`, `LeftOutTogether` | `ContentsSpec => []PrioritiesReachPieces`, `ContentsSpec => []LeftOutOnlyTogether` |
| | `SumsAreFresh`, `CountsAreBytes`, `VerifyIsRight` | `ContentsSpec => []SumsNeverStale`, `ContentsSpec => []CountsExact`, `ContentsSpec => []VerifyFindsPieces` |

**Assumptions.** All are on the constants, named in the modules that declare them and evaluated by TLC on every run: finitely many torrents, files,
movies and preferences (`QueueAssumption`, `LifecycleAssumption`, `DownloadAssumption`, `CatalogueAssumption`); markers like `None`, `Dirty` or `Bad` that are none
of the values they stand beside; no more torrents than an int counts (`CountAssumption`); pieces and torrents that are ranges of blocks
(`CacheAssumption`); a piece size and at least one byte (`ContentsAssumption`), without which `tr_torrentParse` refuses the torrent, and a
block size limit (`LayoutAssumption`). The bounds (`MaxFaults`, `MaxLate`, `MaxCalls`, `MaxSearches`, `MaxFinds`, `PipeBound`) are any numbers. The one hypothesis beyond these is `OneThread` in `SessionQueueProofs`, below.

**`FoldLemmas`.** Induction over data is not in the provers' reach as a rule with an operator parameter; it is here as facts about *sets*: a set of numbers has a least element
(`LeastNumber`), what holds of 0 and is handed on holds up to n (`HandedOn`), a family of subsets of a finite set has a minimal one (`LeastSubset`), all from the
well-foundedness theorems of the library. From these: that the functions the folds of the community modules choose do exist and are what their recursion
says (`FoldExists`, `FoldUnique`, `FoldLeftExists`, `RecursionExists`), that a sum of sizes of disjoint sets is the size of their union (`SumCounts`), and what removing, inserting and
filtering do to the elements of a sequence. No proved module reaches a RECURSIVE operator.

**`SessionQueueProofs`.** `OneThread` says that all queue work is done by one thread: the theorems are about the algorithm, and
`session_queue_race` shows that the hypothesis cannot be dropped.

`QueueSequenced` is not inductive: during a walk the positions are not a permutation. The invariant `IInv` says that
the positions `Settled(th)`, those of the torrents with every shift of the walk undone and the parked torrent put back
in its old place, are a permutation all the time; and, of the walk itself, that no visited torrent sits at the place
asked for and that `back` is the last place taken by a visited torrent (`WalkSound`). `ShiftUndone` is the
lemma that a shift can be undone and never lands on the place asked for. `PlaceSequenced` is the end of the walk:
undoing the shifts, the visited torrents fill every place of 0..n-1 but one, and that one is `min(new, back + 1)`, where
`PlaceTorrent` puts the moved torrent.

For the refinement the abstract line is the torrents in the order of `Settled`; adding, freeing and `PlaceTorrent` are steps of `QueueOrder`, and
every visit of the walk is a stutter (`LineIs` and the lemmas that say the line grows, loses one or moves one).

The batch properties compare the end of a batch with its beginning, so the invariant says what holds between two turns (`MoveInv`): the turns to come are in the order of the sort (`Turns`), and the torrents
already moved stand, in the order they had, before or behind all others (`AtFront`, `AtBack`), or have carried each torrent that was not asked to move by at most as many places as turns were
taken (`CarriedBack`, `CarriedForth`). `OthersArePassed` is what one repositioning does to the others: they keep their order and those it passes step aside by one. A move to the bottom asks for
place INT_MAX, which is the back only because `torrentCount` is an int itself: `CountAssumption`.

**`TorrentLifecycleProofs`.** Any torrents, queue sizes, calls, lost files, seed limits and pipe. Neither `VerifierAgrees` nor `PeersNeedRunning` is inductive: both depend on what is still in the pipe. `IInv` adds
that what main posts is about a live torrent or one that was called after its removal was asked for, and that behind a removal in the pipe there is only what
was asked for later (`PipeSound`); that the torrent the event thread is waiting for is live, off the
verifier's list and, if it is being verified, asked to stop (`EvSound`, the reason why the wait of `tr_verifyRemove` ends with nobody holding the torrent);
that a start main is inside of is late if the removal was asked for before it (`MnSound`); and that peers need `isRunning` or a posted stop or removal, since a
posted *verification* only stops what runs (`PeersSound`, stronger than `PeersNeedRunning`). Most of what the threads do to a torrent is `Mild`: it leaves the
torrent's life and verify state alone, never clears `isRunning` and brings peers only to what runs. The lemmas up to `StartInEventMild` show
that every recheck, seed limit, local error and start is mild, whatever it meets; `MildKeeps`, `AppendKeeps`, `TakeKeeps`, `DetachKeeps` and `PulseKeeps`
then settle the actions by what they do to the pipe and the threads. `PipeOrderProtects` in full and the types need a second invariant, `LInv`: the line holds each live torrent once and no other (`LineSound`), and
in its pulse the event thread has something left to do and pumps only queues that have a limit (`EvRest`), so that what is subtracted from a limit is a number.

**`DownloadListProofs`.** `PausedStaysPaused` needs that there is no torrent when the process is not up (`SessionGone`), since a launch starts what the defaults
allow. That the list follows the folder is proved with one invariant (`RowsSound`): the rows after a report are those whose file is still there, followed by one for each new readable file, in whatever order
the folder is read. That the files of one report are added once each, and that dropping the rows whose file is gone leaves the others in place, are lemmas of `FoldLemmas`.

**`MovieBrowserProofs`.** `SectionKept` needs that the field is empty while a section is on and nothing is typed
(`FieldEmptied`), so that only the answer to the empty search fits; `ChoiceObeyed` needs to know that the one search of a lone choice is
on the queue, under way or answered (`LoneChoice`); `PageKeepsMovie` that no search can answer behind such a page (`NoneBehind`). The types need that the searches under way, a *sum* over the queries, never exceed the bound
and that there is no search for a torrent before a movie has been opened (`TypeInv`); the sum is counted as the size of a set of tokens (`SumIsTokens`).

**`BlockCacheProofs` and `WritePathProofs`.** The lemmas say what each operator of `cache.c` does to a store, for any sorted cache and any fault: `getBlockRun` gives a maximal run within the cache, `calcRuns` lists runs that
do not overlap and hold every cached block, a flush of one run takes just its blocks out and moves the positions of the later ones so that these still name the same runs (`Flushing`), and every operation leaves the store `After` the one it began with: sorted, no
block added, each block that left the cache on disk or in `lost`, and every block of the disk as it was or as the cache had it. The invariant `WriteInv` is `TypeOK`, the order of the cache, `ClosedLeavesNothing` and
`ResumeOnDisk` with two facts that are stronger than what the runs check. `Intact` is `VerifiedIntact` for *every* torrent, closed ones included: what a piece was checked to be must survive the stop and the restart that brings it back. `ResumeHeld` says
that what the resume file calls complete is still complete: without it a piece could lose a block, be saved as complete and the file be believed by the next process. `CacheNeverOvergrows` follows from what each step does to the length, and the refinement of
`BlockStore` maps a block to what a read through the cache returns and to what is on disk: every step is a write, a flush, a loss or a stutter (`StoreStep`).

**`TorrentContentsProofs`.** The lists of files, the piece size and the calls are any. Blocks, pieces and files are units of a line of bytes: lemmas on division place a byte in its unit, and
`OffsetsAdd` and `FilesInOrder` say that offsets are the running sums of the lengths, so that files lie one behind the other with empty ones between. `BlocksTile` is arithmetic from these. `ChoicesAgree` is the invariant of choices: the two arrays of the pieces are what the
arrays of the files say, although a call looks only at the pieces of one file and finds the files of a piece by walking from a hint. `CountsAgree` is that of the counts: each sum is dirty or the number of its bytes unless it
is among those that a call met by the verifier may have left wrong (`CountsRight`, with
`FileBytesCompleted` and the others shown equal to sizes of sets of bytes), a call under way holds a completion that was one (`CallRight`), and a verification has found what it has seen so far, of the pieces no call touched (`Verified`). The latter is inductive only with two facts about where a turn begins: the place in the piece
and the place in the file are the same byte (`InPlace`), and the hash is made of all of the piece so far if and only if all of it has been seen (`HashedRight`). `EachByteLands` follows `readOrWritePiece` from file to file: when file f is reached, the
bytes up to its begin have been written, each by one call and to its place (`Lands`, `Reaches`), and the rest is to be written from there on (`WriteAt`).

**Only model-checked.** The liveness properties `RemoveCompletes`, `VerifyEnds`, `NotedStartMade`, `QueueServed`, `LoadingEnds` and `FindEnds`: liveness under fairness and ENABLED are out of the prover's reach.
The runs that expect a violation are counterexamples and need no proof.

## Abstractions

* `TorrentLifecycle`: pieces are one bit, "have", and a verification may find anything. Whether files have
  disappeared and whether a seed limit is hit is open at each question. The "stalled" option is off (the
  application's default). Start and shutdown of the session are left out: the application does not close it.
  Torrents are added paused, as `TRTorrent` forces. `seed` is `completeness != LEECH`.
* `DownloadList`: torrents have distinct names, so that a user default belongs to one torrent; both queues are off (the
  defaults), so no row is waiting; the option to hand the file to the system's application is off, since the file is then
  written elsewhere; nobody but the application deletes files of the folder; a file's rewriting does not change which
  torrent it holds. Alerts are answered within the action that shows them: no timer or report of the default run loop
  mode is delivered meanwhile.
* `MovieBrowser`: language and quality are one preference, since each change does the same; a search for movies that
  fails finds none; the trailer is left out.
* `WritePath`: everything runs in the event thread, one handler at a time, in any order. A peer may send any block that is
  missing; who was asked is left out. A run's rank keeps its two flags, not its length and age: runs of equal flags
  come in any order. Every file is wanted. `Save` writes the resume file whether or not the torrent is dirty (`tr_torrentSave` asks); `tr_torrentStop` marks it dirty
  before it saves, and a file written once more records the same blocks.
* `TorrentContents`: choosing files is one step, as its calls share nothing with `verifyTorrent` but the dirty mark of `sizeWhenDone`. A call on the completion that meets the verifier's
  writes has seen the blocks as they were, as they are or, while it walks over them, some of each; of two writes to `sizeNow` or to the bits one may be lost. A piece the
  verifier sets is one write. Nothing is said of the counts such a call may have left wrong, nor corrected later: `raced` is not taken back. A verification that is
  stopped is forgotten. The hash of a piece is right if it was made of all its bytes and these were right.
* Reading a freed handle is undefined: an assertion that reads it is taken to fail, as the struct has been overwritten
  with ones (`freeTorrent`), and a status read through it may show anything.

## Not modelled

`PROJECT.json` lists every component with its status. Not modelled are

* preferences, views and Reachability: no behaviour beyond one assignment per call;
* the response cache of the finder services: what the views show of a cached answer and a fresh one is alike, so no property of
  the rest depends on it, and its races are in one unlocked dictionary whose outcomes are undefined;
* the request tables of `peer-mgr.c` (`tr_peerMgrGetNextRequests`, cancelled and expired requests): composed with the cache, the
  instance that shows a request made twice, answered late and checked is beyond TLC's time; `WritePath` has their effect, that any missing block may come at any time and
  a web seed's block also when it is not missing;
* announcer, handshake, encryption, choking, bandwidth, port forwarding, DHT, uTP, magnet metadata, RPC, statistics and the vendored
  libraries: upstream code that the application does not change and of which only deliveries reach its state.

## Plan

1. (done) `QueueOrder`, `SessionQueue` and the proof that the positions stay sequenced.
2. (done) `TorrentLifecycle`: threads, pipe, verify handshake, pulse, queues; starts remembered during a verification.
3. (done) `DownloadList`: folder, rows, engine, defaults.
4. (done) `MovieBrowser`: searches answered out of order.
5. (done) `BlockStore`, `BlockCache`, `WritePath`: runs, flushes, failed writes, freed torrents, resume files.
6. (done) `TorrentLayout`, `TorrentContents`: borders, counts, verification, choices.
7. (done) Proofs of every invariant, action property and refinement that a passing run checks.
8. Proofs: parts of what the liveness properties rest on that are safety, such as that a wait of `tr_verifyRemove` is always for a torrent the verifier will leave.
9. The overfilled queue and a direction that changes while queued, in `TorrentLifecycle`; which movie an answer is of, in `MovieBrowser`.
