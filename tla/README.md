# Verification of EverBlue's core

EverBlue is an implementation of the X11 library on OS/2 Presentation Manager. A client is
linked with `X11.dll` (`src/src/lib/x11`), which draws with Gpi calls of its own and asks a
daemon, `xdaemon.exe` (`src/src/xdaemon/app`), for whatever needs a PM window. Both use
`xdaemon.dll` (`src/src/xdaemon/lib`), whose data all processes share and whose heap holds every
window, pixmap and event, and `ebhook.dll` (`src/src/lib/ebhook`), whose message hooks run in the
daemon. There is no X protocol: clients and daemon work on the same structures, and what keeps
them apart is a mutex (`global_lock`), a few event semaphores, posted messages, a pipe for each
client, and the scheduling of one processor. That is what this project models.

Paths below are relative to `src/src`.

## The system

| Component | State | Operations | Interaction |
|---|---|---|---|
| Calls to the daemon: `xdaemon/lib/message.c`, `xdaemon/app/ProcMessage.c` | `postmtx`, `postsem`, `postret` of a process; the queue of the daemon's object window | `Daemon_exec`; `pmhwndproc` with its `um_...` handlers | posted message, answer in shared memory, event semaphore |
| PM hooks and `global_lock`: `lib/ebhook`, `xdaemon/app/Proc*.c` | `msgxchange`, `msgparameter`, `hevReadAccess`, `hevWriteAccess`, `hmtxAccess`, `global_lock` | `_sendMsgHook`, `_inputQueueHook`, `hook_msg`, window procedures, `EbGetHookAccess` | nested calls on the daemon's PM thread; the lock also with drawing clients |
| Life of daemon and clients: `xdaemon/lib/register.c`, `Thread.c`, `xdaemon/app/xdaemon.c` | `phase`, `daemonthread`, `processlist`, `checkProcesses`, the `EB_Process` of each client | `Daemon_register`, `Daemon_xinitialized`, `Daemon_getProcess`, `Daemon_died`, `Daemon_doTasks`, `Daemon_shutdown` | shared data, mostly under `global_lock`; exit lists |
| Event queue: `xdaemon/lib/EventQueue.c`, `lib/x11/NextEvent.c`, `lib/x11/Xmisc` | the list of `_XQEvent` (`head`, `tail`, `qlen`, `qfree`) of each display, its pipe | `Daemon_doEvent`, `Daemon_addEvent`; `XNextEvent`, `XCheckIfEvent`, `XPutBackEvent`, `_XDeq` | list in shared memory without an effective lock, addresses in the pipe |
| Pixmaps and presentation spaces: `xdaemon/lib/Drawable.c`, drawing functions of `lib/x11` | `hpscache`, `lastone` and `data` of a pixmap, a bitmap for each process | `getCachedHPS`, `finishedDrawing`, drawing calls, `XCopyArea`, `XGetImage` | shared memory; `global_lock` in `XCopyArea` only |
| Resources and event masks: `xdaemon/lib/Resource.c`, `EventMask.c` | doubly linked chains of windows, processes, masks | `addResource`, `unChainResource`, `Daemon_addEventMask`, `Daemon_freeEventMask` | chains shared by daemon and clients |
| Windows and their table: `xdaemon/lib/Window*.c`, `UMCreateWindow.c`, `UMDestroyWindow.c` | hash of window handles, `EB_Window` | creation, mapping, moving, destruction through hooks | daemon's handlers, hooks, clients that look windows up |
| Shared heap: `xdaemon/lib/HeapShared.c` | page bitmap, reference count | `getmoreShared`, `releaseShared` | every process |
| Attributes of presentation spaces: `xdaemon/lib/GC.c`, `Drawable.c`, `lib/x11/GC.c` | `gc->values`, `ebhps->current`, the attributes PM has | `setGCValues`, drawing calls | within a process |
| Cursors and background pixmaps: `lib/x11/Cursor.c`, `Pixmap.c`, `xdaemon/lib/Resource.c` | reference counts, `process->res` | creation, `XDefineCursor`, `XFreePixmap`, `unMonitorResource` | clients count and store, the daemon frees |
| Gravity: `xdaemon/app/CalcDelta.c`, `ProcWindow.c`, `ProcFrame.c` | gravities of a window and its children | WM_SIZE, WM_CALCVALIDRECTS | the daemon's window procedures |
| Atoms: `lib/x11/Atom.c` | `AtomTbl`, `AtomBuf`, `AtomTail` | `XInternAtom`, `XGetAtomName` | threads of a client, no lock |
| Context manager: `lib/x11/Context.c` | a hash that grows and shrinks | `XSaveContext`, `XFindContext`, `XDeleteContext` | threads of a client, a mutex held in parts |
| Regions: `lib/x11/Xmisc/Region.c` | bands of rectangles | union, intersection, difference, shift, shrinking, tests | none |
| Resource database: `lib/x11/myXrm.c` | a tree of inner and leaf tables | put, merge, two kinds of search | threads of a client, a mutex for each database |
| Grabs, properties | lists nobody reads, stubs | | none |
| Fonts, colours, images, keyboard, stubs, vendored Xlib | tables | conversions | none |

What is hard to test here: the interleaving of threads that share one `EB_Process`; of a
daemon that preempts clients between any two accesses to memory; of hooks nested in handlers
nested in hooks; mutex requests that time out, whose result most callers ignore; processes that
die with a lock, in the middle of storing a bitmap, or before the reaper has seen them; a pipe that
is full; a cached bitmap that is out of date; chains that are walked while they are written, store
by store; tables that are resized between two locked parts of one call; long sequences of calls on
structures whose shape later calls take for granted. `PROJECT.json` lists these hazards at their lines, with the properties that would
catch them going wrong.

## What makes each component correct

* A call returns the result of that call, and returns; a process has one message in the daemon.
* A hook's message reaches `hook_msg` unchanged, the PM thread never waits for itself, and the
  daemon has given `global_lock` back when it waits for messages.
* There is one daemon; nobody walks over an entry of `processlist` without an `EB_Process`; no
  death goes unnoticed; no living process loses its `EB_Process`.
* Events come in order, once, and a client does not wait while events are queued; a free
  `_XQEvent` is in nobody's queue.
* What is drawn stays drawn, and is in the image that is read, whichever processes end meanwhile;
  it is drawn with the values of its GC.
* An event goes to each client that has selected it, once; a walk over the chains meets no node
  that is freed, and no node is lost from them.
* A window is found by its handle as the one structure that was made for it.
* Heap blocks do not overlap, and exactly their pages are committed; a count does not let go of
  what somebody still uses; an atom stays that of its name; what is saved in a context is found.
* A child stays where its gravity holds it, however far the window was dragged.
* A region is the one list of rectangles of its area; a resource is the entry that matches best.

## Modules

| Module | Models | Run |
|---|---|---|
| `RemoteCall` | what `Daemon_exec` promises: a call is made, accepted, executed, returned, or given up before the daemon has seen it | (abstract) |
| `DaemonExec` | `Daemon_exec` step by step in each thread, the mutex and event semaphore of each process, the daemon's queue and `pmhwndproc` | `exec_core`, `exec_result`, `exec_close` |
| `HookExchange` | the call stack of the daemon's PM thread (UM_ handlers, window procedures, hooks, `hook_msg`), the exchange, `global_lock` and clients that draw | `hook_core` |
| `DaemonLifecycle` | clients and daemons that start, register, link, die, reap, shut down | `lifecycle_core`, `lifecycle_reaper` |
| `EventQueue` | the list and pipe of each display, the daemon's delivery, the accesses of `_XDeq` and `_XPutBackEvent` one by one | `client_core`, `event_order`, `event_putback`, `event_race` |
| `PixmapCache` | the bitmap of each process, `data` and `lastone` of each pixmap, drawing calls in their parts | `pixmap_core` |
| `EventMasks` | `XSelectInput` store by store on the chains of a window and of a process; creation and destruction of windows, what a process leaves, processes that die in a call | `tables_core` |
| `WindowTable` | `getWindow` access by access, windows of the daemon and foreign ones, the two handles of the desktop | `tables_core` |
| `HeapPages` | the page bitmap, the search of `getmoreShared`, blocks given back in part or whole | `tables_core` |
| `Gravity` | what each step of a drag does to a child, along one axis | `tables_core` |
| `ContextTable` | `XSaveContext` in its parts, deletion, resizing | `client_core` |
| `GCCache` | the attributes of presentation spaces, and the functions that change them behind the cache | `tables_core` |
| `AtomTable` | `XInternAtom` in its parts | `tables_core` |
| `ResourceCount` | the counts of cursors and background pixmaps, clients that leave | `tables_core` |
| `Regions` | the operations of `Region.c` on bands, and `XRectInRegion` | `client_core` |
| `ResourceDatabase` | `PutEntry`, the merging of databases, `XrmQGetResource`, `XrmQGetSearchList` and `XrmQGetSearchResource` | `client_core` |
| `DaemonExecProofs`, `DaemonLifecycleProofs`, `EventMaskProofs`, `EventQueueProofs`, `HookExchangeProofs`, `PixmapCacheProofs`, `RegionProofs`, `TableProofs` (`AtomTable`, `ContextTable`, `GCCache`, `Gravity`, `HeapPages`, `ResourceCount`, `WindowTable`, `MCSharedTables`) | theorems | |
| `MC...` | the instances TLC checks | |

How state and actions correspond to the code:

* `DaemonExec`. `pc` is the place of a thread in `Daemon_exec`, one action for each line
  (`Lock`, `ResetSem`, `PostMsg`, `WaitSem`, `Release`, `Return`); `postmtx`, `postsem` and
  `postret` are the fields of `EB_Process`. `Handle` is `WinGetMsg`, the dispatch and the switch
  of `pmhwndproc`; of the 30 kinds of requests only those that change this protocol are told
  apart: `UM_OPENHANDLES` opens `postsem` in the daemon, `UM_FREERESOURCES` closes it. A reply is
  the identity of the call it belongs to. RemoteCall is implemented with `stage` computed from
  `pc` and the queue: a call is accepted when its thread has got `postmtx`, executed when the
  message is out of the daemon's hands.
* `HookExchange`. The hooks are installed in the daemon's own queue (`HMQ_CURRENT`), so all of it
  runs on one thread, and the model is its call stack: a frame for each handler, window procedure
  or hook, with its place and what it has read. A hook goes through `WriteMessage`, `ReadMessage`,
  `EnterHookMsg`, `LeaveHookMsg`. `global_lock` is an OS/2 mutex: owner, number of requests, and
  dead once its owner has died.
* `DaemonLifecycle`. A section under `global_lock` is one action, and has a second one for the
  request that fails, with the path the code takes then. `phase` and the rest are fresh when a
  process loads the libraries and nobody else has them. `scan` is what is left of the reaper's
  walk; `MarkDied` and `RaiseFlag` are the two halves of `Daemon_died`.
* `EventQueue`. The daemon runs time critical on one processor, so its `Daemon_addEvent` is one
  action up to the next place where it may block, while the client can be preempted between any
  two accesses: `LoadNext`, `StoreNext`, `StoreTail`, `FreeElement` are the lines of `_XDeq`.
  `LockDisplay` is not there, because the daemon never opens that mutex and its request fails.
* `PixmapCache`. A bitmap is the set of drawings on it. `GetCachedHPS` loads it from `data` under
  the condition of `Drawable.c:148`; `StoreBits` and `SetLast` are the two halves of
  `finishedDrawing`. What an application may do is the assumption `Discipline` on the constants:
  a pixmap that one thread draws on without a lock is written by no other thread, and a pixmap
  that several copy to is not read without the lock in their own processes. Operations on the
  `hpscache` chain are one step. A destroyed `EB_HPS` is never mistaken for a later one: the code
  never frees the structure. `Die` ends a process wherever its threads are; `FreeOldHPS` is what the
  next user of a pixmap does about its bitmaps; `cut` remembers pixmaps in whose store, or before
  whose `lastone`, somebody was ended.
* `EventMasks`. A client that selects events gets a pair of nodes, one in the chain of the window
  (`em1`) and one in that of its process (`em2`). `links` is `next` and `prev` of all nodes;
  `MissAnchor`, `CreateAnchor`, `Link`, `BackLink`, `Publish` are the stores of `addResource`,
  `OrMask` is the last of `Daemon_addEventMask`. The daemon's handlers are one step each, because
  no client runs while it does. `harm` is set when a step uses what another has changed under it,
  or a death leaves half a pair; what the program does after that is not described.
* `WindowTable`. `Walk` is one turn of the loop in `getWindow`; the two ways to enter a structure
  are `AppendEntry` and `MakeFirst`. `Bucket` is what is left of the hash (below). `stale` holds
  handles of windows of other programs, which nobody takes out of the table.
* `HeapPages`. The C library serialises the calls, so each is one step; what it holds is `blocks`.
* `Gravity`. `shift` is how far a child was moved, `exact` twice what the gravities ask for.
* `ContextTable`. A bucket is a set of entries. `ReadHead`, `WalkBucket`, `LinkEntry`, `CountEntry`
  are the parts of `XSaveContext`, of which the second and third run without the mutex; `raced` is
  set when a bucket or an entry that a thread points to is freed.
* `GCCache`. A presentation space is what the cache believes (`current`) and what PM has (`attr`).
* `AtomTable`. Strings lie at addresses, an entry holds an address; `TakeEntry`, `CopyName`,
  `Advance` are the three statements that add. `mixed` is set when two threads add at once.
* `ResourceCount`. `structure` tells which resources exist; `doing` is the place of a client
  between storing a cursor in a window and counting it; `torn` as `harm` above.
* `Regions`. The rectangles of a band share top and bottom, so a band is kept as its spans; `Sweep`
  is the loop of `miRegionOp`, with the three operations as its function pointers. The while loops
  of the code are `While`, and what one of them does in a round is an operator of its own
  (`UnionStep`, `SweepStep`, `LookStep` and so on). Every operation
  takes the application's region and an operand made by `XUnionRectWithRegion`. `area` remembers
  the cells that were asked for. The size and growth of the arrays is left out.
* `ResourceDatabase`. A table is a record with its chain of children; the chains of the code's hash
  tables are one chain, as they are up to four entries. The two searches of the code go the same
  way and differ in what they do at a leaf table: `SearchNEntry` gives the leaf tables in order,
  `GetResource` takes the first value in them, `GetSearchList` and `GetSearchResource` go through
  the list. A list is never too short. `entries` remembers what was stored with which specifier.
* `MCSharedTables` puts seven of the last ten side by side, the tables and caches of the server, and
  `MCClientData` the three others with `EventQueue`: what a client keeps for itself. The parts share
  no state; `part` says which of them a behaviour is one of, the others stay as they are. `Parts`
  are those that a run is of: `event_order` is of the event queue only, with its fairness.

## What the runs show

| Run | Bounds | Shows |
|---|---|---|
| `exec_core` | two threads of one process, one of another, 2 calls each | `OwnReply`, `OneMessagePerProcess`, `KeepsPromise` (DaemonExec implements RemoteCall), `ExecReturns` |
| `exec_result` | same | `ReturnsOwnResult` fails: a thread returns another one's result |
| `exec_close` | same | `CloseReturns` fails: `XCloseDisplay` waits for ever |
| `hook_core` | 4 messages, nested 3 deep, 2 clients, a mutex limit of 2, 1 refused `XCopyPlane` | `HandlerKeepsLock`, `OwnMessage`, `NeverWaitsForItself`, `IdleReleasesLock`, `UmHandled` |
| `lifecycle_core` | 2 clients, 2 daemons, no other bound | `OneDaemon`, `ListedHasRecord`, `DeadAreReaped` |
| `lifecycle_reaper` | same | `LiveKeepsRecord` fails: one death costs all clients their `EB_Process` |
| `client_core` | 1 display, 4 events, pipe of 3, 2 put-backs, 1 event taken out of order; the others below | `FreeIsUnused`, `AtMostOnce`, `PipeCounts`, with the daemon between the client's accesses (EventQueue); `SavedIsFound` (ContextTable); `RegionIsArea` (Regions); `ResourceIsBest` (ResourceDatabase); 0.29 million states, less than one minute |
| `event_order` | 2 displays, 3 events, pipe that does not overflow | `InOrder`, `FreeIsUnused`, `NextEventReturns` |
| `event_putback` | 1 display, 1 put-back | `NextEventReturns` fails: no address for an event put back |
| `event_race` | 1 display, 2 events | `ReadEventsQueues` fails: an event is counted but not linked |
| `pixmap_core` | 3 threads of 2 processes, 2 pixmaps, 3 drawings, either process may end anywhere | `NothingErased`, `CacheCurrent`, `ImageShowsFinished` (0.52 million states, one minute) |
| `tables_core` | below | `WalksAreSafe`, `ChainsIntact`, `SelectorsGetEvents`, `OneKeyPressClient` (EventMasks); `WindowIsFound` (WindowTable); `PagesMatchBlocks`, `SearchIsFirstFit` (HeapPages); `DriftBound` (Gravity); `DrawsWithGC` (GCCache); `AtomsArePermanent` (AtomTable); `UsedIsThere` (ResourceCount); 0.72 million states, depth 47, two minutes |

Why the bounds are enough. The conflicts in `DaemonExec` are between two threads of a process and
between two calls of one thread (a stale post); a third thread of another process shows that
processes do not mix. In `HookExchange` three levels hold a handler, the hook of what it sends,
and a handler or hook inside `hook_msg`; four messages let one of them return and another begin.
`DaemonLifecycle` is finite as it is. In `EventQueue` a list of four with a pipe of three makes
the pipe overflow, and the list become empty, single and longer; two displays are what is needed
for copies of an event, and together with put-backs they break `AtMostOnce` (see "Where the code and what is said of it disagree"). In `PixmapCache` a pixmap needs at least two processes to be out of date
in one of them, and two threads in one to share a bitmap; the third drawing finds the bitmap that
the second has made stale. 

In `tables_core`:

* `EventMasks`: two clients, two windows, two pairs of nodes (`MaxPairs`): a chain then has an
  anchor, a first node and one behind it, the cases of `addResource` and `unChainResource`; a third
  node would only lengthen the part of a chain that a store does not touch. Two kinds of events,
  one of them the `KeyPress` that `checkEventMask` compares.
* `WindowTable`: the desktop by its two handles in the two buckets and a third handle that shares
  one of them; four structures (`MaxEntries`), one more than handles, so that one is used again.
* `HeapPages`: a heap of eight pages of which two are there at first, requests of two, three and
  four pages; free ranges that are too short, at the end of the bitmap and behind one another occur.
* `Gravity`: all eleven gravities for both roles, sizes up to 4, so of both parities, three stretches with one direction.
* `GCCache`: two GCs, two drawables, the two values that decide whether a cleared cache is right.
* `AtomTable`: two threads, three names and the empty one, four entries.
* `ResourceCount`: two clients, two cursors, a pixmap, two windows, counts up to 2 (`MaxCount`).

In `client_core`, besides the event queue:

* `ContextTable`: a table that begins with two buckets, five keys whose hashes collide in some
  of its sizes: it grows with the entries and shrinks again. Two threads.
* `Regions`: a grid of 3 by 3 cells (`XMax`, `YMax`): two spans in a band and three bands, the
  smallest grid with holes, bands left over, and bands that may and may not go together. Every
  area of the grid is reached, and every operation is tried with each on every rectangle, union,
  intersection and difference also on every pair of rectangles.
* `ResourceDatabase`: three entries (`MaxPut`, in which an overridden one counts twice) out of 26
  specifiers of up to three components, queries of up to four levels, whose names may be the same.
  Merges are of two entries into any database there is room for. A larger set of 42 specifiers has
  been checked apart from this run, with the same result.

The symmetry permutes the two clients (or threads) of each part, and two values that are cursors
and drawables at once, or saved data. The parts end at their bounds, or when harm is done, which is why
the two runs do not look for deadlock.

The bounds are constants: `MaxExecs`, `MaxMsgs`, `MaxDepth`,
`MaxHooked` (65535 on OS/2), `MaxRefused`, `MaxEvents`, `MaxPutBacks`, `MaxChecks`, `PipeCap`,
`MaxDraws`, and those named in the list. A grid of regions has no end in the code, heap and atom
table are larger there (12800 pages, 1024 atoms), and coordinates are 16 bits wide. The runs of `DaemonLifecycle` check for deadlock; in the others the counters, and an
application that stops calling, bring the system to rest.

`HandlerKeepsLock`: a handler that has got `global_lock` has it to its end, whatever it nests, and
whichever clients fail or die, unless a hook has run in it; then the release at the end of `hook_msg`
has taken the lock from it (`ProcHookmsg.c:500`). Messages are numbered as they come, so a handler
in which no hook has run is one whose own number is above that of `msgxchange`.

`InOrder` and `NextEventReturns` are checked without put-backs and without an overflow of the pipe.
With them they do not hold: that is `event_putback`, and an overflow loses an address in the same
way. `PipeCounts` says exactly how far: with both, and at each store, the events in `qlen` that have
no address are those that found the pipe full (the history variable `dropped`) and those that were
put back. `ReadEventsQueues` is what the race leaves; `client_core` contains the
race and shows what survives it.

`NothingErased`, `CacheCurrent` and `ImageShowsFinished` hold until `XCopyArea` goes on without
its lock (`timedOut`). Without the `Discipline` they do not hold: two threads that draw on the
same pixmap lose drawings.

The properties of `EventMasks`, `WindowTable`, `ContextTable`, `AtomTable` and `ResourceCount` hold
until an access has used what another process or thread had changed under it (`harm`, `clash`,
`raced`, `mixed`, `torn`). That the code lets this happen is known: nothing is locked there, and
the list at the head of `Atom.c` and the comment at `Thread.c:60` say so of theirs. The runs show
that nothing goes wrong short of it, in particular that a daemon which comes between any two stores
of a client finds chains and tables it can walk, and that events are not lost or doubled. They do
not show what these conditions exclude: two lookups that create at once in a bucket or end at the
pointer that is not initialised (`clash`), two threads that add atoms at once (`mixed`) or save
contexts in one bucket (`raced`), a client that leaves between another's store and its count
(`torn`). These hazards are listed with a note and, where nothing is left of them, without a
property.

`DrawsWithGC` excepts two attributes that text and `XCopyPlane` set behind the cache, and
`ResourceIsBest` the databases in which `TakenForLoose` holds, see the findings. `OneKeyPressClient`
is what remains of the check that one client only selects some events.

## Fairness

* `DaemonExec`: weak fairness of each thread inside `Daemon_exec` (OS/2 schedules ready threads,
  and a mutex request that is not granted times out) and of the daemon's message loop. No thread
  has to make a call.
* `HookExchange`: the PM thread, which `main` makes time critical, goes on as long as the
  innermost call can. Clients owe nothing, and may keep the lock or die with it.
* `DaemonLifecycle`: a dying process finishes its exit list, and the WM_TIMER of a daemon in its
  message loop keeps coming. Nothing forces a client to end or a daemon to stay.
* `EventQueue`: `Daemon_doEvent` serves the displays it has begun to serve, and a client inside
  `XNextEvent` goes on where it can.

## What is proved

TLAPS proves, for any number of processes, threads, clients, daemons, displays, windows and pixmaps:

* `DaemonExecProofs`: type correctness; `OwnReply`; `OneMessagePerProcess`; that DaemonExec
  implements RemoteCall. The inductive invariant says that a thread between `Lock` and `Release`
  owns `postmtx`; that each message in the daemon's queue, or in its hands, is the current call of
  a thread that waits; and that a posted `postsem` of a process whose owner waits means that the
  answer is there. `OwnReply` alone is not inductive: it needs that no stale message can post.
* `DaemonLifecycleProofs`: type correctness; `OneDaemon`, because `daemonthread` stays set while a
  daemon is in charge and is only reset when nobody has the libraries; `ListedHasRecord`, because
  a client is listed after it was given an `EB_Process`, and only the one daemon's walk frees any.
* `PixmapCacheProofs`: type correctness; `NothingErased`, `CacheCurrent`, `ImageShowsFinished`,
  from `CacheAssumption` and `Discipline`. The invariant says what the bitmap contains at each
  point of a call (`Progress`: equal to the pixmap after loading, a superset of it before it is
  stored), that `lastone`'s bitmap is equal to the pixmap unless somebody is drawing
  (`LastIsCurrent`), and that threads in `XCopyArea` own the lock (`Held`). The lemma
  `Undisturbed`, that no two threads draw on a pixmap at once, is where the Discipline comes in.

  Ends of processes need one more idea: a bitmap that was being stored when its process ended may
  have reached the pixmap in part, but the drawings that are finished, and the one that was being
  stored, are in both, so nothing that is done is harmed; only `CacheCurrent` has to except the
  pixmap (`cut`).
* `HookExchangeProofs`: type correctness; `HandlerKeepsLock`, `OwnMessage`, `NeverWaitsForItself`,
  `IdleReleasesLock`, for any depth of nesting, any number of messages and clients. The invariant says that only the
  innermost call of the stack can be between `WriteMessage` and `EnterHookMsg`, that the frames
  below it wait for what they have sent and have read their own parameter, and that the requests of
  `global_lock` never exceed the calls that have begun. `HandlerKeepsLock` needs besides that the
  messages of the stack are numbered from the bottom up, so that a hook inside a handler has a higher
  one, and that above a handler without one each handler has requested the lock once more. The
  type invariant is proved only: no run checks it.
* `EventQueueProofs`: type correctness; `FreeIsUnused`; `PipeCounts`; with their hypotheses `InOrder`
  and `AtMostOnce`. What is reachable along `next` is not inductive as it stands, so the
  invariant says that there is a division of the structures: `own` gives each to a display, `use`
  calls it fresh, queued, taken or free, and `head`, `tail`, `qfree`, `next` and the client's local
  pointers (`ShapeInv`) go only where the division allows, at each of the stores between which the
  daemon may come. A reachable set is the least set closed under `next`, so it lies in the part of
  the division it begins in. `PipeCounts` is a law
  of its own: each step moves both sides alike, and holds for all pipes and clients;
  `EventsInOrder` for clients that take from the front only, `EventsAtMostOnce` for clients that
  put nothing back or one display. The last is the exact limit: with two displays and a put-back
  TLC refutes it, and the step of the proof that fails there is `EventQueue.c:82`.
* `RegionProofs`: type correctness and `RegionIsArea`, for every size of the area. The invariant says
  of the bands what the code relies on: the spans of a band are apart and in order, each band is
  above the next, two that touch differ, a point is in the area if it is in a span of a band, and
  the extents are the smallest rectangle around it. Each loop has a lemma for its round, which says
  which part of the work is done (the points left of those that the loop stands at, the rows above
  `ybot`, the powers of two in `dx`), and one for the loop, by a number that every round takes from.
  So every operation is right on any regions, with bounds or without: union, intersection,
  difference and symmetric difference, moving, and `XShrinkRegion` by any `dx` and `dy`, whose runs
  of length 2^k are shown to cover each other. From the invariant it follows that the rectangles
  are those of `Canonical`, each once and in order, and that `XRectInRegion`, which stops at the
  first rectangle that settles it, is right about every rectangle.
* `EventMaskProofs`: type correctness; `WalksAreSafe`, `ChainsIntact`, `SelectorsGetEvents`,
  `OneKeyPressClient`. A chain is the least set that is closed under `next` from the anchor on. The
  invariant (`Sound`, until harm is done) says what is in a chain (`NodesHold`: nodes that are not
  freed, of living processes, and of that owner) and that the `prev` of what `next` leads to leads
  back, but for the first node while a client in `addResource` has redirected it (`RingsHold`). So
  no node is led to from two places, and taking a node out, or putting one behind the anchor,
  changes the chain by exactly this node. Besides: a client that looks has met the nodes up to
  the one it stands at (`LookHolds`); a pair is in both chains or its client is between the stores
  of one call (`PairsHold`, `AddHolds`, `BetweenHolds`); one client at a time is between the
  stores on one chain (`OneAtATime`); a client has one node in a window's chain (`OneMask`), with
  the mask it has selected (`SelectedHold`). The order in which the nodes of a freed chain are
  taken out is not known (`FoldSet`), so the lemma on it is by the least number of nodes for which
  it could fail. The type theorem covers the harmful steps too.
* `TableProofs`, in a section on recursion, seven on modules and one on all of them:
  * Recursive functions. A recursion on natural numbers in which each step goes nearer to an end
    defines a function (`RecursiveFunction`), and what holds at the end and passes back holds
    everywhere (`BackFromEnd`). Both are least-number arguments over a set of places where it fails,
    which is how the two sections that need it do without induction rules.
  * `HeapPages`: type correctness and `PagesMatchBlocks`, for any heap, page size and requests;
    `SearchIsFirstFit`, because none of the places that the search skips has room.
  * `Gravity`: type correctness and `DriftBound`, for all sizes and drags. It is not inductive: `Wave` says that
    within one direction the error only goes up and down with the parity of the size.
  * `GCCache`: type correctness and `DrawsWithGC`, from `CacheInv`: but for what is set behind it, each space shows
    the values that the cache has noted.
  * `AtomTable`: type correctness and `AtomsArePermanent`, for any threads and names. An entry that is not finished
    reads as the empty string, which entry 0 is found for first; entries that are finished have
    addresses of their own, below `AtomTail`.
  * `ResourceCount`: type correctness and `UsedIsThere`. A pixmap is counted once more than the
    windows that show it, and a cursor that a list holds and a living window shows is counted
    twice, or a client is about to count it; the argument is about the cardinality of these sets.
  * `ContextTable`: `SavedIsFound`, and for finitely many keys type correctness. The table holds the entries that are saved, each in the bucket
    that the mask gives it, and a thread that is about to link an entry has found none for its key.
    The count is that of the entries less the threads that are about to count. That the table has
    a bucket at all after each resizing is again an argument about a recursion (`Buckets`).
  * `WindowTable`: type correctness and `WindowIsFound`. A bucket is the least set that holds
    its first entry and the next one of each, and the invariant says, until a clash, that a
    structure is in the bucket of its handle, that only one entry of a bucket has no next one, and
    where the loops of clients can stand: at an entry of the bucket, with nothing found before it.
    Lemmas say what one store does to the least set: appending adds the entry, taking out removes it.
  * `MCSharedTables`: a behaviour of it is one of each part (`PartsKeepTheirSpecs`), so that `TypeOK`
    and all that is proved of the parts holds of the specification that `tables_core` checks.

The theorems assume what the modules' ASSUMEs say of the constants, and `PixmapCache` its
`Discipline`.

Of `ContextTable` they assume besides that what is saved is never mistaken for the mark of what is
not (`UnsavedAssumption`), and of `EventMasks` that the null pointer is no node, window or client
and no client a window.

Only model-checked:

* Liveness (`ExecReturns`, `UmHandled`, `NextEventReturns`, `DeadAreReaped`): the prover has no
  rules for fairness and ENABLED.
* `ResourceIsBest`: the operators of `ResourceDatabase` are RECURSIVE, as the code is, and the prover
  does not reason in modules that reach one.
* `ClientTypeOK` of `MCClientData`: it puts the parts' types together, which are proved above but for
  that of `ResourceDatabase`.

## Where the code and what is said of it disagree

Five violation runs show it, listed under "findings" in `PROJECT.json`. Also met, without a run:

Hooks and the lock

* `hook_msg` ends with `EbReleaseHookAccess` though it never requested `global_lock`
  (`ProcHookmsg.c:500`), so a handler in which a hook has run goes on without the lock.
* `hmtxAccess` is requested for every hooked message and never released (`access.c:145-167`).
* `XCopyPlane` returns without giving `global_lock` back when an argument is unusable
  (`CopyPlane.c:59`).
* `Daemon_shutdown` that does not get the lock leaves waiting clients alive (`register.c:42`).
* `Daemon_Thread_Close` and `threadcount` are not locked (`Thread.c:60`), and a display's queue is
  freed without regard to its readers (`EventQueue.c:242`). Both are reached through
  `XCloseDisplay` only, behind a request that does not return (`exec_close`).

Events and masks

* An event whose address finds the pipe full stays queued without one (`EventQueue.c:34-39`).
* With two displays that select an event, the daemon hands the original to the first and copies it
  for the second afterwards (`EventQueue.c:80-84`). If the first client has by then read and freed
  it and reuses the element for `XPutBackEvent`, the copy is of the put-back event: the second
  display gets that event, perhaps twice, and never its own. `client_core`
  checks `AtMostOnce` for one display, where nothing is copied; with two displays, 3 events and one
  put-back TLC refutes it in 38 steps (`event_order` has no put-backs).
* `checkEventMask` computes `mask & ((...) && current)`: it compares `KeyPressMask` instead of the
  masks only one client may select (`EventMask.c:9`).
* `Daemon_propagateEvent` looks at the mask of one window and passes on to the parent once
  (`EventQueue.c:114-124`); its only callers are in `#if 0`.
* `Daemon_freeEventMask` frees the anchor of a chain first, and unchaining the first node then writes
  to it (`EventMask.c:59-63`); `um_freeResources` has lost the anchor of a process's list when it
  comes to free it (`UMFreeResources.c:17`).

Windows

* `1 << 10` without parentheses leaves two of 1024 buckets of the window table
  (`WindowHash.c:5`), and the bucket is computed before the desktop's alias (`WindowHash.c:10`): the
  root window can have two structures, or the last one be linked behind a pointer that is not
  initialised (`WindowHash.c:32`).
* `XQueryTree` enumerates children with the handle of the outer loop (`Tree.c:33`);
  `XTranslateCoordinates` returns the destination as the child (`Window.c:77`).
* The condition of `ProcFrame.c:23` is an assignment: each resize makes the gravity static.
* The comment of `CalcDelta.c:3-8` says that rounding errors are eliminated; a drag from 10 to 11
  and back leaves a centred child a pixel off. What holds is `DriftBound`.

Drawing

* `XDrawString` and `XDrawImageString` set mixes and colours behind `ebhps->current`
  (`DrawText.c:41`, `DrawText.c:60`), as `XCopyPlane` does (`CopyPlane.c:82`): later drawings show them.
* `XFreeGC`, `XFreeFont`, `XFreeCursor` and `XUndefineCursor` do nothing. `XDefineCursor` never
  gives the old cursor's count back, and `um_destroyWindow` not the cursor's (`Cursor.c:22`,
  `UMDestroyWindow.c:16-19`). Pixmaps are in no list and stay when their client leaves.

Atoms and properties

* `XGetAtomName` accepts `LastAtom` itself but not 0, the atom of the empty string, and nothing stops the table at its 1024 entries.
* `XChangeProperty` is a stub (`Stubs.c:245`), so `UM_CHANGEPROPERTY` is never sent;
  `XGetWindowProperty` returns a buffer it has not filled (`Property.c:173-175`).

Resource database and regions

* `GLOOSE` ("loose only", `myXrm.c:2037`) goes from a tight inner table to the next of the same name
  without looking whether that is loose. With the entries `.a*a`, `.a*b.a`, `*b*a` the query `A.a.A.a`
  (`a` with class `A`) returns the value of the first, though its `a` is bound tightly at the top.
  `TakenForLoose` describes these databases. `resourceQuarks` is one for all databases, whose locks
  are their own.
* `XOffsetRegion` moves the extents of an empty region. Regions of `XPolygonRegion` need not be
  canonical: `PtsToRegion` joins single rectangles only.

## Not modelled, and why

Most of the source is not EverBlue's own: `xlibi18n`, `xcms`, the larger part of `Xmisc`,
`myKeyBind.c`, `myImUtil.c` and the headers are the X Consortium's, many of the lines are tables of
character sets, and what they compute has no state that others share. Of them the event functions,
the regions and the resource database are modelled, because the rest of Xlib and its users rely on
the shape of their structures.

* Grabs: the hook returns before it asks for them, and their users are in `#if 0`. Much of
  `ProcWindow.c`, `NextEvent.c` and `Pointer.c` is in `#if 0` as well.
* Properties: their only writer is a stub.
* Fonts, colours, keyboard, images, window hints: conversions between values of X and of PM.
* The connection of the event pipe, the classes and menus of PM, and the set-up of the shared heap
  by the first and the last process: OS/2 orders these, and they appear as single steps.
* The branch of `EbHookGetWriteAccess` without force: both hooks ask with it (`ebhook.c:85`, `:109`).
* In `EventQueue`, the `_XQEvent` that `_XPutBackEvent` allocates when the free list is empty
  (`PutBEvent.c:45`); in `WindowTable`, borders and windows whose parent the table does not have; in
  `ContextTable`, a request of its mutex that times out; in `GCCache`, `XCopyArea` through a clip mask
  (`CopyArea.c:54`), which draws on pixmaps of its own.
* `PolyReg.c`; of `myXrm.c` the parser, the enumeration, the growth of hash tables, and lists that
  are too short.
* Clients with several threads in `DaemonLifecycle`.

## Plan

Done: the call into the daemon, hooks, life cycle, events, pixmaps with processes that end, and the
tables and caches, with proofs of all modules but one. Left, in this order:

1. Clients with several threads in `DaemonLifecycle`.
2. The handshake of the pipe, and the shared heap's first and last process.
3. `XPolygonRegion` into `Regions`; enumeration and growth into `ResourceDatabase`.
4. A proof of `ResourceIsBest`, which needs its recursions written as loops or functions, as those
   of `Regions` are, and an invariant that says which entries a tree holds.
