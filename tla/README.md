# A TLA+ model of spacedisplay

spacedisplay scans a directory tree, shows how much space its files and
directories take, and keeps what it shows up to date while the file system
changes. This directory has TLA+ modules that model its core, TLC
configurations that check them on small instances, and proofs that TLAPS checks
for every instance.

## 1. The system

| Part | State it keeps | Operations | Who calls it |
|---|---|---|---|
| `SpaceScanner` (`lib/src/spacescanner.cpp`) | `scannerStatus`, `runWorker`, `scanQueue`, `scanMtx`, `currentScannedPath`, `watcherLimitExceeded`, excluded paths | a worker thread: take a request, watch, list, store, wait while paused, queue what was found, drain notifications; calls: pause, resume, stop, rescan, limits, destroy | the GUI thread (`SpaceView`) |
| Scan queue (`addToQueue`, `addChildrenToQueue`) | the list of requests (path, recursive) | add one path, add the children of one directory, take the first | the scanner |
| `FilePath` | names from the root down, a CRC per level | construct, normalise, add, go up, compare, make relative | everything |
| `FileDB` | tree of `FileEntry`, map from path CRC to entries, counts, used space, `bHasChanges` | replace the children of a path, find, visit, counts | scanner's worker; GUI (`processEntry`) |
| `FileEntry` | size, name, children in bins by size, deletion mark | add, remove marked, set size, visit | `FileDB` |
| `SpaceWatcher`, `LinuxSpaceWatcher` | event queue, map from watch descriptor to path, count | watch a directory, read notifications (own thread), pop | scanner's worker |
| `FileIterator` (Linux) | open directory, current entry | next | scanner's worker |
| `PriorityCache` | values, last access of each key | get, put, trim, set maximum | texts drawn by the GUI |
| `Logger`, `LogDialog` | history, new-lines flag | log, clear | scanner, GUI |
| `SpaceView` | current path, history of paths, depth, spaces shown, path under the mouse | navigate, change detail, hover, click, rescan, replace the scanner | GUI events, timer |
| `FileViewDB`, `FileEntryView` | a copy of the part of the database in view, with an area on screen for each entry | update, hover, find by path | `SpaceView` |
| `MainWindow` | actions enabled and checked, status line, whether the watch limit was reported | the actions; updates after each of the view's | GUI events, `SpaceView` |
| `StatusView`, dialogs, popup | parts of the status bar | draw; a popup may ask for a rescan | GUI |

How they interact. The GUI thread owns a `SpaceScanner` and calls it; calls that
change its state take `scanMtx` for a moment. The worker thread holds `scanMtx`
only around the queue: it lists, stores and waits without it, and it sets
`scannerStatus` to IDLE without it. `FileDB` has a mutex of its own. The watcher
thread turns inotify's notifications into events in `eventQueue` (a third
mutex), which the worker drains at two places of its loop. Every 12 ms the GUI's
timer asks the database whether it has changed; if so `SpaceView` has
`FileViewDB` copy what is in view, and `MainWindow` brings buttons and status
line up to date.

What is hard about it:

* three threads and a file system that changes while it is read; what was listed
  is stored later, when notifications about newer changes may already have been
  drained, or lost, or not yet been read;
* the queue: a request replaces others, a notification's request is not
  recursive, and what was found is sometimes not queued because another request
  covers it;
* the status is one atomic variable that the worker, the client and the
  notifications all write, not all under the mutex;
* stop and destruction wait for the worker;
* the watcher thread and the scanner share a map from watch descriptors to
  paths, which inotify numbers, ignores and loses as it likes; its object is
  built and taken down while the thread runs;
* what is on screen, the buttons, the history and the path under the mouse are
  each brought up to date by some handlers and not by others, and the scanner
  may change the database between any two steps of them.

What makes each part correct:

* scanner: at rest the database shows the disk; orders are carried out; stop and
  destruction return; the mutex excludes;
* queue: no directory twice, nothing that was owed is lost;
* `FileDB` and `FileEntry`: sizes are the sums of what is below, bins are sorted,
  the map has exactly the entries of the tree, counts agree;
* watcher: an event names the directory that changed, events stay in order,
  watches, map and count agree;
* `FilePath`: comparing by CRCs is exact; a path survives being a string;
* cache: the keys used longest ago go, and no pointer dangles;
* view: the history's pointer is at the current path; what is on screen and under
  the mouse is what the database has there; the area is divided exactly;
* window: a button that is enabled does something; a watch limit that was hit is
  reported.

## 2. Modules

| Module | What it is |
|---|---|
| `Sublists` | what is left of a list when items are erased; sums of sizes |
| `SublistProofs` | lemmas about sublists, sequences and sums over finite sets |
| `ScanQueue` | requests, path comparison, `addToQueue` and `addChildrenToQueue` as closed forms, and what a queue owes |
| `ScanQueueLoops` | the loops of the code as recursive functions, to compare the closed forms with |
| `SpaceScanner` | worker, client, watcher thread and file system; safety and liveness properties |
| `MCSpaceScanner` | small trees for TLC, and two claims of comments and tests that the code does not keep |
| `SpaceScannerProofs` | lemmas about the queue's operators and loops, for every queue, and theorems about `SpaceScanner`, for every finite tree and every bound |
| `FileTree` | what `FileDB` promises: a tree in which the children of a directory are replaced at once |
| `FileDB` | `FileDB` and `FileEntry`, step by step; shown to implement `FileTree` |
| `FileDBProofs` | theorems about `FileDB`, for every set of paths and every assignment of CRCs, and that it implements `FileTree` |
| `MCFileDB` | a small tree, an assignment of CRCs, and a claim of a comment that the code does not keep |
| `SpaceWatcher`, `MCSpaceWatcher` | `SpaceWatcher` and `LinuxSpaceWatcher` with the file system and inotify |
| `SpaceWatcherProofs` | theorems about `SpaceWatcher`, for every set of directories and paths |
| `FilePath`, `MCFilePath` | paths as strings cut into parts, their CRCs, and comparison |
| `FilePathProofs` | theorems about `FilePath`, for strings of every length and every CRC function |
| `LRUCache` | what `PriorityCache` promises: the keys used last, in order |
| `PriorityCache`, `MCPriorityCache` | the map, the vector of owned keys and the counter; shown to implement `LRUCache` |
| `PriorityCacheProofs` | theorems about `PriorityCache`, for every set of keys, and that it implements `LRUCache` |
| `SpaceView` | the handlers of `SpaceView` and when `FileViewDB` is updated |
| `MainWindow`, `MCMainWindow` | `SpaceView` composed with the window: every event, and the scanner's thread between any two steps |
| `MainWindowProofs` | theorems about `MainWindow`, for every set of paths |
| `EntryView`, `MCEntryView` | the copy in view and the division of the area |
| `EntryViewProofs` | theorems about `EntryView`, for every set of files and sizes, every depth and every window |

`SpaceScanner` and `ScanQueueLoops` use `ScanQueue`, and `MCSpaceScanner` both; `ScanQueue`, `FileDB`,
`FilePath` and `EntryView` use `Sublists`;
`MainWindow` extends `SpaceView`. The scanner is
the environment of `SpaceView`, which takes from it what `SpaceScanner` and
`FileDB` say: its status, its flag and what it puts into the database. The
database is the environment of `EntryView`. `LinuxSpaceWatcher` appears twice: as
the scanner sees it in `SpaceScanner`, and with its descriptors in `SpaceWatcher`.

### How `SpaceScanner` corresponds to the code

`wpc` is where the worker is in `worker_run`, `cpc` what call the client is in.
Each action is a piece of the code between two points where another thread may
see or change something that matters: a mutex taken or given up, a read or write
of an atomic, an access to the file system, the database or the event queue.

| Code (`spacescanner.cpp`) | Actions |
|---|---|
| constructor, 15-51 | `Init` |
| `worker_run`, 82-92 | `Loop`, `LockQueue`, `IdleWait` |
| `checkForEvents`, 59-78 | `PopEvent` for each event, `NoMoreEvents` |
| 103-113 | `NextRequest` |
| 115-120 | `AddDir` |
| `scanChildrenAt`, 169-208 | `OpenDir`, `ReadEntry` for each entry, `EndListing` (with 129-133) |
| 136 and `FileDB::setChildrenForPath` | `SetChildren`, `StoredChildren` |
| 139-142 | `WaitWhilePaused` |
| 144-148 | `Requeue` |
| 131, 151-154, 163 | `BreakLock`, `Finish`, `Report` |
| `pauseScan`, `resumeScan`, `stopScan` | `OrderBegin` (reads the status), `OrderSet` (writes it), `StopIdle`, `StopReturn` |
| `rescanPath`, 368-384 | `RescanBegin`, `RescanPush` |
| `getWatcherLimits` | `GetWatcherLimits` |
| destructor, 53-57 | `DestroyBegin`, `DestroySet`, `Join` |
| kernel, `LinuxSpaceWatcher::readEvents` | `Changed`, `ReadEvents` |

A path is the sequence of names below the root. `db` and `disk` are sets of
directories: files carry no control in the scanner (a file that changes is a
notification for its directory, as a subdirectory is). The order in which new
directories are queued is any order, since the code's depends on the directory
and on sizes. `FilePath`'s CRCs only spare comparisons in `compareTo`.

Two history variables serve the properties. `missed` has the directories that
must be listed again and of which the code, by what it does, has lost track: one
that changed while nobody watched it, one whose request a notification replaced,
one whose request was thrown away by a stop, by `Finish`, or by a listing that
was broken off. It is emptied again by a listing. `storesSince` counts the
directories stored since the client's last order.

### How `FileDB` corresponds to the code

`setChildrenForPath` holds `dbMtx` from its second step on, so that `processEntry`
and `findEntry` never see the inside of it; `fileCount`, `dirCount` and
`usedSpace` are atomics that are read at any time.

| Code | Actions |
|---|---|
| `FileDB` constructor, filedb.cpp 13-19 | `Init` |
| `std::sort` and lines 25-45, `markChildrenPendingDelete` | `MarkChildren`, `SortedListings` |
| the loop, a listed entry that is there: 47-65, `setSize` | `KeepEntry` |
| the loop, a new one: 66-92, `addChild`, `_addChild` | `AddEntry`, `AddToBin` |
| `onChildSizeChanged`, fileentry.cpp 182-232 | `OnChildSizeChanged`, once for each level |
| 94-98, `removePendingDelete` | `RemovePendingDelete` |
| 104-105, `_cleanupEntryCrc` 118-138 | `CleanupEntryCrc`, once for each deleted child |
| 106-111 | `Finish` |
| `processEntry` 212-223, `_findEntry` 162-205 | `ProcessEntry`, `FindEntry` |

An entry is named by its path from the root, which stands for the pointer and
for the chain of `parent` pointers. The `std::set` of bins and the chains in them
are one sequence, `children`, with `bin` giving for each entry the size of the
bin it was put into: that is not always the entry's size, and where the two
differ is what `ChildrenSorted` is about. A CRC is a set of bits and the CRC of a
path the symmetric difference of those of its names: nothing else is known of
`crc16`, and `NameCrc` chooses which names collide. A file and a directory may
have the same name at different times (`Kind`).

`ImplementsFileTree` maps the tree of `FileTree` to the entries with their own
sizes, that is less what is in them; during a call the promise is still the tree
as it was when the call began, and the last step of the call is the one that
replaces it.

Finding by path is not exact. CRCs of paths are XORs of those of names, so equal
names on the way cancel out, and `_findEntry` stops comparing names when it has come
to the root. So `root/x/x/a` finds `root/a`, if that is first in the bucket, and a
listing of the one is stored in the other. `Mistaken(p)` has the entries that a path
may be taken for: those whose names `p` ends with, if the CRCs of the names before
those cancel out. `FoundOrMistaken` says that nothing else is ever found and that
for the path of an entry something is. The other properties hold of the entry found,
whichever it is: `FileTree` has a constant `MayBe` for what a path may be taken for,
and replaces the children of that entry. That what is found is always the path's own
entry (`FindExact`) is what the comment in `_findEntry` claims; `MCMistaken` shows
that it is not.

`SpaceScanner` uses the database as a set of directories and takes finding by path
to be exact. It is a model of trees in which no path can be mistaken for another.

### How `SpaceWatcher` corresponds to the code

| Code | Actions |
|---|---|
| base and derived constructors, `create` | `phase`, from "base" on; the thread runs from the first |
| `addDir`: `inotify_add_watch`, then the entry in `inotifyWds` | two actions, with `adding` between them |
| `run`, `readEvents` | `rpc`: look at `runThread`, read the kernel's queue into `watchBuffer`, process an event at a time |
| `_addEvent`, `popEvent` | the queue the scanner drains |
| `rmDir` for `IN_IGNORED` | `Forget` |
| destructors, derived and base | the last phases, ending in the join |

A directory has an identity (`Dir`) apart from its place, so that a rename moves
it with its watch and all below it. The kernel's queue is bounded and overflows as
inotify's does. `moved` and `orphans` are history: directories that moved since
they were last added, and descriptors whose `IN_IGNORED` went by before there was
an entry. The properties exempt them, because for them they would be false: that
is what a rename and the race in `addDir` cost.

### How `FilePath` corresponds to the code

A string is a sequence of characters, of which only the two slashes matter; a CRC
is a set of bits and `Crc` any function from strings to them. Each action is a
constructor or an operation on `path`; `other` is a copy made at some time, to
compare with. Exceptions are `thrown`. The separators are those of the Linux
build. A path made relative keeps the CRCs it had, with the parts that went: the
program compares none of those, and the properties leave them out.

### How `PriorityCache` corresponds to the code

`keys` is the vector `keys` of owned `KeyAccess` objects, as a set since its
order means nothing between calls; an object is known by the counter when it was
made. `values` maps keys to a value and the object it points to. `Cut` is the part
of `trim` behind its early return. The abstract cache is a sequence, the key used
last in front, and `ImplementsLRU` gets it by sorting.

### How `SpaceView` and `MainWindow` correspond to the code

A handler of the GUI is two actions: the view's part, and the window's callback,
which `pending` names. The scanner's thread may step between them. Inside a part
the scanner is read once, in `FileDB::processEntry` under its mutex. A path is the
sequence of names below the root scanned; `rootFile` has the path, entries and
spaces of the copy, without the areas, which `EntryView` has. Where the mouse is
is not part of the state: `UpdateHoveredView` finds any entry on screen.
After a scan that could not be opened there is no `currentPath` while the old view
stays on screen. What comes next follows the null pointer: most often the repaint
that `setScanner` makes at once (`drawViewTitle`, a branch of `StartScan`), and where
no title is drawn, a later paint or the mouse (`Crash`). The worker stores what it is
at after an order to pause, so the database changes in the view's eyes until the
status is IDLE. `WindowUpdate` reads the progress twice, as the code does, for the
status line and for the report.

| Code | Actions |
|---|---|
| `timerEvent`, `onScanUpdate`, `allocateEntries` | `TimerEvent`, `OnScanUpdate`, `AllocateEntries` |
| `navigateBack`, `navigateForward`, `navigateUp`, `navigateHome` | `GoBack`, `GoForward`, `GoUp`, `GoHome` |
| `mouseMoveEvent`, `mousePressEvent`, `mouseReleaseEvent` with the popup | `Hover`, `Enter`, `RightButton` |
| `increaseDetail`, `decreaseDetail`, `wheelEvent` | `MoreDetail`, `LessDetail` |
| `resizeEvent`, `setCustomPalette` | `Resize`, `SwitchTheme` |
| `startScan` with `setScanner` and `clearHistory` | `StartScan` (`OpenScanner`, `CloseScanner`) |
| `togglePause`, `refreshView`, `toggleFree`, `toggleUnknown` | `TogglePause`, `RefreshView`, `ToggleSpace` |
| `MainWindow::onScanUpdate`, `updateAvailableActions`, `updateStatusView` | `WindowUpdate` |

### How `EntryView` corresponds to the code

One action is a change of the database, the disk's space or the view's settings
and the `FileViewDB::update` that follows it. The tree of views is a function from
ways, where a way says at which place among its siblings each view on it is, and the
code's recursions are recursive functions: over rounds of a loop (`Reconstruct`),
over how many children an area is divided among (`AllocateChildren`) and over depth
(`Levels`). Sizes do not overflow, and the comparison with `minSize`, which the code
makes of floats, is made of integers.

| Code (`fileentryview.cpp`) | Definitions |
|---|---|
| `FileEntry::forEach` over bins (`fileentry.cpp`) | `Dirs`, `Orders`: the biggest first, those of one size in any order |
| `reconstruct_from`, 44-126 | `Reconstruct`; a round of its loop is `CopyRound`, with `AddUnknown`, `AddFree` and `AddEntry` |
| `allocate_view`, 189-205 | `AllocateView`, `Inner`; for the views of one depth at a time in `LevelBelow`, `Levels` |
| `allocate_children`, 218-324 | `AllocateFrom`: `Kept` (228-247), `FirstHalf` (249-269, in closed form how far the loop fills the first half), `Part` and `Halves` (271-324) |
| `set_child_rect` | `Shown` |
| `getHoveredView` | `Hovered`: at each view the first child that is hit |
| `getClosestView` | `Closest`: at each view the first child of the name that is big enough |
| `FileViewDB::update` | `Update` |

Views are used again from one update to the next. `init_from` resets those of
entries, so that only the areas of views of free and unknown space are stale until
they are allocated (`AreaOf`).

## 3. What is checked

| Run | Question | Result |
|---|---|---|
| `MCScanner` | With changes at any moment of a scan, calls of the client, an excluded directory and too few watches: do the critical sections exclude each other, is an order honoured, can a path be queued twice, is a listing that was owed lost by a rescan or by queueing what was found, is every directory out of date going to be looked at again, does the database show the disk when the scanner rests? | holds |
| `MCLiveness` | Do stop and the destructor return; does the scanner come to rest? In every queue on the way, do the closed forms do what the loops do? | holds |
| `MCFileDB` | Does a call leave what it was asked to store, whatever was there, with changes of size rising through the bins? With colliding CRCs, has the map exactly the entries of the tree, are the counts right at every step, does a path find its entry or one it may be mistaken for, and no other? | holds |
| `MCSpaceWatcher` | With renames, removals and a full inotify queue while the scanner adds watches: does the map follow inotify, are paths current, is what is dropped always listed afterwards, do events stay in order? | holds, but for what was moved or orphaned |
| `MCFilePath` | Are CRCs the same whichever way a path was made; is comparison exact though they collide; does a path survive being a string? | holds |
| `MCPriorityCache` | Does a pointer dangle; is what is dropped what was used longest ago? | no; yes |
| `MCMainWindow` | Through every order of events: is the history's pointer at the current path, is the screen current, is what a click acts on what is under the mouse, do enabled buttons do something, is a watch limit ever forgotten? | holds |
| `MCEntryView` | Is the area of a directory divided without gap or overlap and by sizes; do pixels and paths lead back to what is shown? | holds |
| `MCDisplaced` | Is every directory found scanned and watched, as `ScannerTest` requires? | violated |
| `MCRescanLost` | Is a rescan carried out "as soon as possible"? | violated |
| `MCMistaken` | Are "its name and names of all parents" compared with the path before an entry is taken for the path's? | violated |
| `MCThreadEarly` | Does the watcher thread start "after everything is initialized"? | violated |

The last four are disagreements between the code and what its comments and tests
say; PROJECT.json quotes them under "findings". Other places where the code is not
what one might expect are exemptions in the properties, and are named there and
under "hazards":

* `Coverage` and `SettledMatchesDisk` leave out the directories in `missed`, and
  `MCDisplaced` shows what that costs: a new directory whose request is displaced
  is `missed`.
* What changes while the limit on watches is reached, and a directory removed and
  made again between two listings, are `missed` too.
* `FoundOrMistaken` and `ImplementsFileTree` allow for entries that a path is
  mistaken for.
* `OrderHonoured` is about what the worker does after an order and not about how
  long an order lasts: a notification may end a pause.
* An excluded directory that appears under a watched one is scanned; a file
  replaced by a directory of the same name stays a file in the database.
* `PathsCurrent` and `MapMatchesWatches` leave out directories that moved, and
  descriptors orphaned by the race in `addDir` or a full queue.
* `RoundTrip` leaves out names with a backslash, which are legal on Linux.
* `ScreenCurrent` and `HoverIsShown` leave out a current path that is gone from
  the database: the old directory stays on screen under the new path. In that state
  `getPath` may also throw, when the path is a file's; the model goes on instead.
* Nothing promises that there is no `Crash`.
* `HoverFinds` leaves out views in a window without room for them: those of free
  and unknown space keep the area they had.

### Bounds

Trees of four directories: `Branch` has a directory with a subdirectory and one
beside it, so that requests can lie above, below and beside each other and be
removed independently, and there are two directories to be pushed as a batch. One change on
disk takes one of `MaxChanges`, one call of the client one of `MaxOps`; two calls
allow an order and its reversal, or a rescan and an order. `WatchLimit = 2` makes
the limit bite. Notifications are not bounded by themselves: there is one for each
change.

`FileDB`: any number of calls, one after the other, on eight paths. `Nested` has
four levels of directories of one name, so that a change of size rises through
several bins and a path is mistaken for one two levels above it, and files beside and
below them, one of which can be mistaken for the other. Under `MCCollision` all
names have one CRC: `/a` and `/f` share a bucket with what has three names, where
equal names cancel and different ones collide. Sizes 0 and 1 give sums that differ, equal
bins and the size zero.

`SpaceWatcher`: the root and two directories at five paths, one below the other
either way round or side by side; four changes allow one to be made, removed and
made again with another in between, or a rename of a directory with one in it;
two watches for three directories, and a queue of three events, so that both
limits are met. `MCThreadEarly` needs one change only.

`FilePath`: roots of up to two and strings of up to three characters, which has
every placing of both slashes; names of up to two letters with a CRC of two bits,
so that different names and different paths collide; three parts.

`PriorityCache`: three keys, two values and limits from 0 to 3; a key whose
supplier throws; six uses, so that each key can be used twice.

`MainWindow`: the root, a directory and one in it; depths 1 and 2; a history of
three, enough to push in its middle. Events are not bounded otherwise. States that
differ only in what the status line says are taken as one (`VIEW AllButMode`): no
step and no property reads `mode`.

`EntryView`: a directory of two files beside a file, free and unknown space: up to
four views to divide an area among, by sizes of which some are 0, some are equal
and one leaves pixels to be rounded; a limit of three children; a window of
300 by 345 pixels, whose halves are wide and high in turn, and one of 24 pixels'
height, which the title fills.

### Fairness

`FairSpec` has weak fairness for the worker, for the watcher thread and for the
rest of a call the client has begun. Each is a thread that the operating system
schedules, and whose waits are polling loops (`sleep_for` of 10 or 20 ms), so a
step that stays possible is taken. Waiting for `scanMtx` is weakly fair too: the
holder always gives it up, and the worker and the one client do not contend
forever because calls are bounded. No call of the client, and no change on disk,
is ever owed. `StopReturns` and `DestroyReturns` rest on the number of changes
being bounded: with changes forever, a notification may overwrite STOPPING each
time, and stop then waits until the scan ends by itself. The other modules have no
liveness properties: what the timer does every 12 ms is in `ScreenCurrent`, whose
exception is exactly the flag that the timer looks at.

## 4. What is proved

### `SpaceScanner` and its queue

TLAPS proves, for every finite set of directories closed under going up, every
set of excluded directories, every watch limit and every bound (the assumptions
`DirsAssumption` and `ScannerAssumption`):

| Theorem | Statement |
|---|---|
| `TypeCorrect` | `Spec => []TypeOK` |
| `QueueUniqueAlways` | `Spec => []QueueUnique` |
| `MutexHeldAlways` | `Spec => []MutexHeld` |
| `OrderHonouredAlways` | `Spec => []OrderHonoured` |
| `NothingOwedIsLost` | `Spec => NothingOwedLost` |
| `CoverageAlways` | `Spec => []Coverage` |
| `SettledMatchesDiskAlways` | `Spec => []SettledMatchesDisk` |
| `LoopsAlwaysAgree` | `Spec => []LoopsAgree` |

The argument. `Typed` adds to `TypeOK` that the worker's local variables are
empty where they are not in use: without it the listing of one directory might
be taken for the children of the next (`Locals`), and that `newPaths` has no
path twice, which `QueueUnique` needs.

`MutexHeld` is inductive by itself. `OrderHonoured` is not: `OrderInv` says
where the worker is when one directory has been stored. After an order to pause
it is in its waiting loop; after an order to stop it is not about to store,
because that is decided only when the order is not there.

`Coverage` is inductive together with two facts (`CoverInv`): the database has
with a directory all those above it (`DbClosed`), without which a removed
subtree might leave a part behind; and a recursive listing about to be stored
has all its directories but the excluded ones in `newPaths` (`StoreListed`).
`KeptStep` treats all steps that neither list nor store: what is noted in the
queue, among the notifications or as missed stays noted. The listing and storing
steps have a lemma each. `SettledMatchesDisk` follows: at rest nothing is
pending.

The queue's operators are closed forms, without recursion, so that they can be
reasoned about: lemmas show what items they leave
(`AddAllItems`), that paths stay different (`AddAllUnique`) and what is owed
(`AddAllOwed`, `AddChildrenOwed`). `NothingOwedIsLost` says also that what is found
or asked for is owed afterwards with all below it, since `addChildrenToQueue` may
return without adding.

`LoopsAlwaysAgree` says that the closed forms are what the code's loops do, in every
queue the scanner can have; the only fact about the queue it needs is that it is a
sequence of requests. The value of each loop after `n` rounds is shown to be a
closed form of its own, for every `n` (`AllUpTo`): what the loop of `addToQueue` has
kept is the list of those of the first `n` requests that are not erased
(`LeftClosed`), where nothing behind the first request for the path itself is, since
the loop ends there; adding the children one by one is adding them all at once
(`AddedEachClosed`), because siblings are not related to each other, so that none is
erased for the next (`EraseMore`); and what the search before that has found
(`LookedForClosed`) tells which of the three cases applies.

### `FileDB`

From `FileDBAssumption` (paths finite in number and closed under going up; `None`
is no path and no request; nothing about CRCs):

| Theorem | Statement |
|---|---|
| `MapMatchesTreeAlways` | `Spec => []MapMatchesTree` |
| `CountsMatchAlways` | `Spec => []CountsMatch` |
| `MarksCountedAlways` | `Spec => []MarksCounted` |
| `ChildrenAlwaysSorted` | `Spec => []ChildrenSorted` |
| `TypeOKAlways` | `Spec => []TypeOK` |
| `FoundOrMistakenAlways` | `Spec => []FoundOrMistaken` |
| `NewPathsAlwaysReported` | `Spec => []NewPathsReported` |
| `FileDBImplementsFileTree` | `NoTypeChange` implies `Spec => ImplementsFileTree` |

None is inductive by itself; `DBInv` is. That the map and the counts survive
`CleanupEntryCrc` needs that what lies below a deleted child is closed in the
tree (`Closed`, `BelowFacts`) and that deleted children do not contain one
another or the directory the call works on (`Places`). `ChildSets` says that the
bins have the children that are there, which a rise keeps only because the entry
it starts from is not being deleted: it is the directory the call works on or
lies above it, hence the lengths in `Places`. `Marks` is what `MarksCounted`
rests on: a listing names each entry once, so that each mark taken off was there.

`SizeInv` adds the bins: an entry is in the bin of its size, but for the one whose
change is rising, which is in that of its old size. It makes
the test in `onChildSizeChanged`, which looks for the child in the bin of its old
size and gives up when it is not there, one that always succeeds.

`CallInv` and `NewInv` compare the tree with what it was when the call began
(`before`): what is there is that and what was listed so far; what is marked is
what was there and is not listed; what is reported are the new directories. They
are about the entry that was found (`parentEntry`), which need not be that of the
path: the paths reported are put together from the path the call was made with, and
names of one directory's children are different under either.

`FoundOrMistaken` is a statement about the map alone, so that `DBInv` suffices
(`MapFinds`). For the path of an entry one is found because the entry itself, in its
bucket once, passes the comparison of names. If another one passes, the path ends
with its names (`HitIsEntry`), and as both have one CRC, that of the names before
them is empty (`CrcOfRest`), bit by bit: an even number of those names has it
(`Parity`).

The refinement adds two invariants. By `KindInv` an entry is what its name says.
By `OwnInv` the size that an entry has by itself is the one listed or the one it
had, once the change that is rising to it is added (`Own`): so a call changes
nothing that it should not, though the sizes of all directories above change one
at a time. Then the last step of a call is the step of `FileTree` that stores the
listing (`StepPromise`), the first is its request, and all between are stutters.

The hypothesis is about a constant, and is exactly what the code lacks.
`NoTypeChange`: no name is a file's at one time and a directory's at another, since
`setChildrenForPath` keeps an entry of the name whatever it is (filedb.cpp:53);
`FileTree` replaces it. It is listed as a hazard. The other theorems hold without it,
and all hold whatever CRCs cancel out.

### The other parts

Under the assumption that each module states about its constants:

| Theorem | Module | Statement |
|---|---|---|
| `CrcsAlwaysAgree` | `FilePathProofs` | `Spec => []CrcsAgree` |
| `CompareAlwaysExact` | `FilePathProofs` | `Spec => []CompareExact` |
| `RoundTripAlways` | `FilePathProofs` | `Spec => []RoundTrip` |
| `TypesAlways` | `PriorityCacheProofs` | `Spec => []TypeOK` |
| `PointersAlwaysLive` | `PriorityCacheProofs` | `Spec => []PointersLive` |
| `CacheImplementsLRU` | `PriorityCacheProofs` | `Spec => ImplementsLRU` |
| `CountAlwaysMatches` | `SpaceWatcherProofs` | `Spec => []CountMatches` |
| `MapAlwaysMatches` | `SpaceWatcherProofs` | `Spec => []MapMatchesWatches` |
| `PathsAlwaysCurrent` | `SpaceWatcherProofs` | `Spec => []PathsCurrent` |
| `DroppedOnlyWhileAddingAlways` | `SpaceWatcherProofs` | `Spec => []DroppedOnlyWhileAdding` |
| `AlwaysInOrder` | `SpaceWatcherProofs` | `Spec => []InOrder` |
| `HistoryAlwaysPoints` | `MainWindowProofs` | `Spec => []HistoryPoints` |
| `ScreenAlwaysCurrent` | `MainWindowProofs` | `Spec => []ScreenCurrent` |
| `HoverAlwaysShown` | `MainWindowProofs` | `Spec => []HoverIsShown` |
| `ButtonsAlwaysAgree` | `MainWindowProofs` | `Spec => []ButtonsAgree` |
| `LimitNeverLost` | `MainWindowProofs` | `Spec => []LimitNotLost` |
| `AreaDividedAlways` | `EntryViewProofs` | `Spec => []AreaDivided` |
| `ClosestAlwaysFound` | `EntryViewProofs` | `Spec => []ClosestFound` |

`FilePath`. The invariant is that a path is `Good` until it is made relative:
each CRC is the XOR of the one before and that of its name (`Chained`), and its
names have a slash where they should (`Shaped`). The constructor computes each CRC
from the beginning, with a fold; `FoldRuns` says that the folds are the same as
adding a name at a time, which is what `addDir` and `addFile` do.
`CrcsAlwaysAgree` and `CompareAlwaysExact` follow without a word about what `Crc` is:
paths of the same names have the same CRCs (`SameNamesSameCrc`), so that comparing
CRCs first never tells equal paths apart. For `RoundTripAlways`, `Laid` says where
in the string each name of the path is, and `Cut` where a string is cut; a string
in which the names are laid is normal already (`LaidNormal`), is cut just there
(`SplitAtCuts`), and so gives the names back (`LaidSplit`).

`PriorityCache`. `PointersLive` needs that no two owned keys are one object
(`KeysTyped` in `CacheInv`): only then does a trim that drops the keys used longest
ago drop just their values. It is stated of values and keys as parameters (`Sound`),
because an operation has states between its parts: `CutSound`, `AddSound` and
`TouchSound` are about one part each. For the refinement the owned objects are put
in the order of their last use (`Orders`; `OrderExists` says that there is one, `CutOrder`, `RemoveOrder` and
`FrontOrder` what taking objects out and putting one in front make of it), and that
is what the abstract cache does to its sequence. `LRUInv` adds that the limit is kept: without
it, a `get` of what is there might leave more than `FirstOf` does.

`SpaceWatcher`. `CountInv` adds to `CountMatches` that the entries are finitely
many, so that one more or less is counted, and that `addDir` is under way only while
the watcher is open: an entry made after the destructor began would be counted in an
object that is gone. `WatcherInv` holds three properties together. Descriptors are
different for different directories (`WatchesUnique`); what waits in the buffer and
in inotify's queue is sound (`QueueSound`): `IN_IGNORED` is the last event of its
descriptor, which no directory has any more, and all others are of descriptors with
an entry or about to have one. That is why forgetting an entry at `IN_IGNORED` never
forgets one in use, and why an event is dropped only during `addDir`. The
descriptors in `orphans` and the directories in `moved` are what is exempted.
`OrderInv` is about the notifications and both queues as one sequence. That the
names of a path are finite sequences (`WatcherAssumption`) is used when a renamed
directory takes those in it along.

`MainWindow`. `HistoryInv` adds to `HistoryPoints` that the pointer is in the history
also when there is no scanner, and that the history holds paths. `ScreenCurrent` and
`HoverIsShown` are inductive together (`ShownInv`), given `HistoryInv`: the mouse is
over an entry on screen, which lies below the current path, so that entering it
leads to a place that is there. `ButtonsInv` follows the buttons between the view's
part of a handler and the window's: they are right whenever the window is not about
to update them. `LimitNotLost` is inductive by itself: each handler of the view
either leaves the flags alone or takes the scanner's to the window's
(`LimitInView`).

`EntryView`. The invariant, `LayoutTypes`, is about what an update takes from the
one before: areas are areas, whatever they are. Each update divides them anew
(`UpdateDivides`).

* What is copied (`Reconstructed`): views of size 0 are views of entries and start
  without an area, and each view is no smaller than the one after the next
  (`GoodViews`). It would be wrong to say the next one: unknown space is put before
  free space, whichever is bigger. This holds after every round of the loop
  (`Before`, `RoundCopies`).
* What a division does: the halves have all of a rectangle (`HalvesFacts`,
  `CutFacts`). `allocate_children` does nothing in an area without room, so a gap is
  left if a half without room has a child. It has none that takes any space: a first
  half of two or more children has a third of the sum (`HalfFacts`), and so a pixel
  of a side of three or more (`PartFacts`); in an area of 2 by 2 or less only two
  children are left (`KeptFacts`, from `MIN_CHILD_PIXEL_AREA >= 4`; it is 50).
* `ChildrenDivide` is the induction over how many children there are
  (`AllocateFromDivides`, `Combined`), `LevelsFacts` the one over depth.

`ClosestFound` needs that the views beside each other which have names have
different ones, and that a view without a name has nothing below it (`GoodNames`,
`WellNamed`), for which entries of one directory must have different names
(`OwnNames`). Then there is at most one view to go on to at each name, and it is the
one above the view looked for (`NamedIsAbove`).

### Induction over data

The provers have no induction over numbers or sets that takes the statement as a
parameter. Where a sum of sizes or a fold has to be followed (`Total`, `FoldLeft`,
the concatenation of a path's names), a lemma takes the function that the recursion
defines as a given (`Sums`, `Xors`, `Flat`) and shows what it has at each argument by
a least counterexample (`Least`); another shows that there is such a function.

### What is only model-checked

* `StopReturns`, `DestroyReturns` and `ComesToRest`: liveness under fairness.
* `HoverFinds` and `Proportional` of `EntryView`, because they do not hold of every
  window, and only the run's are claimed. A view of free or unknown space that is
  left out in an area of few pixels has no width and no height, but keeps the place
  it had, where it is hit at one pixel. And in an area of one or two pixels the view
  with twice the size can be the one without a pixel, for integers are rounded down.

## 5. What is not modelled, and why

* Unmounting, a root that is removed, directories that cannot be opened.
* `Excluded` is constant in `SpaceScanner`: `rescanPath` reads the mount points
  again, in a race with the worker's search through them, which is a data race on
  vectors.
* Scan progress as a number, and the names of what is being scanned. Free and
  unknown space are inputs of `EntryView`. Sizes do not overflow.
* `StatusView`'s bar: floating-point weights from the widths of labels.
* `Logger` and its dialog: a list under one mutex that nothing else reads.
* Calls that find nothing to do leave the state as it is and are not steps.
* The Windows variants, drawing, icons, menus, platform queries, build files.

## 6. What would come next

1. `HoverFinds` and `Proportional` with the least window for which they hold.
2. A composition of scanner, database and view: what the user sees at rest is
   what is on disk.
3. `Excluded` as a variable of `SpaceScanner`.
