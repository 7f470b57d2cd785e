# libgroove, modelled and checked

TLA+ modules for the core of libgroove (`src/src/*.c`): the queues that connect
its threads, the playlist with its decode thread, the map from audio formats to
sinks, every sink of the library (fingerprinter, loudness detector, waveform,
encoder, player), and the saving of a file.  TLC checks them on small instances;
TLAPS proves their safety properties for every instance.

`PROJECT.json` maps every definition to the lines it models and lists the
runs, the properties, the hazards and the theorems.

## The system

libgroove plays, analyses and transcodes playlists.  An application edits a
playlist; one *decode thread* per playlist decodes the files and puts buffers
of audio in the queue of every attached *sink*; each sink is emptied by a
thread of its own: the fingerprinter, the loudness detector, the waveform, the
encoder, the player, or the application.

| part | state | operations | talks to |
|---|---|---|---|
| queue (`queue.c`) | linked list, `abort_request`, a mutex and a condition | put, get, peek, flush, purge, abort, reset | its users, through put/get/cleanup/purge hooks |
| playlist (`playlist.c`) | list of items, `decode_head`, `abort_request`, fill mode, `decode_head_mutex` and `decode_head_cond`, `drain_cond_mutex` and `sink_drain_cond` | insert, remove, clear, seek, set_fill_mode, play/pause, destroy; the decode thread | files; sinks, through `every_sink` and the hooks purge, flush, pause, play, filled |
| sink map and filter graph (`playlist.c`) | per audio format a stack of sinks, the graph and the parameters it was built for | attach, detach, set_gain; one frame | the decode thread; ffmpeg's filters |
| sink (`playlist.c`) | audio queue and its size in bytes, `contains_end`, `min_audioq_size`, the request for another size | buffer_get/peek, set_buffer_size, attach, detach | playlist, reader |
| fingerprinter, loudness detector, waveform | thread, `info_head`, the analysis, `info_queue` and its count, `info_head_mutex`, `drain_cond`, `abort_request` | attach, detach, info_get/peek, position; purge and flush hooks | sink, playlist's hooks, application |
| encoder | thread, buffer queue, `encode_head`, format headers | attach, detach, buffer_get; hooks | sink, ffmpeg |
| player | device stream, play head, event queue, helper thread | attach, detach, device callbacks, events | sink, libsoundio |
| buffer | reference count | ref, unref | all of the above |
| file | metadata, seek request, temporary file of a save | open, save, close | decode thread, disk |
| os | mutexes, conditions, threads, `groove_os_init` | thin wrappers | all |
| groove, util | none | versions, conversions | |

What is hard here, and what the properties are about:

* **Lost wakeups.**  Three kinds of condition variable (queue, `decode_head_cond`,
  drain), each signalled once and some without the mutex the sleeper tests under.
* **Lifetimes.**  An item is freed by the application while buffers, infos, the
  decode thread and sink threads may refer to it.  Purge hooks must reach every
  reference, and one may be out of their reach (in a thread's hands).
* **Back pressure.**  A queue must neither overflow nor leave its producer
  asleep beside room.
* **Structure under every order of calls**: the list of items, the queue's list,
  the stacks of the map, and counters that hooks keep.
* **Termination**: destroy and detach join threads that may be asleep.

For each part, what makes it correct: a queue is an atomic FIFO whose blocked
reader is woken; a playlist's list is sound and nothing in it or in an attached
sink's queue dangles; its decoder sleeps only with a reason, finishes the
playlist and lets itself be joined; every sink gets audio it accepts, at its
gain, from a graph that is up to date; an analysing sink reports every item
once, in order, named, bounded, and forgets items that are gone; an encoder
returns every byte it muxed before it says it is done; a player's helper and
callback agree on the stream; a buffer is freed once, by the last holder; a save
leaves the old file or the new one; `groove_os_init` runs once and nobody
passes it before it is done.

## The modules

| module | models | built on |
|---|---|---|
| `GrooveQueue` | what `groove_queue_*` promises: each call one step, cut by a sleep | `KeepSeq` |
| `GrooveQueueList` | the same code, node by node, hooks and loops of flush and purge included | |
| `GrooveQueueRefinement` | that `GrooveQueueList` **implements** `GrooveQueue` | `GrooveQueueList`, `KeepSeq`, `GrooveQueue` (INSTANCE) |
| `Playlist` | decode thread, application thread, one reader per sink | `KeepSeq`; the contract of `GrooveQueue`, one reader each |
| `SinkMap` | the map, the comparison of formats, the branches of the graph, rebuilds | `KeepSeq` |
| `KeepSeq` | what a purge of a queue leaves: a filter of a sequence, in a form to prove about | |
| `SinkFeed` | what one sink sees of the playlist: its queue, the hooks, attach and detach | `KeepSeq`; the contract of `GrooveQueue`, one reader |
| `InfoSink` | fingerprinter, loudness detector and waveform, as one module with a `kind` | `SinkFeed` |
| `EncoderFormat` | from the format asked for to one the codec takes; operators only | |
| `Encoder` | encode thread, codec and muxer, the queue of encoded chunks and its reader | `SinkFeed`, `EncoderFormat` |
| `Player` | helper thread, device callbacks, hooks, pause, attach and detach | `SinkFeed` |
| `GrooveFile` | open, tags, save, save_as, a decoder of the same file; failures and crashes | |
| `GrooveFileProofs` | the proofs | `GrooveFile`, TLAPS |
| `GrooveQueueListProofs` | the proofs, of the refinement too | `GrooveQueueRefinement`, `KeepSeqProofs` |
| `KeepSeqProofs` | lemmas about filtered sequences, by induction | `KeepSeq`, TLAPS |
| `PlaylistPartsProofs` | the proofs about the two parts `Playlist` takes for granted | `GrooveQueue`, `SinkMap`, `KeepSeqProofs` |
| `PlaylistProofs`, `InfoSinkProofs`, `EncoderProofs`, `PlayerProofs` | the proofs | the module they are named for, `KeepSeqProofs` |
| `MCGrooveQueue`, `MCPlaylist`, `MCSinkMap`, `MCInfoSink`, `MCEncoder`, `MCPlayer`, `MCGrooveFile` | the instances TLC checks | |

Definitions are named after the C functions, fields and conditions they stand
for; a definition called a *mutant* is a plausible mistake, used to see that
the property named in `PROJECT.json` notices it.  What an application has chosen
and may do is a record `setup`, picked in `Init` from the constant `Setups`, so
that one run covers several uses.  A variable marked *history* belongs to no
code and no guard reads it.

### GrooveQueue and GrooveQueueList

A call of `queue.c` holds the queue's mutex from its first line to its last,
but for `pthread_cond_wait`.  So in `GrooveQueue` a call is one step, or two
with a sleep between: `waiting[t]` is `"no"`, `"asleep"` or `"woken"` (signalled
and not yet through the loop again), `call[t]` says whether `t` sleeps in get or in
peek, and `ret[t]` is what the last call returned.  `Signal` releases one
sleeper; a wait may also end by itself (`SpuriousWake`).  Peek returns without
passing its wakeup on, and reset may come at any time, as in the code.

`GrooveQueueList` has the nodes (`first`, `last`, `next`, `obj`, `live`), the
mutex, and a program point inside the critical sections: put allocates and fills
its node *before* it locks, so two callers interleave there; flush and purge
take one turn of their loop per step.  `accounted` is what the put, get and
cleanup hooks of every user count.  The refinement mapping `AbstractQueue` of `GrooveQueueRefinement` is
the chain of nodes seen from `first`, with the effect of flush and purge taken
when they enter, that of put when it signals and that of get when it returns.

### Playlist

One step per stretch of code nobody else can look into.  The decoder's program
counter `dpc` follows `decode_thread` and `decode_one_frame` line by line:
lock, top of the loop, tell the sinks of the end, wait, check for room, seek,
flush, read a packet, label a buffer, put it in each sink, advance.  `owner` is who holds
`decode_head_mutex`; `drain_cond_mutex` is held between steps only while the
decoder is between its check and its sleep (`DrainFree`).

The decoder unlocks `decode_head_mutex` before it sleeps for room and goes on
*without* it afterwards (playlist.c:821-824).  The module does what the code
does: from then on (`strayed`) the application's steps come in between the
decoder's.  Where the decoder then meets a freed item or a sink that left
the map, `DFault` stops it and `fault` says so.  Memory is otherwise taken to be
sequentially consistent, and unlocking a mutex one does not hold to leave it
free, as a default glibc mutex does.

The application runs one call at a time, in as many steps as it releases or
waits for something: `RemoveItem`, `PurgeSink` per sink, `RemoveSignal`,
`RemoveFree`; `Detach`, `DetachFlush`, `DetachMap`; `Destroy`, `Clear` and the
rest, down to `DetachAll`, in which `every_sink` follows a stack item that
`groove_sink_detach` has just freed (573-578, 968).

The room is looked for once per packet (816); then every frame of the packet goes
through the graph (715-729) and every entry of the map is asked for all the buffers
it has (183-224).  So a turn brings each format up to `most` bytes, in buffers of
any sizes in `bytes`, as many as it takes and in any order that the walk over the
map allows: `DReadPacket`, then `DTake` (the buffer is labelled, 200) and `DPut` per
sink of the entry (216), `DWalked` at the end of a walk, `DReceived` when the
codec has no more.  How a packet is cut is ffmpeg's, and chosen freely.  With
`"drain"` the codec has AV_CODEC_CAP_DELAY: at the end of a file `DDrain` tells the
graph, and turns that bring something are followed by others (680-686).  `format`
says which sinks share an entry and so a buffer.  A buffer's `src` is the file it was
decoded from and `item` the label it got.  `unheard` records that a seek asked for
a flush while the decoder slept for room.

### SinkMap

Everything is under `decode_head_mutex`, so each call is one step.  What a sink
`Wants` is a record of the lists it set (as sets of ranges), flags, sample count
and gain; `Compatible` is `sink_formats_compatible`, asymmetric and with its
test of one flag in place of two.  A new sink is compared with the first of each
stack only.  A build gives each entry of the map a branch, unless it wants an
output of `asplit` that is taken (`Pad`, `Clashes`); it saves the parameters
*before* it knows whether it succeeds.  `turn` says how the last frame went.
`Unhang` takes a sink from an entry, and `Without` drops the entry that is left empty.
`cut` is a history: the first of the stack was taken away, so the rest hang on
a sink they were not compared with.

### SinkFeed

The three sinks below share their side of playlist.c: the queue, the purge and
flush hooks, `groove_sink_attach` and `groove_sink_detach`.  A buffer is a place in
`feed`, the audio of the whole playlist in order, with `End` for the mark at its
end; `todo` is what the decoder has yet to deliver.  `groove_playlist_remove` is cut
where the code is: the buffers go, the purge hook runs, the item is freed
(`RemoveBegin`, the sink's hook, `RemoveEnd`); a seek likewise (`SeekBegin`, the
flush hook).  `Keep` is what a purge leaves of a queue.  `HeadFree` and `DecoderFree`
stand for `decode_head_mutex`, until the decoder strays: with `setup.strays` it
delivers and flushes between the purge hook and the free of the item, and a removal
may come between the label and the put of a buffer (`RemoveStraggling`: the first buffer
to come is of the item and is put behind the purge).  Each sink conjoins its own
half to these actions.

### InfoSink

`kind` is chosen at the start.  What differs between the three files is kept:
the fingerprinter tests `abort_request` before it locks and the others after;
the info of an item names `info_head` or `cur_info`; waveform has no last info
when nothing was analysed; flush and detach forget different things; only
waveform's detach takes `info_head_mutex`.  `reported` records every info
put, `late` that an item was removed while a buffer or an info of it was out of
the hook's reach: in the thread's hands, in the queues of a detached sink, or in the
hands of a decoder that strayed.

### Encoder

`tpc` follows `encode_thread`; `encode_head_mutex` is held between steps only from the
test for room to the sleep.  Testing and sleeping are two steps, since the reader
brings `audioq_size` down and signals without that mutex (352).  ffmpeg is external
and modelled by what it may keep back: a codec holds up to `CodecDelay` buffers, an
AVIOContext up to `AvioSize` units, and how much comes out at a time is chosen
freely.  Every unit is a header, a trailer, or one encoded buffer, so that the order
of what a reader sees can be compared with the playlist.  `EncodeEnd` drains both,
writes the trailer and puts the sentinel, whether or not a header was written
(242: `fault`).  `Attach` negotiates the format with `EncoderFormat`; a codec that
takes none of the choices is `AttachRefused`, which leaves `abort_request` set (741).

### Player

`tpc` follows `helper_thread_run`, which holds `play_head_mutex` but while it
sleeps and while it starts the stream (`Held`).  libsoundio is external: it calls
the callback of a stream that was started and is not paused; a callback with
room for several buffers is several callbacks.  `underflow_callback` takes no mutex,
so its signal can be lost.  Buffers have formats, and one of another format has
the device closed after `DeviceFrames` of silence and opened again.  Opening and
starting may fail.  `Attach` puts the sink in the map first, and the decoder may
deliver to it and flush it before `AttachRest` clears the requests and starts the
helper.  `fault` stops the model where the code asserts, hangs or leaves
what C defines: a stream destroyed under a callback that waits for the mutex
(316), the second unlock (352), pause of a NULL stream (117, 579), a flush while
the helper closes the device.

### GrooveFile

Names lead to inodes, as a file system has them, so that a file that is open keeps
its inode through a rename over its name.  `Save` follows groove_file_save by `pc`:
open, header, copy packet by packet, trailer, rename; every step may fail
(`Fails`) and at every point the process may die (`Crash`), after which the
application may open the files again.  `tempfile_exists` and `oc` are kept as in the
code, so that a failed rename reaches `cleanup_save` without an output context
(545-549: `fault`).  A decoder reads packets of the same file between any two steps,
and the copy starts where the last reader left off (499).  A file that an earlier
save cut short may be opened, as ffmpeg opens those of several formats; what is
copied from it is `short`.

## The runs

| run | instance | shows |
|---|---|---|
| `Queue` | 3 blocking getters without abort, or 1 thread that gets, peeks, aborts and resets; 2 objects, up to 4 queued | `GettersNotStranded`: while somebody sleeps there are as many woken getters as objects; `SoleWaiterNotStranded`; `AbortReturns` (liveness) |
| `QueueList` | 3 nodes, 2 callers, a getter, a peeker, aborts | `WellLinked`, `HooksBalanced`; `ImplementsContract`: the list refines `GrooveQueue` |
| `Playlist` | 3 items of 1 packet, 1 sink of size 2, insert, remove; 2 items of 2 packets, 1 detach and files that fail; and 2 items, insert, remove and 1 seek: with 2 sinks of size 1; or, failing or not, with 1 sink and 2 packets; with 1 sink of size 2, packets of 2 bytes in one buffer or two, and a codec that is drained; or with 1 item, 2 sinks that share such buffers | `ListSound`, `NoDanglingItem`, `HeadNotLost`, `DrainNotLost`, `QueuesBounded`, `EndFlagSound`, `SeekLeavesNoStaleAudio` |
| `PlaylistFlow` | 2 items of 1 packet, up to 2 sinks of size 1 or 2; insert, and one of attach, resize, set_fill_mode; or of size 1, insert, perhaps attach, destroy; or 1 item and a codec that is drained | liveness: `SinksKeptFull`, `DecodesToTheEnd`, `DestroyJoins` |
| `SinkMap` | 4 sinks that take one rate, the other, both, anything; attach, detach, set_gain; 2 sources | `EverySinkServed`, `BranchesCurrent`, `NeverStale`, `VisitsOneAtATime` |
| `Info` | all three sinks; 3 items with an end in the middle and room for all infos, 2 items without album analysis, or room for 1 info and up to 3 of remove, seek, detach, attach, 2 with a decoder that strayed | `ReportsInOrder`, `PurgedInTime`, `InfosBounded`; liveness: `ReportsAll`, `DetachJoins` |
| `Encoder` | the plain playlist; seeks, detach and attach; removals; all of these with a decoder that strayed; attach to 174 codecs with 16 targets | `StreamInOrder`, `PurgedInTime`, `AttachedRuns`, `FormatClosest`; liveness: `EncodesAll`, `DetachJoins` |
| `Player` | 2 formats: the plain playlist and one resumed after its end, with an underrun; seek, remove, pause, underrun; detach, attach, failing devices; seek, remove, detach, attach with a decoder that strayed | `HeardInOrder`, `PlayHeadAlive`, `FormatMatches` (action); liveness: `PlaysAll`, `DetachJoins` |
| `File` | 2 files of 2 packets, 2 temporary names, 5 inodes, 5 calls | `OriginalSurvives`, `NoLitter`, `CleanMeansSaved` |
| `BugRemoveFault` | 2 items, 1 sink of size 1 | the decoder uses an item that remove freed |
| `BugPlanarFlags` | a planar-only and an interleaved-only sink | they share a stack, and one gets the other's layout |
| `BugInfoSleep` | all three, room for 1 info | the thread sleeps beside an empty queue |

The last three are disagreements between the code and what the repository says
of it; `PROJECT.json` quotes the lines.

**Why the bounds are enough.**  A lost wakeup needs one sleeper more than
signals: three getters cover two in flight.  The loops of the list need an inner
node, a first, a last and two in a row to drop: three nodes.  An item in the
middle of a list needs three.  A purge, a flush and `every_sink` differ for the
first and for the other sinks: two sinks.  Two packets per file make a position
inside it and its end differ.  A packet of two bytes in one buffer or two, for a queue of
two, overruns it by less than itself and meets it full in the middle of a packet.  Room for one buffer (or info) makes full, sleeping
and woken frequent; `QueuesBounded` and `InfosBounded` are stated relative to the
size.  `budget` counts calls other than insert and remove, and items are never
reinserted (`fresh`), which makes behaviours finite up to cycles of the readers.
`MaxLen` bounds the queue of `GrooveQueue`.  For the encoder, one unit in the codec
and one in the AVIOContext make every chunk straddle two labels, and lists of up to
three rates out of four, in any order, put the target below, between, above and
among the entries.  For the player, two callbacks of silence make the wait for a
closing device longer than one.  For a save, the fifth inode is the one a second
save needs while the first source is still open, and two packets make a copy that
begins part-way differ from an empty one.

**Deadlock** is checked in the runs of the queue and of the sink map.  It
is not where the system may stop for good: a playlist that is decoded with no
call to come, a thread that met a fault, a destroyed playlist, a playlist fed to
its end, a budget of calls that is spent (`CHECK_DEADLOCK FALSE`).

**Fairness** is weak and on threads only: a woken thread gets through its loop,
the decode thread, a call under way, the reader of each sink and the reader of
infos or chunks go on when they can.  Nothing is assumed of the application: it
need not insert, seek, reset or detach anything.  Weak fairness is enough for
whoever waits for a mutex because in these instances each one is taken and released
a bounded number of times between two waits for something.  The player is
different: its helper releases `play_head_mutex` and takes it again as often as it is
signalled, so that whoever waits for it is given strong fairness, which is what a
mutex whose waiters are not passed over for ever amounts to.  A spurious wakeup
may happen and never has to; no device has to run dry, and none has to fail.

**Exemptions.**  Some properties hold only up to a fault of the code, and say so:

* `~strayed` in `HeadListed` (of `ListSound`), `NoDanglingItem`, `HeadNotLost` and
  `DestroyJoins`: until the
  decoder first slept for room it keeps to its mutex.  Afterwards an insert's or
  a destroy's signal may be missed (805, 1253) and a buffer of a removed item may
  be queued behind the purge.  `BugRemoveFault` shows the same root.
* What that buffer does in a sink is in `InfoSink`, `Encoder` and `Player`
  (`RemoveStraggling`): `info_head`, `encode_head` or `play_head` becomes a freed item
  with nothing in the thread's hands.  It makes `late` true, which `PurgedInTime` and
  `PlayHeadAlive` exempt; all else that a decoder without its mutex may do to a sink
  (deliver or flush between the hook and the free) is not exempt.  `~setup.strays` in
  `StreamInOrder` and `HeardInOrder`: in what order it then goes through the playlist is
  not modelled in `SinkFeed`.
* `~Reattached` in `NoDanglingItem` and `SeekLeavesNoStaleAudio`: a buffer that the
  decoder puts between the flush of a detach (1068) and the change of the map (1075)
  stays in the queue, where neither a purge nor a flush reaches it; attach keeps it,
  and the sink then plays audio of an item that may have been freed.  The proofs
  found this one: without the exemption `AudioInv` is not inductive, and an instance
  that may detach and attach one sink violates it.
* `Signalled` and `unheard` in `DrainNotLost`: a detach that leaves other sinks attached
  and a change of the fill mode signal nobody (1075, 1610), and a seek signals
  `decode_head_cond` only (1317), so that a flush asked for while the decoder sleeps
  for room waits for a reader to make some.  A request that was there before the sleep
  is not exempt.
* `AnyFull` in `QueuesBounded`: in the mode "every" the decoder goes on as long as one
  sink has room, and a sink made smaller is over its size at once.
* `Plain` in `ReportsInOrder` and `ReportsAll`: with `disable_album` the loudness detector
  keeps the state of the last track over the end of the playlist (loudness.c 135-141),
  and when an item follows it emits that track again (158), by then with item `NULL`, which
  loudness.h:27-29 gives to the info about all songs; and an end with no audio before it
  has the fingerprinter and the loudness detector emit a track with item `NULL` before
  the end.  `ReportInv` was not inductive without it.
* `~late` in `PurgedInTime`, `StreamInOrder` and `PlayHeadAlive`: besides the above, a purge cannot see a buffer a thread holds
  (fingerprinter.c:97-99, loudness.c and waveform.c alike), nor what a detach left
  in a queue: groove_sink_detach flushes before it leaves the map (1068, 1075) and
  the `info_queue` is flushed before the thread has stopped.  The encoder's detach
  flushes its output before the thread has stopped, too.
* `~e.cut` in `EverySinkServed`: detaching the first of a stack (972) promotes the
  second without comparing it with the rest.
* `graph = "failed"` in `NeverStale`: a build that failed is remembered as built (348).
* `missed` in `EncodesAll` and in the encoder's `DetachJoins`: a reader (352) and
  detach (745) signal without `encode_head_mutex`.
* `~refused` in `AttachedRuns`: after an attach that failed, the next thread finds
  `abort_request` set and ends at once (741).
* `missed`, `swallowed` and `fault` in `PlaysAll`: an underrun's signal is sent without
  the mutex; the helper takes an end mark from a sink that ran dry (323); the
  device is closed while a callback waits (316).
* `~short` and `overwritten` in `OriginalSurvives`: a second save, or one after the file
  was played, writes only what is left and renames it over the file (499), and
  `save_as` truncates its target, be it the source itself; what is copied from a
  file so cut short is no longer than that.
* `url = name` in `CleanMeansSaved`: the hint given to `groove_file_open` is what save
  renames to (532).
* `pc = "idle"` in `NoLitter`: a failed rename leaves the file and the process dies
  (545-549).
* `kind = "waveform"` in `DetachJoins` of `InfoSink`: the other two signal without
  `info_head_mutex`, so the thread may go to sleep after the only signal
  (fingerprinter.c:326-331, loudness.c:377-382).
* `kind # "waveform"` in `PurgedInTime`: waveform.c:228-242 leaves `cur_info`.
* `+ 1` in `InfosBounded`: two infos at the end of a playlist after one test.
* `most` in `QueuesBounded`: one test for room, and then a whole packet; and
  `setup.budget - budget`: a request to flush passes the test, even if the seek then fails.

Dropping an exemption and running the same instance gives the behaviour
(for `Reattached`, one with calls to detach and to attach; for `Plain`, one where the
playlist goes on after an end and `album` is FALSE).

Other behaviours the modules have, for which nothing useful can be promised: a
detach or a change of fill mode does not wake a decoder that sleeps for
room (1075), nor does a seek that flushes (1317); a resize whose trylock fails is carried out only after the decoder
has gone idle (1579); the end flag goes down while a second sentinel is queued
(746); an item appended after the whole list was decoded is not decoded (1361); two
entries of the map without conversion are linked to the same output of `asplit`, and
the file is skipped (517); a seek before the first buffer of an item makes the
waveform unref a NULL info (249); of two threads blocked on a queue abort wakes one
(queue.c:80), and a peeker may take the signal meant for a getter (queue.c:114).  The encoder writes a trailer where no header was when a seek leads to the
end (encoder.c:242).  A save onto the file's own source empties it.  A player that
is detached keeps `is_started`, so the next attach pauses a NULL stream
(player.c:579).

## What is proved

Every theorem holds for all values of the constants under the named assumptions of
its module, and every one rests on an invariant that TLC checked first.

In `PlaylistPartsProofs`, of `GrooveQueue`, for all objects, any finite sets of getters and peekers
(`ThreadAssumption`, `RolesAssumption`) and every bound on the queue:

* `TypeCorrect`: `SafeSpec => []TypeOK`.
* `SoleWaiterSafe`: `SafeSpec => []SoleWaiterNotStranded`.  With one thread, any
  step that leaves it asleep neither put nor aborted: both would have signalled it.
  Inductive with `TypeOK`; purge needs that it never lengthens a sequence
  (`PurgeShortens`, the reason why `Purge` is stated with the kept places and not
  with a recursive filter).
* `GettersSafe`: `SafeSpec => []GettersNotStranded`.  Not inductive alone: a getter
  that returns because of an abort would leave without an object, so the invariant
  `CountInv` adds `NeverAborted`.  Then put adds an object and, if anybody sleeps,
  a woken thread; a getter that leaves takes one of each; sleeping, flushing and
  purging only shorten the queue.  Cardinalities of finite sets change by one
  (`OneThreadMoves`, `FiniteThreads`).

In the same module, of `SinkMap`, for any sinks, whatever they ask for, any sources and
gains:

* `BranchesAlwaysCurrent`: `MapSpec => []BranchesCurrent`.  The invariant `MapInv` speaks of
  one entry at a time: its sinks have the gain of the example, since a change of gain
  takes the sink out and puts it back (`OfOneGain`); until the example is taken away they
  take what it takes (`Agrees`); and when the graph may be used as it is, the branch
  is the one that the example, as it is now, asks for (`Current`).  A new example asks for
  a rebuild, a sink behind it does not (`PlacedCases`, `PlacedUpToDate`), and an entry
  that loses its example keeps a branch of the right gain (`WithoutUpToDate`).
* `StaleOnlyAfterFailure`: `MapSpec => []NeverStale`, from the same invariant.
* `SinksServed`: `MapSpec => []EverySinkServed`, under two hypotheses.  A sink that comes
  before the example was never compared with the ones behind it; that they take what
  it takes is that `Compatible` is transitive (`CompatibleCarries`).  `DefaultsAccepted`: the
  value to convert to is one that the sink takes, which groove.h:280 asks of layouts and
  `groove_sink_set_only_format` sees to for all three.  `FlagsFollow`: sinks
  that the code finds compatible agree on planar and interleaved, which is what its
  comparison is there to ensure and does not (run `BugPlanarFlags`).  The instance of run
  `SinkMap` satisfies both, that of `BugPlanarFlags` the first only.
* `VisitsMoveOne`: `MapSpec => VisitsOneAtATime`, an action property.  The order of the
  visits is a `FlattenSeq` of the stacks, whose recursion is shown to be well defined
  (`FlatDef`) and taken apart at its end (`FlatAppend`), which is enough for inductions over
  the map.  Adding a sink puts it in one place of that order (`Adds`, `PlacedAdds`),
  taking it out filters it (`VisitedWithout`), and `NoTwice` is the invariant.

In `GrooveQueueListProofs`, for any nodes, objects, readers and callers
(`RolesAssumption`, `NullAssumption`), and for `QueueRefined` any finite set of nodes
(`NodeAssumption`: memory is bounded):

* `ListSafe`: `Spec => []WellLinked`, and `CountSafe`: `Spec => []HooksBalanced`.  Both
  speak of a free mutex, so the invariant `IInv` follows the call that holds it: the
  nodes linked at each step (`On`) and where they begin (`Start`, the cursor during a
  flush), what the cursor of a purge is at (`Cursor`), that no node waiting to be linked
  is shared (`Owned`), and by how much the hooks lag (`Lag`).  `LinkLast`,
  `UnlinkFirst` and `UnlinkNext` say what the three ways of changing a list do to
  `Linked`; each turns a set closed under the new pointers into one closed under the
  old.
* `QueueRefined`: `Spec => ImplementsContract`, the refinement of `GrooveQueue`.  For it
  the nodes need their order, which a closed set does not give: `Leads` says of a
  sequence that it is the chain from `first`, and `ChainUnique` that there is only one,
  by induction on the places, so that the sequence chosen by `Chain` is that one
  (`ChainIs`).  `LeadsAppend` and `LeadsSkip` say how linking and unlinking change it,
  `ImageAppend` and `ImageSkip` what that does to the objects on it.  `RefInv` adds to
  `IInv` that there is such a chain, that the cursor of a purge has passed no victim
  (`Passed`: at the end of the loop, what is left is what the contract kept at its
  start), and that a get that has taken a node off will return it.  `Refines` then
  has one lemma per action: a step of the contract, or none.

In `PlaylistProofs`, for any items, sinks, formats, packets of any size in buffers of any
sizes, and calls (`SetupsAssumption`, `NullAssumption`), the full interleaving of decode thread, application and readers:

* `ListSafe`: `SafeSpec => []ListSound`.  `ListInv` adds the types of the pointers
  and that an item not yet inserted has none; it is inductive alone, for the
  decoder only reads the list.  That the list is one chain is stated without
  recursion, by sets closed under `next` (`Reached`); to show it after an insert or a
  removal, a closed set of the new list is turned into one of the old, and `NoLoop`
  gives that no item is its own neighbour.
* `HeadWakes`: `SafeSpec => []HeadNotLost`, and in `ListSafe` that `decode_head` is on
  the list.  These rest on the mutex: `Exclusive` says at which program points each
  thread holds `decode_head_mutex`, `Resting` that between the test of `decode_head`
  and the sleep it stays NULL, and `Following` that the item the decoder is about to
  step to is still listed.  All three are claimed until the decoder first comes back
  from a wait for room, where the code loses its mutex.
* What is said of the sinks rests on `TypeInv`: `ListInv`, the types (`SinksOK`,
  `FilesOK`), and which sink each call is at (`CallInv`).  The decoder goes through the
  sink map in several steps, and attach and detach may come between them once it has
  strayed: `Later(c)` is `c` and what `every_sink` visits after it, and `VisitFirst`,
  `VisitNext`, `VisitAttach` and `VisitDetach` say how it changes.
* `EndFlagSafe`: `SafeSpec => []EndFlagSound`.
* `DrainWakes`: `SafeSpec => []DrainNotLost`.  `DrainInv` extends the claim to the moment
  between the check and the sleep, where `drain_cond_mutex` keeps every signaller
  out (`Expected`, `Rousing`), and says why a detach that may happen takes the only
  sink there is; and that while the decoder sleeps nobody but a seek asks for a
  flush, which then is `unheard`.
* `NothingDangles`: `SafeSpec => []NoDanglingItem`.  A removal takes the item out of the
  list first and then out of one queue after the other, so `AudioInv` lets a queue hold
  the item being removed while `every_sink` has yet to come to it (`Owned`); what
  the file the decoder reads is that of `decode_head` (`Reading`); and a
  sink that has never been attached has an empty queue (`NewEmpty`).
* `SeekFlushesAll`: `SafeSpec => SeekLeavesNoStaleAudio`, an action property: while the
  decoder flushes, the sinks it has left behind are empty (`FlushInv`).
* `RoomBounds`: `SafeSpec => []QueuesBounded`.  The check for room is made once and the
  packet then goes to every sink, so what a sink is still `due` counts against its
  room.  `RoomInv` counts the room left over in calls: one
  spent and not an unanswered request to flush (`Asked`) leaves room for one packet
  (`Slack`).  Past the check, either every attached sink has room (`Strict`) or the
  request is still to be answered, which will make it.

In `GrooveFileProofs`, for any names, temporary names, inodes, packets and calls
(`TempAssumption`, `FramesAssumption`), with failures and crashes anywhere:

* `FileSurvives`: `Spec => []OriginalSurvives`.  Needs what holds of every inode, since
  the copy reads one that may have lost its name (`Inodes`); that what has been copied
  is what has been read (`Copying`); that no two names share an inode (`Distinct`), so
  that writing one file leaves the rest alone; and what each program point has opened
  (`Phases`).
* `LitterSafe`: `Spec => []NoLitter`, and `SavedSafe`: `Spec => []CleanMeansSaved`, from
  the same invariant.

In `KeepSeqProofs`, for all sequences over all sets: what `Keep` returns: its type, range
and length, what it makes of a concatenation, and that it keeps an increasing sequence
increasing; and `Cat`, a sequence of sequences one after the other.  `Keep` is a function on the places of its sequence, with the set of
what is kept as a parameter, so nothing here needs an operator as an argument:
`NatInd` is the induction over the naturals for a *set* of naturals, from the
well-foundedness of `<`, `SeqInd` the induction over sequences for a set of them, and
every lemma is the use of one of the two on the set of the sequences for which it
holds.

In `InfoSinkProofs`, for the three kinds of sink, any playlist, any bound on either
queue and any calls (`FeedAssumption`, `NullAssumption`, `KindsAssumption`):

* `InfosAreBounded`: `Spec => []InfosBounded`.  The test for room and the infos of a
  buffer are several steps apart, so `BoundInv` says that from the one to the other there
  is still room (`QueueInv`), that nothing else fills the queue, and by which step of a
  detach the thread has ended (`CallInv`).
* `InfosPurgedInTime`: `Spec => []PurgedInTime`.  `PurgeInv` follows every reference: the
  places the playlist has yet to deliver and those in the queue are of listed items
  (an item leaves both before its hook runs, but for the buffer that a decoder which
  strayed has labelled, and then it is `late`), what the thread has in its hands is
  alive or `late`, and a head or an info is of an item that is alive, or of the one
  whose purge hook is about to come.
* `ReportedInOrder`: `Spec => []ReportsInOrder`.  `Span(a, b)` (of `KeepSeqProofs`) are the places after the
  first `a` up to the `b`-th, and `ReportInv` says how far everyone is: the decoder has `Span(m, N)`
  left, the sink's queue is `Span(n, m)`, and the first `n` places are analysed but for
  the buffer in the thread's hands.  `Analysed(d)` is what that means for the analysis:
  `info_head` is the item at `d`, `cur` is its audio (as far as the kind of sink keeps
  that), and what was reported, with `info_head` after it, is `Begun(d)`.  `AnalyseStep`
  takes it from one place to the next; `BegunNext` and `BegunLonger` say what `Begun`
  does there.

In `EncoderProofs`, for any playlist, codec, muxer and calls (`ExternalAssumption`,
`UnitAssumption`, and those of `SinkFeed`):

* `EncoderRuns`: `Spec => []AttachedRuns`.  That the thread of an attached encoder runs
  needs when `abort_request` is set and when it is cleared (`RunInv`); that `audioq_size`
  is what the chunks come to needs a sum over a sequence (`Bytes`), and what putting,
  getting, flushing and purging do to it.
* `EncoderPurgedInTime`: `Spec => []PurgedInTime`, from the places as above, with the
  encoder's `encode_head` and the labels of the chunks (`RefsInv`), and that a detach
  leaves no head behind (`HeadInv`).
* `StreamsInOrder`: `Spec => []StreamInOrder`.  A unit is in one of five places: to be
  delivered, in the sink's queue, in the codec, in the muxer, or in a chunk of the
  output queue.  `Ok` says of a sequence of units that each may follow the one before it
  (`Follows`: a header after anything, a buffer after its predecessor or a header, a
  trailer after the last buffer), and every part of such a sequence is one (`OkParts`), so
  that how much the codec and the muxer hold back does not matter.  `Comes(f, q, r, s)`:
  a reader that has read `r` of a stream and goes through the queue `q` is left with `s`,
  every stream it passes is `Ok`, and one ends, unless a flush cut it, in its trailer.
  `Going(l)`: that `s`, the muxer's units and the codec's are one stream that ends in
  place `l`; `Coming(l)`: the sink's queue begins with the next place, and both that queue
  and what the decoder has left are spans.  A flush or an abort that has begun suspends
  the second (`Still`), one that has come to the output queue the first (`Closing`).
  `HeaderOut`, `BufferOut` and `EndOut` are the three things that `Encode` does;
  the invariant is claimed as long as `late` is false and no item is removed (`Whole`).
  `UnitAssumption`: a header, a trailer and a place are told apart.
* `FormatAlwaysClosest`: `Spec => []FormatClosest`, for codecs with any lists of formats,
  rates and layouts, in any order (`FormatAssumption`).  Only an attach sets the format
  (`FormatInv`), so this is about the one pass over a list: `Finds(n)` says that the best of
  the first `n` is the least of those from the target up, or else the greatest, and
  `FindsStep` that `Better` takes it from one `n` to the next.  The choice of a sample format
  is the least place in the list of attempts that the codec takes, and `AttemptsBegin` says
  which come first.

In `PlayerProofs`, for any playlist, formats, device and calls (`DeviceAssumption`, and
those of `SinkFeed`):

* `FormatsMatch`: `Spec => FormatMatches`, an action property.  `DevicesInv` says that a
  device is asked for only where there is none or where the one there is to be
  closed first (`DeviceInv`), and that what is loaded is of the device's format unless
  that is about to change (`LoadedInv`): requests, closing and opening are steps of two
  threads, with underruns and flushes in between.
* `HeadPurgedInTime`: `Spec => []PlayHeadAlive`, from `PurgeInv`, which says of the places
  to be delivered and in the queue (`PlacesInv`), and of `play_head`, that none is of a
  freed item, unless `late`.
* `HeardInOrderAlways`: `Spec => []HeardInOrder`.  What is heard is only the past;
  `PlayInv` relates it to what is to come.  `QueueInv`: what was passed, what is loaded,
  what is queued and what has yet to be delivered increase, and no listed place is
  missing between two of them.  `HeardInv`: between two buffers heard, every place was
  removed or taken by the helper.  Both as long as the decoder has not strayed.  `FeedMoves` collects what the steps of all threads can
  do to the playlist's side, so that order is proved once per kind of change.

Only model-checked is what rests on fairness: `AbortReturns`, `SinksKeptFull`,
`DecodesToTheEnd`, `DestroyJoins`, `ReportsAll`, `EncodesAll`, `PlaysAll` and the two `DetachJoins`.
Every invariant and every action property of the passing runs is stated by a theorem.

## What is not modelled

* Out of memory, everywhere but in a save (`partial_failure` at playlist.c:1028 is
  listed).
* What ffmpeg, chromaprint, libebur128 and libsoundio compute; durations, peaks and
  positions; the bytes of a waveform's info and its reference count; the metadata
  and time stamps of the encoder and its gain.
* play and pause of a playlist but for what they do to the player; gain and peak of
  items (numbers handed to the filter).  In which order a decoder that strayed brings
  the audio of a playlist to the three sinks of the library, when a seek or a removal meets it.
* Of the player, the events but for the end of the playlist, and the choice of a
  default format for a device.  Of a file, custom I/O, the getters, what opening
  finds out about its streams, and a loss of power: nothing in file.c syncs.
* buffer.c: a counter under its mutex; who holds a reference is the content of the
  queues above.  os.c: thin wrappers, taken for what they promise; that
  `groove_os_init` sets its flag before it has initialized anything (568) is listed
  as a hazard.  groove.c and util.c keep no state.
* The atomic fields of the sinks are read at the step that uses them; that a plain C
  field is read twice by an optimised build is not.  Memory is otherwise
  sequentially consistent.

## Where to go on

1. `groove_os_init` against several first callers, and the life of a buffer shared
   by several sinks.
2. `Playlist` composed with one `InfoSink`, so that the feed is produced and not
   assumed.
3. An abstract playlist (a sequence of items and, per sink, what it has still to get)
   that `Playlist` implements until the decoder strays.
