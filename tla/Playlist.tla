------------------------------- MODULE Playlist --------------------------------
(***************************************************************************)
(* The playlist of src/src/playlist.c: the decode thread, the application   *)
(* thread that edits the playlist, and one thread per sink that takes the   *)
(* decoded buffers out.  They share                                         *)
(*   - the doubly linked list of items and decode_head, under               *)
(*     decode_head_mutex, with decode_head_cond for "something to decode";  *)
(*   - one audio queue per sink (the contract of GrooveQueue, one reader    *)
(*     each), filled by the decoder up to the sink's buffer size;           *)
(*   - sink_drain_cond, under drain_cond_mutex, for "some sink has room".   *)
(*                                                                         *)
(* A mutex held from one step to the next is a variable or a program        *)
(* counter; a critical section nobody can look into is one step.  When the  *)
(* decode thread comes back from sink_drain_cond it goes on WITHOUT         *)
(* decode_head_mutex (playlist.c:821-824), so its loop is cut wherever      *)
(* another thread can then come in between.  "strayed" remembers that this  *)
(* has happened: some promises of the code end there.                      *)
(***************************************************************************)
EXTENDS KeepSeq, Integers, FiniteSets, SequencesExt

CONSTANTS
  Item,           \* playlist items; each owns the file of the same name
  Sink,
  Setups,         \* what the application chose, and may do.  Of each choice:
                  \*   items    those it may insert
                  \*   sinks    those it has, each with a reader
                  \*   map      those attached before anything else happens, in order,
                  \*            each once
                  \*   format   of each sink, named by a sink: those of one format hang
                  \*            on one entry of the map and get the same buffers
                  \*   packets  in every file
                  \*   most     bound: bytes that one turn of the decoder, a packet or
                  \*            what it drains at the end of a file, brings one sink
                  \*   bytes    a buffer may have
                  \*   sizes    what buffer_size_bytes may be set to; all sinks
                  \*            start with the smallest
                  \*   seekTo   packets it may seek to
                  \*   calls    the calls it makes, and the failures it meets
                  \*   budget   bound: how many calls other than insert and remove
  FillMode,       \* initial fill mode: "any" (the default) or "every"
  Null, End       \* the NULL pointer; end_of_q_sentinel

Once(seq) == \A j, k \in DOMAIN seq : seq[j] = seq[k] => j = k

\* The sinks of one entry come one after the other when every sink is visited.
Grouped(seq, format) ==
  \A j, k, l \in DOMAIN seq :
    j < k /\ k < l /\ format[seq[j]] = format[seq[l]] => format[seq[k]] = format[seq[j]]

ASSUME SetupsAssumption ==
  \A s \in Setups :
    /\ s.items \subseteq Item /\ s.sinks \subseteq Sink
    /\ s.format \in [Sink -> Sink]
    /\ s.map \in Seq(s.sinks) /\ Once(s.map) /\ Grouped(s.map, s.format)
    /\ s.packets \in Nat /\ s.most \in Nat /\ s.budget \in Nat
    /\ s.bytes \subseteq Nat \ {0}
    /\ s.sizes # {} /\ s.sizes \subseteq Nat \ {0}
    /\ s.seekTo \subseteq 0 .. s.packets
ASSUME FillAssumption == FillMode \in {"any", "every"}
ASSUME NullAssumption == Null \notin Item \cup Sink

VARIABLES
  setup,
  head, tail, nxt, prv,   \* the list of items, pointer by pointer
  fresh, alive,           \* items not yet allocated; allocated and not freed
  decode_head,
  sink_map,               \* attached sinks, in the order every_sink visits them
  fill,                   \* detect_full_sinks
  abort_request,
  owner,                  \* holder of decode_head_mutex: nobody, decoder or app
  \* the decode thread
  dpc, dfile, cur, dnext, sent_end_of_q, strayed,
  \* what it gets out of the filter graph: what this turn may still bring each
  \* format, the labelled buffer it is putting, and whether the graph has been
  \* told of the end of the audio and has given all it had
  due, held, drained,
  \* the files: next packet, end of file, and the seek request; "unheard": a
  \* request to flush came while the decoder slept for room
  fpos, eof, seek_pos, seek_flush, ever_seeked, unheard,
  \* the sinks
  audioq, aborted, contains_end, min_size, request, consumer,
  \* the application thread: where it is, on which item or sink
  apc, arg, acur, budget,
  fault                   \* who used freed memory first; that thread stops

list  == <<head, tail, nxt, prv, fresh, alive>>
play  == <<decode_head, sink_map, fill, abort_request>>
graph == <<due, held, drained>>
dec   == <<dpc, dfile, cur, dnext, sent_end_of_q, strayed, graph>>
file  == <<fpos, eof, seek_pos, seek_flush, ever_seeked, unheard>>
sink  == <<audioq, aborted, contains_end, min_size, request, consumer>>
app   == <<apc, arg, acur, budget>>
vars  == <<setup, list, play, owner, dec, file, sink, app, fault>>

Packets == setup.packets
Calls   == setup.calls

\* GrooveBuffer; "src" is the file that was being decoded when it came out.
Buffer == [item : Item, src : Item, pos : 0 .. Packets, size : setup.bytes]

\* What a turn may bring, before it has brought anything.
Whole == [f \in Sink |-> setup.most]

MinOf(S) == CHOOSE n \in S : \A m \in S : n <= m

Init ==
  /\ setup \in Setups
  /\ head = Null /\ tail = Null
  /\ nxt = [i \in Item |-> Null] /\ prv = [i \in Item |-> Null]
  /\ fresh = setup.items /\ alive = {}
  /\ decode_head = Null
  /\ sink_map = setup.map
  /\ fill = FillMode
  /\ abort_request = FALSE
  /\ owner = "nobody"
  /\ dpc = "lock" /\ dfile = Null /\ cur = Null /\ dnext = Null
  /\ sent_end_of_q = TRUE /\ strayed = FALSE
  /\ due = Whole /\ held = Null /\ drained = FALSE
  /\ fpos = [i \in Item |-> 0] /\ eof = [i \in Item |-> FALSE]
  /\ seek_pos = [i \in Item |-> -1] /\ seek_flush = [i \in Item |-> FALSE]
  /\ ever_seeked = [i \in Item |-> FALSE]
  /\ unheard = FALSE
  /\ audioq = [s \in Sink |-> <<>>]
  /\ aborted = [s \in Sink |-> FALSE]
  /\ contains_end = [s \in Sink |-> FALSE]
  /\ min_size = [s \in Sink |-> MinOf(setup.sizes)]
  /\ request = [s \in Sink |-> -1]
  /\ consumer = [s \in Sink |-> "idle"]
  /\ apc = "idle" /\ arg = Null /\ acur = Null /\ budget = setup.budget
  /\ fault = "none"

--------------------------------------------------------------------------------
(* Sinks and their queues.                                                 *)

Attached == Range(sink_map)
First == IF sink_map = <<>> THEN Null ELSE Head(sink_map)

\* The sink every_sink visits after s.
After(s) ==
  LET k == CHOOSE k \in DOMAIN sink_map : sink_map[k] = s
  IN  IF k = Len(sink_map) THEN Null ELSE sink_map[k + 1]

\* audioq_size: the bytes of the buffers; the sentinel does not count.
Bytes(x) == IF x = End THEN 0 ELSE x.size

\* Of the first n in the queue, for every n up to its length.
BytesUpto(queue) ==
  LET upto[n \in 0 .. Len(queue)] == IF n = 0 THEN 0 ELSE upto[n - 1] + Bytes(queue[n])
  IN  upto

Size(s) == BytesUpto(audioq[s])[Len(audioq[s])]

\* Mutant of IsFull: a sink is full one byte too late.
IsFullLate(s) == Size(s) > min_size[s]

IsFull(s) == Size(s) >= min_size[s]

\* Sinks that hang on one entry of the map, and the first one of each entry, the
\* example of its format.
SameEntry(s, t) == setup.format[s] = setup.format[t]
OnMap(s)        == \E t \in Attached : SameEntry(s, t)
Examples ==
  {sink_map[k] : k \in {k \in DOMAIN sink_map :
                         \A j \in 1 .. k - 1 : ~SameEntry(sink_map[j], sink_map[k])}}

EverySinkFull == \A s \in Attached : IsFull(s)
AnySinkFull   == Attached = {} \/ \E s \in Attached : IsFull(s)

DetectFull == IF fill = "every" THEN EverySinkFull ELSE AnySinkFull

\* A reader inside audioq_get keeps its queue's mutex while it signals.
QueueFree(s) == consumer[s] # "signal"

\* groove_queue_put and groove_queue_abort signal the one reader.
WakeReader(s) ==
  consumer' = [consumer EXCEPT ![s] = IF @ = "asleep" THEN "woken" ELSE @]

\* Mutant of DrainFree: the signallers do not take drain_cond_mutex.
DrainUnlocked == TRUE

\* drain_cond_mutex outlives a step only in the decoder's hands, between its
\* check and its sleep.
DrainFree == dpc # "sleep"

DecoderAfterDrainSignal == IF dpc = "asleep_drain" THEN "woken_drain" ELSE dpc
DecoderAfterHeadSignal  == IF dpc = "asleep_head"  THEN "woken_head"  ELSE dpc
SignalDrain == dpc' = DecoderAfterDrainSignal
SignalHead  == dpc' = DecoderAfterHeadSignal
LocalsSame  == UNCHANGED <<dfile, cur, dnext, sent_end_of_q, strayed, graph>>

\* seek_mutex of a file is kept by the decoder while it flushes the sinks.
SeekFree(i) == ~(dpc = "flush" /\ dfile = i)

--------------------------------------------------------------------------------
(* The decode thread.                                                      *)

DLock ==
  /\ dpc = "lock"
  /\ owner = "nobody"
  /\ owner' = "decoder"
  /\ dpc' = "top"
  /\ UNCHANGED <<list, play, dfile, cur, dnext, sent_end_of_q, strayed, graph, file, sink, app, fault>>

\* pthread_mutex_unlock by a thread that may not be the owner: a default glibc
\* mutex is simply free afterwards.
DQuit ==
  /\ dpc = "top"
  /\ abort_request
  /\ dpc' = "done"
  /\ owner' = "nobody"
  /\ LocalsSame
  /\ UNCHANGED <<list, play, file, sink, app, fault>>

\* Nothing to decode: tell every sink once, then wait.
DIdle ==
  /\ dpc = "top"
  /\ ~abort_request
  /\ decode_head = Null
  /\ IF sent_end_of_q \/ First = Null
     THEN dpc' = "wait" /\ cur' = Null
     ELSE dpc' = "end" /\ cur' = First
  /\ sent_end_of_q' = (sent_end_of_q \/ First = Null)
  /\ UNCHANGED <<list, play, owner, dfile, dnext, strayed, graph, file, sink, app, fault>>

\* The decoder is done with cur; at the end of the map it goes on to pc.
NextSink(pc) ==
  /\ cur' = After(cur)
  /\ dpc' = IF After(cur) = Null THEN pc ELSE dpc

DSignalEnd ==
  /\ dpc = "end"
  /\ cur \in Attached
  /\ QueueFree(cur)
  /\ audioq' = [audioq EXCEPT ![cur] = Append(@, End)]
  /\ contains_end' = [contains_end EXCEPT ![cur] = TRUE]
  /\ WakeReader(cur)
  /\ NextSink("wait")
  /\ sent_end_of_q' = (After(cur) = Null)
  /\ UNCHANGED <<list, play, owner, dfile, dnext, strayed, graph, file, aborted, min_size, request,
                 app, fault>>

DWait ==
  /\ dpc = "wait"
  /\ dpc' = "asleep_head"
  /\ owner' = "nobody"
  /\ LocalsSame
  /\ UNCHANGED <<list, play, file, sink, app, fault>>

\* Out of the wait with the mutex, then sink_fulfill_requests on every sink.
DWakeHead ==
  /\ dpc = "woken_head"
  /\ owner = "nobody"
  /\ owner' = "decoder"
  /\ dpc' = "top"
  /\ LET asked == {s \in Attached : request[s] # -1} IN
       /\ min_size' = [s \in Sink |-> IF s \in asked THEN request[s] ELSE min_size[s]]
       /\ request' = [s \in Sink |-> IF s \in asked THEN -1 ELSE request[s]]
  /\ LocalsSame
  /\ UNCHANGED <<list, play, file, audioq, aborted, contains_end, consumer, app, fault>>

DFile ==
  /\ dpc = "top"
  /\ ~abort_request
  /\ decode_head \in alive
  /\ sent_end_of_q' = FALSE
  /\ dfile' = decode_head
  /\ dpc' = "check"
  /\ UNCHANGED <<list, play, owner, cur, dnext, strayed, graph, file, sink, app, fault>>

FlushPending == seek_pos[dfile] >= 0 /\ seek_flush[dfile]

\* Under drain_cond_mutex: the sizes are read one by one, but only the decoder
\* makes them grow, so together they are those of some instant of the check.
DFull ==
  /\ dpc = "check"
  /\ DetectFull /\ ~FlushPending
  /\ dpc' = "sleep"
  /\ owner' = "nobody"
  /\ LocalsSame
  /\ UNCHANGED <<list, play, file, sink, app, fault>>

DSleep ==
  /\ dpc = "sleep"
  /\ dpc' = "asleep_drain"
  /\ LocalsSame
  /\ UNCHANGED <<list, play, owner, file, sink, app, fault>>

\* Back from sink_drain_cond: "continue", without decode_head_mutex.
DWakeDrain ==
  /\ dpc = "woken_drain"
  /\ dpc' = "top"
  /\ strayed' = TRUE
  /\ unheard' = FALSE
  /\ UNCHANGED <<list, play, owner, dfile, cur, dnext, sent_end_of_q, graph, fpos, eof, seek_pos,
                 seek_flush, ever_seeked, sink, app, fault>>

DRoom ==
  /\ dpc = "check"
  /\ ~DetectFull \/ FlushPending
  /\ dpc' = "seek"
  /\ LocalsSame
  /\ UNCHANGED <<list, play, owner, file, sink, app, fault>>

\* maybe_init_filter_graph fails, or the codec does, or the graph: the file is
\* given up.  (A graph that was told of the end takes nothing more until it is
\* rebuilt, so this also stands for a second file of the same format.)
DFail ==
  /\ "decode_error" \in Calls
  /\ dpc \in {"seek", "read", "receive"}
  /\ decode_head \in alive
  /\ dpc' = "advance"
  /\ due' = Whole
  /\ UNCHANGED <<list, play, owner, dfile, cur, dnext, sent_end_of_q, strayed, held, drained,
                 file, sink, app, fault>>

\* The file is where the request says, and the request is answered.
SeekDone(target) ==
  /\ fpos' = [fpos EXCEPT ![dfile] = target]
  /\ seek_pos' = [seek_pos EXCEPT ![dfile] = -1]
  /\ eof' = [eof EXCEPT ![dfile] = FALSE]
  /\ ever_seeked' = [ever_seeked EXCEPT ![dfile] = TRUE]
  /\ UNCHANGED <<seek_flush, unheard>>

MustSeek == \/ seek_pos[dfile] # 0 \/ seek_flush[dfile] \/ ever_seeked[dfile]

DNoSeek ==
  /\ dpc = "seek"
  /\ decode_head \in alive       \* update_playlist_volume
  /\ seek_pos[dfile] < 0
  /\ dpc' = "read"
  /\ LocalsSame
  /\ UNCHANGED <<list, play, owner, file, sink, app, fault>>

\* No sink to flush, no need to seek, or av_seek_frame failed.
DSeek ==
  /\ dpc = "seek"
  /\ decode_head \in alive
  /\ seek_pos[dfile] >= 0
  /\ \/ /\ MustSeek /\ (~seek_flush[dfile] \/ First = Null)
        /\ SeekDone(seek_pos[dfile])
     \/ /\ ~MustSeek \/ "seek_error" \in Calls
        /\ SeekDone(fpos[dfile])
  /\ dpc' = "read"
  /\ LocalsSame
  /\ UNCHANGED <<list, play, owner, sink, app, fault>>

DSeekFlush ==
  /\ dpc = "seek"
  /\ decode_head \in alive
  /\ FlushPending /\ First # Null
  /\ dpc' = "flush"
  /\ cur' = First
  /\ UNCHANGED <<list, play, owner, dfile, dnext, sent_end_of_q, strayed, graph, file, sink, app, fault>>

\* Mutant of DFlush: only the first sink is flushed.
DFlushFirst ==
  /\ dpc = "flush"
  /\ cur \in Attached
  /\ QueueFree(cur)
  /\ audioq' = [audioq EXCEPT ![cur] = <<>>]
  /\ contains_end' = [contains_end EXCEPT ![cur] = FALSE]
  /\ cur' = Null /\ dpc' = "read"
  /\ SeekDone(seek_pos[dfile])
  /\ UNCHANGED <<list, play, owner, dfile, dnext, sent_end_of_q, strayed, graph, aborted,
                 min_size, request, consumer, app, fault>>

\* every_sink_flush, one sink; after the last one the request is answered.
DFlush ==
  /\ dpc = "flush"
  /\ cur \in Attached
  /\ QueueFree(cur)
  /\ audioq' = [audioq EXCEPT ![cur] = <<>>]
  /\ contains_end' = [contains_end EXCEPT ![cur] = FALSE]
  /\ NextSink("read")
  /\ IF After(cur) = Null THEN SeekDone(seek_pos[dfile]) ELSE UNCHANGED file
  /\ UNCHANGED <<list, play, owner, dfile, dnext, sent_end_of_q, strayed, graph, aborted,
                 min_size, request, consumer, app, fault>>

DEof ==
  /\ dpc = "read"
  /\ eof[dfile]
  /\ "drain" \in Calls => drained
  /\ dpc' = "advance"
  /\ LocalsSame
  /\ UNCHANGED <<list, play, owner, file, sink, app, fault>>

\* AV_CODEC_CAP_DELAY: the graph is told of the end and gives what it has held
\* back; a turn that brings something is followed by another.
DDrain ==
  /\ dpc = "read"
  /\ eof[dfile]
  /\ "drain" \in Calls /\ ~drained
  /\ drained' = TRUE
  /\ dpc' = "receive" /\ cur' = Null
  /\ UNCHANGED <<list, play, owner, dfile, dnext, sent_end_of_q, strayed, due, held, file, sink,
                 app, fault>>

\* The end of the file, or an error, is found out one turn earlier.
DReadEnd ==
  /\ dpc = "read"
  /\ ~eof[dfile]
  /\ fpos[dfile] = Packets \/ "read_error" \in Calls
  /\ eof' = [eof EXCEPT ![dfile] = TRUE]
  /\ dpc' = "top"
  /\ LocalsSame
  /\ UNCHANGED <<list, play, owner, fpos, seek_pos, seek_flush, ever_seeked, unheard, sink, app,
                 fault>>

\* A packet is read and goes to the codec.
DReadPacket ==
  /\ dpc = "read"
  /\ ~eof[dfile]
  /\ fpos[dfile] < Packets
  /\ fpos' = [fpos EXCEPT ![dfile] = @ + 1]
  /\ drained' = FALSE
  /\ dpc' = "receive" /\ cur' = Null
  /\ UNCHANGED <<list, play, owner, dfile, dnext, sent_end_of_q, strayed, due, held, eof, seek_pos,
                 seek_flush, ever_seeked, unheard, sink, app, fault>>

(***************************************************************************)
(* The frames of the packet go through the filter graph one by one, and     *)
(* after each the entries of the map are asked, in turn, for all the        *)
(* buffers they have.  Nothing is checked on the way, so that the next      *)
(* buffer may come from any entry: one further on, or any one after the     *)
(* next frame.  "cur" is in the entry the walk has come to, Null between    *)
(* two frames.                                                             *)
(***************************************************************************)

\* An entry has a buffer: frame_to_groove_buffer labels it with decode_head.
DTake ==
  /\ dpc = "receive"
  /\ decode_head \in alive
  /\ cur # Null => OnMap(cur)
  /\ \E e \in Examples, n \in setup.bytes :
       /\ n <= due[setup.format[e]]
       /\ due' = [due EXCEPT ![setup.format[e]] = @ - n]
       /\ held' = [item |-> decode_head, src |-> dfile, pos |-> fpos[dfile], size |-> n]
       /\ cur' = e
  /\ dpc' = "put"
  /\ UNCHANGED <<list, play, owner, dfile, dnext, sent_end_of_q, strayed, drained, file, sink, app,
                 fault>>

\* The labelled buffer goes to one sink of the entry after the other.
DPut ==
  /\ dpc = "put"
  /\ cur \in Attached
  /\ QueueFree(cur)
  /\ audioq' = [audioq EXCEPT ![cur] = Append(@, held)]
  /\ WakeReader(cur)
  /\ IF After(cur) # Null /\ SameEntry(After(cur), cur)
     THEN cur' = After(cur) /\ UNCHANGED <<dpc, held>>
     ELSE dpc' = "receive" /\ held' = Null /\ UNCHANGED cur
  /\ UNCHANGED <<list, play, owner, dfile, dnext, sent_end_of_q, strayed, due, drained, file,
                 aborted, contains_end, min_size, request, app, fault>>

\* Every entry has been asked.
DWalked ==
  /\ dpc = "receive"
  /\ cur # Null /\ OnMap(cur)
  /\ cur' = Null
  /\ UNCHANGED <<list, play, owner, dpc, dfile, dnext, sent_end_of_q, strayed, graph, file, sink,
                 app, fault>>

\* The codec has no more frames.  A graph that gave nothing when it was told of
\* the end is done with, and so is the file.
DReceived ==
  /\ dpc = "receive"
  /\ cur = Null
  /\ dpc' = IF eof[dfile] /\ due = Whole THEN "advance" ELSE "top"
  /\ due' = Whole
  /\ UNCHANGED <<list, play, owner, dfile, cur, dnext, sent_end_of_q, strayed, held, drained, file,
                 sink, app, fault>>

\* p->decode_head = p->decode_head->next: a load, then a store.
DAdvance ==
  /\ dpc = "advance"
  /\ decode_head \in alive
  /\ dnext' = nxt[decode_head]
  /\ dpc' = "store"
  /\ UNCHANGED <<list, play, owner, dfile, cur, sent_end_of_q, strayed, graph, file, sink, app, fault>>

\* The next song starts from its beginning, without a flush.
DStore ==
  /\ dpc = "store"
  /\ decode_head' = dnext
  /\ IF dnext = Null
     THEN UNCHANGED file
     ELSE /\ seek_pos' = [seek_pos EXCEPT ![dnext] = 0]
          /\ seek_flush' = [seek_flush EXCEPT ![dnext] = FALSE]
          /\ UNCHANGED <<fpos, eof, ever_seeked, unheard>>
  /\ dpc' = "top"
  /\ dnext' = Null
  /\ UNCHANGED <<list, sink_map, fill, abort_request, owner, dfile, cur, sent_end_of_q, strayed,
                 graph, sink, app, fault>>

\* The decoder follows decode_head, or its place in the sink map, into freed
\* memory (or through NULL).
DFault ==
  /\ fault = "none"
  /\ \/ dpc = "top" /\ ~abort_request /\ decode_head \notin alive \cup {Null}
     \/ dpc \in {"seek", "receive", "advance"} /\ decode_head \notin alive
     \/ dpc = "store" /\ dnext \notin alive \cup {Null}
     \/ dpc \in {"end", "flush", "put"} /\ cur \notin Attached
     \/ dpc = "receive" /\ cur # Null /\ ~OnMap(cur)
  /\ fault' = "decoder"
  /\ UNCHANGED <<list, play, owner, dec, file, sink, app>>

\* pthread_cond_wait may return by itself.
DSpurious ==
  /\ dpc \in {"asleep_head", "asleep_drain"}
  /\ dpc' = IF dpc = "asleep_head" THEN "woken_head" ELSE "woken_drain"
  /\ LocalsSame
  /\ UNCHANGED <<list, play, owner, file, sink, app, fault>>

Decode ==
  \/ DLock \/ DQuit \/ DIdle \/ DSignalEnd \/ DWait \/ DWakeHead \/ DFile
  \/ DFull \/ DSleep \/ DWakeDrain \/ DRoom \/ DFail \/ DNoSeek \/ DSeek \/ DSeekFlush
  \/ DFlush \/ DEof \/ DDrain \/ DReadEnd \/ DReadPacket
  \/ DTake \/ DPut \/ DWalked \/ DReceived \/ DAdvance \/ DStore \/ DFault

--------------------------------------------------------------------------------
(* The readers: groove_sink_buffer_get(sink, &buffer, 1), over and over.   *)

InLoop(s) == consumer[s] \in {"idle", "woken"}

\* audioq_get: under the queue's mutex the size goes down and is compared; if
\* there is room the decoder is signalled before the queue is let go.
GetBuffer(s) ==
  /\ InLoop(s)
  /\ ~aborted[s]
  /\ audioq[s] # <<>> /\ Head(audioq[s]) # End
  /\ audioq' = [audioq EXCEPT ![s] = Tail(@)]
  /\ consumer' = [consumer EXCEPT ![s] = IF Size(s) - Head(audioq[s]).size < min_size[s]
                                           THEN "signal" ELSE "idle"]
  /\ UNCHANGED <<list, play, owner, dec, file, aborted, contains_end, min_size, request, app, fault>>

GetSignal(s) ==
  /\ consumer[s] = "signal"
  /\ DrainFree
  /\ SignalDrain
  /\ consumer' = [consumer EXCEPT ![s] = "idle"]
  /\ LocalsSame
  /\ UNCHANGED <<list, play, owner, file, audioq, aborted, contains_end, min_size, request, app, fault>>

\* Mutant of GetEnd: the flag stays up.
GetEndKeepsFlag(s) ==
  /\ InLoop(s)
  /\ ~aborted[s]
  /\ audioq[s] # <<>> /\ Head(audioq[s]) = End
  /\ audioq' = [audioq EXCEPT ![s] = Tail(@)]
  /\ UNCHANGED contains_end
  /\ consumer' = [consumer EXCEPT ![s] = "idle"]
  /\ UNCHANGED <<list, play, owner, dec, file, aborted, min_size, request, app, fault>>

GetEnd(s) ==
  /\ InLoop(s)
  /\ ~aborted[s]
  /\ audioq[s] # <<>> /\ Head(audioq[s]) = End
  /\ audioq' = [audioq EXCEPT ![s] = Tail(@)]
  /\ contains_end' = [contains_end EXCEPT ![s] = FALSE]
  /\ consumer' = [consumer EXCEPT ![s] = "idle"]
  /\ UNCHANGED <<list, play, owner, dec, file, aborted, min_size, request, app, fault>>

GetAborted(s) ==
  /\ consumer[s] = "woken"
  /\ aborted[s]
  /\ consumer' = [consumer EXCEPT ![s] = "idle"]
  /\ UNCHANGED <<list, play, owner, dec, file, audioq, aborted, contains_end, min_size, request,
                 app, fault>>

GetSleep(s) ==
  /\ InLoop(s)
  /\ ~aborted[s]
  /\ audioq[s] = <<>>
  /\ consumer' = [consumer EXCEPT ![s] = "asleep"]
  /\ UNCHANGED <<list, play, owner, dec, file, audioq, aborted, contains_end, min_size, request,
                 app, fault>>

Consume(s) == GetBuffer(s) \/ GetSignal(s) \/ GetEnd(s) \/ GetAborted(s) \/ GetSleep(s)

--------------------------------------------------------------------------------
(* The application thread.                                                 *)

May(call) == apc = "idle" /\ call \in Calls
Spend     == budget > 0 /\ budget' = budget - 1
HeadFree  == owner = "nobody"

\* Mutant of InsertBefore: next->prev is not updated.
InsertOneWay(i, n) ==
  /\ nxt' = [j \in Item |-> IF j = i THEN n ELSE IF j = prv[n] THEN i ELSE nxt[j]]
  /\ prv' = [prv EXCEPT ![i] = prv[n]]
  /\ head' = IF prv[n] = Null THEN i ELSE head
  /\ UNCHANGED <<tail, decode_head, file>>
  /\ UNCHANGED dpc

\* groove_playlist_insert: before "next", or at the end.  Only the insertion
\* into an empty list sets decode_head and wakes the decoder.
InsertBefore(i, n) ==
  /\ nxt' = [j \in Item |-> IF j = i THEN n ELSE IF j = prv[n] THEN i ELSE nxt[j]]
  /\ prv' = [prv EXCEPT ![i] = prv[n], ![n] = i]
  /\ head' = IF prv[n] = Null THEN i ELSE head
  /\ UNCHANGED <<tail, decode_head, file>>
  /\ UNCHANGED dpc

\* Mutant of InsertFirst: decode_head_cond is not signalled.
InsertSilent(i) ==
  /\ head' = i /\ tail' = i
  /\ seek_pos' = [seek_pos EXCEPT ![i] = 0]
  /\ seek_flush' = [seek_flush EXCEPT ![i] = FALSE]
  /\ decode_head' = i
  /\ UNCHANGED dpc
  /\ UNCHANGED <<nxt, prv, fpos, eof, ever_seeked, unheard>>

InsertFirst(i) ==
  /\ head' = i /\ tail' = i
  /\ seek_pos' = [seek_pos EXCEPT ![i] = 0]
  /\ seek_flush' = [seek_flush EXCEPT ![i] = FALSE]
  /\ decode_head' = i
  /\ SignalHead
  /\ UNCHANGED <<nxt, prv, fpos, eof, ever_seeked, unheard>>

InsertLast(i) ==
  /\ prv' = [prv EXCEPT ![i] = tail]
  /\ nxt' = [nxt EXCEPT ![tail] = i]
  /\ tail' = i
  /\ UNCHANGED <<head, decode_head, file>>
  /\ UNCHANGED dpc

Insert(i) ==
  /\ May("insert")
  /\ i \in fresh
  /\ HeadFree
  /\ fresh' = fresh \ {i}
  /\ alive' = alive \cup {i}
  /\ \/ \E n \in alive : InsertBefore(i, n)
     \/ head = Null /\ InsertFirst(i)
     \/ head # Null /\ InsertLast(i)
  /\ LocalsSame
  /\ UNCHANGED <<sink_map, fill, abort_request, owner, sink, app, fault>>

\* groove_playlist_remove, up to the first purge_sink.
Unlink(i) ==
  /\ HeadFree
  /\ owner' = "app"
  /\ decode_head' = IF decode_head = i THEN nxt[i] ELSE decode_head
  /\ head' = IF prv[i] = Null THEN nxt[i] ELSE head
  /\ tail' = IF nxt[i] = Null THEN prv[i] ELSE tail
  /\ nxt' = IF prv[i] = Null THEN nxt ELSE [nxt EXCEPT ![prv[i]] = nxt[i]]
  /\ prv' = IF nxt[i] = Null THEN prv ELSE [prv EXCEPT ![nxt[i]] = prv[i]]
  /\ arg' = i
  /\ acur' = First
  /\ UNCHANGED <<fresh, alive, sink_map, fill, abort_request, dec, file, sink, budget, fault>>

RemoveItem(i) ==
  /\ May("remove")
  /\ i \in alive
  /\ Unlink(i)
  /\ apc' = IF First = Null THEN "signal" ELSE "purge"

\* Mutant of PurgeSink: the purge hook never answers 1.
PurgeNothing ==
  /\ apc \in {"purge", "clear_purge"}
  /\ QueueFree(acur)
  /\ audioq' = [audioq EXCEPT ![acur] = @]
  /\ acur' = After(acur)
  /\ apc' = IF After(acur) # Null THEN apc
            ELSE IF apc = "purge" THEN "signal" ELSE "clear_signal"
  /\ UNCHANGED <<list, play, owner, dec, file, aborted, contains_end, min_size, request,
                 consumer, arg, budget, fault>>

PurgeSink ==
  /\ apc \in {"purge", "clear_purge"}
  /\ QueueFree(acur)
  /\ audioq' = [audioq EXCEPT ![acur] = Keep(@, {b \in Buffer : b.item # arg} \cup {End})]
  /\ acur' = After(acur)
  /\ apc' = IF After(acur) # Null THEN apc
            ELSE IF apc = "purge" THEN "signal" ELSE "clear_signal"
  /\ UNCHANGED <<list, play, owner, dec, file, aborted, contains_end, min_size, request,
                 consumer, arg, budget, fault>>

RemoveSignal ==
  /\ apc \in {"signal", "clear_signal"}
  /\ DrainFree
  /\ SignalDrain
  /\ owner' = "nobody"
  /\ apc' = IF apc = "signal" THEN "free" ELSE "clear_free"
  /\ LocalsSame
  /\ UNCHANGED <<list, play, file, sink, arg, acur, budget, fault>>

\* DEALLOCATE(item), after the mutex is released.
RemoveFree ==
  /\ apc \in {"free", "clear_free"}
  /\ alive' = alive \ {arg}
  /\ nxt' = [nxt EXCEPT ![arg] = Null]
  /\ prv' = [prv EXCEPT ![arg] = Null]
  /\ apc' = IF apc = "free" THEN "idle" ELSE "clear"
  /\ arg' = Null
  /\ UNCHANGED <<head, tail, fresh, play, owner, dec, file, sink, acur, budget, fault>>

\* Only decode_head_cond is signalled: a decoder that sleeps for room does not
\* hear of the request.
Seek(i, target) ==
  /\ May("seek") /\ Spend
  /\ i \in alive
  /\ HeadFree
  /\ SeekFree(i)
  /\ seek_pos' = [seek_pos EXCEPT ![i] = target]
  /\ seek_flush' = [seek_flush EXCEPT ![i] = TRUE]
  /\ unheard' = (unheard \/ dpc \in {"sleep", "asleep_drain"})
  /\ decode_head' = i
  /\ SignalHead
  /\ LocalsSame
  /\ UNCHANGED <<list, sink_map, fill, abort_request, owner, fpos, eof, ever_seeked, sink, apc,
                 arg, acur, fault>>

SetFillMode(m) ==
  /\ May("set_fill_mode") /\ Spend
  /\ HeadFree
  /\ fill' = m
  /\ UNCHANGED <<list, decode_head, sink_map, abort_request, owner, dec, file, sink, apc, arg,
                 acur, fault>>

\* groove_sink_set_buffer_size_bytes: trylock, else leave a request that only
\* DWakeHead answers.
SetBufferSize(s, n) ==
  /\ May("set_buffer_size") /\ Spend
  /\ s \in Attached
  /\ \/ /\ HeadFree
        /\ request' = [request EXCEPT ![s] = -1]
        /\ min_size' = [min_size EXCEPT ![s] = n]
        /\ IF Size(s) < n
           THEN owner' = "app" /\ apc' = "resize"
           ELSE UNCHANGED <<owner, apc>>
     \/ /\ ~HeadFree
        /\ request' = [request EXCEPT ![s] = n]
        /\ UNCHANGED <<min_size, owner, apc>>
  /\ UNCHANGED <<list, play, dec, file, audioq, aborted, contains_end, consumer, arg, acur, fault>>

ResizeSignal ==
  /\ apc = "resize"
  /\ DrainFree
  /\ SignalDrain
  /\ owner' = "nobody"
  /\ apc' = "idle"
  /\ LocalsSame
  /\ UNCHANGED <<list, play, file, sink, arg, acur, budget, fault>>

\* groove_sink_detach: abort, flush, and only then leave the map.
Detach(s) ==
  /\ May("detach") /\ Spend
  /\ s \in Attached
  /\ QueueFree(s)
  /\ aborted' = [aborted EXCEPT ![s] = TRUE]
  /\ WakeReader(s)
  /\ apc' = "detach_flush"
  /\ arg' = s
  /\ UNCHANGED <<list, play, owner, dec, file, audioq, contains_end, min_size, request, acur, fault>>

DetachFlush ==
  /\ apc = "detach_flush"
  /\ QueueFree(arg)
  /\ audioq' = [audioq EXCEPT ![arg] = <<>>]
  /\ contains_end' = [contains_end EXCEPT ![arg] = FALSE]
  /\ apc' = "detach_map"
  /\ UNCHANGED <<list, play, owner, dec, file, aborted, min_size, request, consumer, arg, acur,
                 budget, fault>>

DetachMap ==
  /\ apc = "detach_map"
  /\ HeadFree
  /\ sink_map' = Keep(sink_map, Sink \ {arg})
  /\ apc' = "idle"
  /\ arg' = Null
  /\ UNCHANGED <<list, decode_head, fill, abort_request, owner, dec, file, sink, acur, budget, fault>>

\* groove_sink_attach: the sink joins the others of its format, or gets an entry
\* of its own, wherever SinkMap puts it.
Attach(s) ==
  /\ May("attach") /\ Spend
  /\ s \notin Attached
  /\ HeadFree /\ DrainFree
  /\ \E k \in 1 .. Len(sink_map) + 1 : sink_map' = InsertAt(sink_map, k, s)
  /\ Grouped(sink_map', setup.format)
  /\ SignalDrain
  /\ apc' = "attach_reset"
  /\ arg' = s
  /\ LocalsSame
  /\ UNCHANGED <<list, decode_head, fill, abort_request, owner, file, audioq, aborted,
                 contains_end, min_size, request, consumer, acur, fault>>

AttachReset ==
  /\ apc = "attach_reset"
  /\ QueueFree(arg)
  /\ aborted' = [aborted EXCEPT ![arg] = FALSE]
  /\ apc' = "idle"
  /\ arg' = Null
  /\ UNCHANGED <<list, play, owner, dec, file, audioq, contains_end, min_size, request, consumer,
                 acur, budget, fault>>

\* groove_playlist_destroy: clear, abort, signal both conditions, join, detach.
Destroy ==
  /\ May("destroy")
  /\ apc' = "clear"
  /\ UNCHANGED <<list, play, owner, dec, file, sink, arg, acur, budget, fault>>

Clear ==
  /\ apc = "clear"
  /\ head # Null
  /\ Unlink(head)
  /\ apc' = IF First = Null THEN "clear_signal" ELSE "clear_purge"

\* Mutant of DestroyAbort: decode_head_cond is not signalled.
DestroySilent ==
  /\ apc = "clear"
  /\ head = Null
  /\ HeadFree
  /\ abort_request' = TRUE
  /\ UNCHANGED dpc
  /\ apc' = "destroy_drain"
  /\ LocalsSame
  /\ UNCHANGED <<list, decode_head, sink_map, fill, owner, file, sink, arg, acur, budget, fault>>

DestroyAbort ==
  /\ apc = "clear"
  /\ head = Null
  /\ HeadFree
  /\ abort_request' = TRUE
  /\ SignalHead
  /\ apc' = "destroy_drain"
  /\ LocalsSame
  /\ UNCHANGED <<list, decode_head, sink_map, fill, owner, file, sink, arg, acur, budget, fault>>

DestroyDrain ==
  /\ apc = "destroy_drain"
  /\ DrainFree
  /\ SignalDrain
  /\ apc' = "join"
  /\ LocalsSame
  /\ UNCHANGED <<list, play, owner, file, sink, arg, acur, budget, fault>>

Join ==
  /\ apc = "join"
  /\ dpc = "done"
  /\ apc' = IF First = Null THEN "destroyed" ELSE "detach_all"
  /\ acur' = First
  /\ UNCHANGED <<list, play, owner, dec, file, sink, arg, budget, fault>>

\* every_sink(playlist, groove_sink_detach, 0): the detach frees the stack item
\* that every_sink then reads "next" from.
DetachAll ==
  /\ apc = "detach_all"
  /\ QueueFree(acur) /\ HeadFree
  /\ aborted' = [aborted EXCEPT ![acur] = TRUE]
  /\ audioq' = [audioq EXCEPT ![acur] = <<>>]
  /\ contains_end' = [contains_end EXCEPT ![acur] = FALSE]
  /\ WakeReader(acur)
  /\ sink_map' = Keep(sink_map, Sink \ {acur})
  /\ fault' = "app"
  /\ apc' = "destroyed"
  /\ UNCHANGED <<list, decode_head, fill, abort_request, owner, dec, file, min_size, request,
                 arg, acur, budget>>

\* The second half of a call.
Continue ==
  \/ PurgeSink \/ RemoveSignal \/ RemoveFree \/ ResizeSignal \/ DetachFlush \/ DetachMap \/ AttachReset
  \/ Clear \/ DestroyAbort \/ DestroyDrain \/ Join \/ DetachAll

Application ==
  \/ \E i \in Item : Insert(i) \/ RemoveItem(i)
  \/ \E i \in Item, target \in setup.seekTo : Seek(i, target)
  \/ \E m \in {"any", "every"} : SetFillMode(m)
  \/ \E s \in setup.sinks : Detach(s) \/ Attach(s)
  \/ \E s \in Sink, n \in setup.sizes : SetBufferSize(s, n)
  \/ Destroy
  \/ Continue

Next ==
  /\ UNCHANGED setup
  /\ \/ fault # "decoder" /\ Decode
     \/ DSpurious
     \/ Application
     \/ \E s \in setup.sinks : Consume(s)

(***************************************************************************)
(* Threads keep running: the decoder and a call under way whenever they     *)
(* can, and every reader keeps asking for buffers.  Mutexes are taken and   *)
(* given back a bounded number of times here (frames, items and calls are   *)
(* bounded), so weak fairness is enough for whoever waits for one.  Nothing *)
(* makes the application call anything.                                    *)
(***************************************************************************)
SafeSpec == Init /\ [][Next]_vars
Spec     == /\ SafeSpec
            /\ WF_vars(UNCHANGED setup /\ fault # "decoder" /\ Decode)
            /\ WF_vars(UNCHANGED setup /\ Continue)
            /\ \A s \in Sink : WF_vars(UNCHANGED setup /\ s \in setup.sinks /\ Consume(s))

--------------------------------------------------------------------------------
TypeOK ==
  /\ setup \in Setups
  /\ {head, tail, decode_head, dfile, dnext} \subseteq Item \cup {Null}
  /\ nxt \in [Item -> Item \cup {Null}] /\ prv \in [Item -> Item \cup {Null}]
  /\ fresh \cap alive = {} /\ fresh \cup alive \subseteq Item
  /\ sink_map \in Seq(Sink) /\ Once(sink_map)
  /\ owner \in {"nobody", "decoder", "app"}
  /\ cur \in Sink \cup {Null} /\ acur \in Sink \cup {Null}
  /\ due \in [Sink -> 0 .. setup.most] /\ held \in Buffer \cup {Null}
  /\ fpos \in [Item -> 0 .. Packets]
  /\ seek_pos \in [Item -> -1 .. Packets]
  /\ audioq \in [Sink -> Seq(Buffer \cup {End})]
  /\ contains_end \in [Sink -> BOOLEAN]
  /\ min_size \in [Sink -> setup.sizes] /\ request \in [Sink -> setup.sizes \cup {-1}]
  /\ consumer \in [Sink -> {"idle", "asleep", "woken", "signal"}]
  /\ budget \in 0 .. setup.budget

(***************************************************************************)
(* The list of items is sound, whatever inserts and removals come between:  *)
(* following next from head visits every item that is on it and ends in     *)
(* tail, and prev leads back.  An item is off it from the first step of     *)
(* its removal, and decode_head never stays on an item that is off ("if     *)
(* it's currently being played, seek to the next item", playlist.c:1390),   *)
(* as long as the decoder keeps to its mutex.                               *)
(***************************************************************************)
Removing == {"purge", "signal", "free", "clear_purge", "clear_signal", "clear_free"}

Listed == IF apc \in Removing THEN alive \ {arg} ELSE alive

Ends ==
  /\ head \in Listed \cup {Null} /\ tail \in Listed \cup {Null}
  /\ head = Null <=> Listed = {}
  /\ tail = Null <=> Listed = {}

Links ==
  \A i \in Listed :
    /\ IF i = head THEN prv[i] = Null ELSE prv[i] \in Listed /\ nxt[prv[i]] = i
    /\ IF i = tail THEN nxt[i] = Null ELSE nxt[i] \in Listed /\ prv[nxt[i]] = i

\* A set that head is in and next does not leave.
Visited(S) == head \in S /\ \A i \in S : nxt[i] \in S \cup {Null}

Reached == \A S \in SUBSET Listed : Visited(S) => S = Listed

HeadListed == ~strayed => decode_head \in Listed \cup {Null}

ListSound == Ends /\ Links /\ Reached /\ HeadListed

(***************************************************************************)
(* Comment at playlist.c:1407: remove purges the audio queues of references *)
(* to the item before freeing it.  So, as long as the decoder keeps to its  *)
(* mutex, no buffer in the queue of an attached sink refers to a freed      *)
(* item, and every buffer is labelled with the item it was decoded from.    *)
(* The exception is a sink that comes back: what was put in its queue       *)
(* between the flush of its detach and the change of the map stays there    *)
(* (playlist.c:1068-1075), out of reach of remove, and attach keeps it.     *)
(***************************************************************************)
Reattached == {"detach", "attach"} \subseteq Calls

NoDanglingItem ==
  ~strayed /\ ~Reattached =>
    \A s \in Attached : \A k \in DOMAIN audioq[s] :
      LET b == audioq[s][k] IN b # End => b.item \in alive /\ b.item = b.src

(***************************************************************************)
(* No lost wakeup on sink_drain_cond: while the decoder sleeps there, both  *)
(* halves of the reason it went to sleep (playlist.c:816) still hold, or    *)
(* somebody is about to signal.  The sinks are full, and no request to      *)
(* flush is pending for the file it looked at.  (One that strayed may look  *)
(* at the file of an item that a seek has just left, playlist.c:812.)       *)
(* Three calls are not up to it.                                           *)
(*   - groove_playlist_seek signals decode_head_cond only (playlist.c:1317):*)
(*     a flush asked for while the decoder sleeps here stays pending until  *)
(*     a reader makes room.  "unheard" is that case and no other: a request *)
(*     that was there before the sleep still forbids it.                    *)
(*   - detach empties a queue, leaves the map and signals nobody            *)
(*     (playlist.c:1068-1075): with the last sink that is nothing lost;     *)
(*     with another one attached, whose reader has emptied its queue, the   *)
(*     decoder sleeps on.                                                   *)
(*   - groove_playlist_set_fill_mode does not signal (playlist.c:1610).     *)
(***************************************************************************)
Signalled ==
  /\ "set_fill_mode" \notin Calls
  /\ "detach" \in Calls => "attach" \notin Calls /\ Len(setup.map) <= 1

SignalComing ==
  \/ \E s \in Sink : consumer[s] = "signal"
  \/ apc \in {"purge", "signal", "clear_purge", "clear_signal", "resize", "detach_map"}

DrainNotLost ==
  dpc = "asleep_drain" =>
    /\ Signalled => DetectFull \/ SignalComing
    /\ FlushPending => unheard

(***************************************************************************)
(* "decode_thread waits on this cond when the decode_head is NULL"          *)
(* (playlist.c:82): asleep on decode_head_cond, it has nothing to decode    *)
(* and has not been asked to quit, as long as it keeps to its mutex.        *)
(***************************************************************************)
HeadNotLost == ~strayed /\ dpc = "asleep_head" => decode_head = Null /\ ~abort_request

(***************************************************************************)
(* Back pressure in the mode "any".  The decoder looks for room once per    *)
(* packet and then puts all that the packet brings, so a queue below the    *)
(* size its sink asked for may be overrun by one packet, less a byte, and   *)
(* so it is by a turn that drains the codec.  Each request to flush lets    *)
(* one more packet past the check, and if the seek then fails nothing has   *)
(* been flushed (playlist.c:816, 662).  (Every call that counts stands for  *)
(* one here; sizes are not made smaller meanwhile.)                         *)
(***************************************************************************)
AnyFull == FillMode = "any" /\ {"set_fill_mode", "set_buffer_size"} \cap Calls = {}

QueuesBounded ==
  /\ TypeOK
  /\ AnyFull => \A s \in Sink :
       Size(s) <= min_size[s] - 1 + setup.most * (1 + setup.budget - budget)

(***************************************************************************)
(* A seek that flushes leaves nothing of the old position in any sink: when *)
(* the decoder goes on to read, every attached queue is empty.              *)
(***************************************************************************)
SeekLeavesNoStaleAudio ==
  [][~Reattached /\ dpc = "flush" /\ dpc' = "read" => \A s \in Attached : audioq'[s] = <<>>]_vars

(***************************************************************************)
(* groove_sink_contains_end_of_playlist (groove.h:538) is never true        *)
(* without the sentinel in the queue, whether it is taken, flushed or       *)
(* passed over by a purge.                                                 *)
(***************************************************************************)
EndFlagSound == \A s \in Sink : contains_end[s] => End \in Range(audioq[s])

(***************************************************************************)
(* "A playlist keeps its sinks full" (groove.h:428): while there is         *)
(* something to decode and no sink is full, decoding goes on until some     *)
(* sink is full or the playlist is decoded.                                 *)
(***************************************************************************)
NoneFull == Attached # {} /\ \A s \in Attached : ~IsFull(s)
Destroying ==
  apc \in {"clear", "clear_purge", "clear_signal", "clear_free", "destroy_drain", "join",
           "detach_all", "destroyed"}

SinksKeptFull ==
  (decode_head # Null /\ NoneFull) ~> (decode_head = Null \/ ~NoneFull \/ Destroying)

(***************************************************************************)
(* With readers that read, the whole playlist gets decoded and every sink   *)
(* is told of its end, unless the playlist is destroyed first.              *)
(***************************************************************************)
DecodesToTheEnd ==
  (decode_head # Null) ~> ((decode_head = Null /\ sent_end_of_q) \/ Destroying)

(***************************************************************************)
(* "wait for decode thread to finish" (playlist.c:1249): the join in        *)
(* groove_playlist_destroy ends, if the decoder had kept to its mutex until *)
(* then; otherwise it may miss the one signal on decode_head_cond.          *)
(***************************************************************************)
DestroyJoins == (apc = "join" /\ ~strayed) ~> (apc # "join")

(***************************************************************************)
(* "this mutex applies to the variables in this block" (playlist.c:79),     *)
(* decode_head among them: neither thread follows a pointer to an item or   *)
(* a stack entry that the other has freed.                                 *)
(***************************************************************************)
NoFault == fault = "none"
================================================================================
