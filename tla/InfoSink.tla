-------------------------------- MODULE InfoSink -------------------------------
(***************************************************************************)
(* The three sinks that turn audio into one piece of information per item:  *)
(* src/src/fingerprinter.c, loudness.c and waveform.c.  They share a shape: *)
(* a thread takes buffers from its sink (audioq), analyses them, and puts   *)
(* one info per item, and one more at the end of the playlist, in           *)
(* info_queue, for the application to take.  info_head_mutex protects the   *)
(* analysis, drain_cond is for "info_queue has room".  The playlist calls   *)
(* the purge and flush hooks of the sink from its own threads.  "kind" says *)
(* which of the three it is; they differ in how the loop holds its mutex,   *)
(* in when an info goes out and in what flush and detach forget.            *)
(*                                                                         *)
(* The playlist and the calls of the application on it come from SinkFeed;  *)
(* both queues are reduced to the contract of GrooveQueue, one reader each. *)
(***************************************************************************)
EXTENDS SinkFeed

CONSTANT Kinds  \* subset of {"fingerprinter", "loudness", "waveform"}

\* Of a setup this module reads one more field: "album", FALSE when
\* GrooveLoudnessDetector::disable_album is set.
Album    == setup.album
InfoSize == setup.room

ASSUME KindsAssumption == Kinds \subseteq {"fingerprinter", "loudness", "waveform"}
ASSUME AlbumAssumption == \A s \in Setups : s.album \in BOOLEAN

VARIABLES
  kind,
  mutex,                       \* holder of info_head_mutex: "free" or "thread"
  tpc, buffer,                 \* the analysing thread, and the item of the buffer
                               \* it has in hand
  info_head,
  cur,                         \* the item whose audio is under analysis: the
                               \* chromaprint context, the ebur128 state or cur_info
  info_queue, info_count, abort_request,
  late,                        \* history: an item went while a buffer of it was in the
                               \* thread's hands or in those of a decoder that
                               \* strayed, or a buffer or an info in the queues of a
                               \* detached sink
  reported,                    \* history: the infos put, by item, End for the last
  fault

thread   == <<mutex, tpc, buffer>>
analysis == <<info_head, cur>>
infos    == <<info_queue, info_count>>
history  == <<late, reported>>
vars     == <<kind, feed, thread, analysis, infos, abort_request, history, fault>>

\* The fingerprinter tests abort_request before it locks, the others after.
LoopPc == IF kind = "fingerprinter" THEN "check" ELSE "loop"
Start  == IF kind = "fingerprinter" THEN "check" ELSE "start"

Init ==
  /\ FeedInit
  /\ kind \in Kinds
  /\ mutex = "free" /\ buffer = Null
  /\ tpc = Start
  /\ info_head = Null /\ cur = Null
  /\ info_queue = <<>> /\ info_count = 0
  /\ abort_request = FALSE
  /\ late = FALSE /\ reported = <<>>
  /\ fault = "none"

--------------------------------------------------------------------------------
(* The loop of the thread, up to the buffer.                               *)

ThreadStart ==
  /\ tpc = "start"
  /\ mutex = "free"
  /\ mutex' = "thread"
  /\ tpc' = "loop"
  /\ UNCHANGED <<kind, feed, buffer, analysis, infos, abort_request, history, fault>>

\* Mutant of Full: one info too many.
FullLate == info_count > InfoSize

Full == info_count >= InfoSize

\* fingerprinter.c: the flag, then the mutex, then the count.
Check ==
  /\ tpc = "check"
  /\ tpc' = IF abort_request THEN "done" ELSE "lock"
  /\ UNCHANGED <<kind, feed, mutex, buffer, analysis, infos, abort_request, history, fault>>

Lock ==
  /\ tpc = "lock"
  /\ mutex = "free"
  /\ IF Full THEN mutex' = "thread" /\ tpc' = "sleep" ELSE mutex' = "free" /\ tpc' = "get"
  /\ UNCHANGED <<kind, feed, buffer, analysis, infos, abort_request, history, fault>>

\* loudness.c and waveform.c: both under the mutex.
Loop ==
  /\ tpc = "loop"
  /\ tpc' = IF abort_request THEN "done" ELSE IF Full THEN "sleep" ELSE "get"
  /\ mutex' = IF ~abort_request /\ Full THEN "thread" ELSE "free"
  /\ UNCHANGED <<kind, feed, buffer, analysis, infos, abort_request, history, fault>>

\* The count may have gone down since it was read: the reader of info_queue
\* does not take info_head_mutex.
Sleep ==
  /\ tpc = "sleep"
  /\ tpc' = "asleep"
  /\ mutex' = "free"
  /\ UNCHANGED <<kind, feed, buffer, analysis, infos, abort_request, history, fault>>

Woken ==
  /\ tpc = "woken"
  /\ mutex = "free"
  /\ mutex' = IF kind = "fingerprinter" THEN "free" ELSE "thread"
  /\ tpc' = LoopPc
  /\ UNCHANGED <<kind, feed, buffer, analysis, infos, abort_request, history, fault>>

GetBuffer ==
  /\ tpc = "get"
  /\ TakeBuffer
  /\ buffer' = ItemAt(Head(audioq))
  /\ tpc' = "got"
  /\ UNCHANGED <<kind, mutex, analysis, infos, abort_request, history, fault>>

\* GROOVE_BUFFER_NO: out of the loop, through the mutex.
GetAborted ==
  /\ tpc = "get"
  /\ aborted
  /\ mutex = "free"
  /\ tpc' = "done"
  /\ UNCHANGED <<kind, feed, mutex, buffer, analysis, infos, abort_request, history, fault>>

--------------------------------------------------------------------------------
(* What the thread does with a buffer, under info_head_mutex.              *)

Info == [item : Item \cup {Null}, audio : Item \cup {Null}, last : BOOLEAN]

Track(label) == [item |-> label, audio |-> cur, last |-> FALSE]
TheEnd       == [item |-> Null, audio |-> Null, last |-> TRUE]

Put(new) ==
  /\ info_queue' = info_queue \o new
  /\ info_count' = info_count + Len(new)
  /\ reported' = reported \o [k \in DOMAIN new |-> IF new[k].last THEN End ELSE new[k].item]

NewItem == buffer # info_head

\* Mutant of Finished: info_head has moved on before the info is made.
FinishedLate ==
  IF (IF kind = "fingerprinter" THEN info_head # Null ELSE cur # Null)
    THEN <<Track(buffer)>> ELSE <<>>

\* What goes out when the item under analysis is over.
Finished ==
  IF (IF kind = "fingerprinter" THEN info_head # Null ELSE cur # Null)
    THEN <<Track(IF kind = "waveform" THEN cur ELSE info_head)>> ELSE <<>>

AnalyseBuffer ==
  /\ Put(IF NewItem THEN Finished ELSE <<>>)
  /\ info_head' = buffer
  /\ cur' = IF NewItem THEN buffer ELSE cur

\* Mutant of AnalyseEnd: the end alone, without the last item.
AnalyseEndAlone ==
  /\ Put(<<TheEnd>>)
  /\ info_head' = Null
  /\ cur' = CASE kind = "fingerprinter" -> cur
              [] kind = "loudness"      -> IF Album THEN Null ELSE cur
              [] kind = "waveform"      -> Null

\* The end of the playlist: the last item and then the end, the last item
\* unconditionally but for waveform.c.
AnalyseEnd ==
  /\ Put((IF kind = "waveform" THEN Finished ELSE <<Track(info_head)>>) \o <<TheEnd>>)
  /\ info_head' = Null
  /\ cur' = CASE kind = "fingerprinter" -> cur
              [] kind = "loudness"      -> IF Album THEN Null ELSE cur
              [] kind = "waveform"      -> Null

Analyse ==
  /\ tpc = "got"
  /\ mutex = "free"
  /\ IF buffer = End THEN AnalyseEnd ELSE AnalyseBuffer
  \* file->override_duration, file being buffer->item->file
  /\ fault' = IF kind = "waveform" /\ NewItem /\ buffer \notin alive \cup {End}
              THEN "freed item" ELSE fault
  /\ buffer' = Null
  /\ tpc' = LoopPc
  /\ mutex' = IF kind = "fingerprinter" THEN "free" ELSE "thread"
  /\ UNCHANGED <<kind, feed, abort_request, late>>

Thread ==
  \/ ThreadStart \/ Check \/ Lock \/ Loop \/ Sleep \/ Woken
  \/ GetBuffer \/ GetAborted \/ Analyse

\* Signal on drain_cond.
SignalDrain == tpc' = IF tpc = "asleep" THEN "woken" ELSE tpc

SpuriousWake ==
  /\ tpc = "asleep"
  /\ SignalDrain
  /\ UNCHANGED <<kind, feed, mutex, buffer, analysis, infos, abort_request, history, fault>>

--------------------------------------------------------------------------------
(* The reader of the infos: groove_*_info_get(..., 1), over and over.  The  *)
(* get hook counts down and signals under the queue's mutex alone.          *)

InfosAborted == ~attached /\ apc # "detached"

InfoGet ==
  /\ info_queue # <<>>
  /\ ~InfosAborted
  /\ info_queue' = Tail(info_queue)
  /\ info_count' = info_count - 1
  /\ IF info_count - 1 < InfoSize THEN SignalDrain ELSE UNCHANGED tpc
  /\ UNCHANGED <<kind, feed, mutex, buffer, analysis, abort_request, history, fault>>

--------------------------------------------------------------------------------
(* What the playlist and the application do, with the hooks of this sink.  *)

Deliver ==
  /\ DeliverBuffer(setup.sinkSize)
  /\ UNCHANGED <<kind, thread, analysis, infos, abort_request, history, fault>>

LeftBehind(i) ==
  (\E p \in Range(audioq) : ItemAt(p) = i) \/ \E k \in DOMAIN info_queue : info_queue[k].item = i

RemoveItem(i) ==
  /\ \/ RemoveBegin(i) /\ late' = (late \/ (~attached /\ LeftBehind(i)))
     \/ RemoveStraggling(i) /\ late' = TRUE
  /\ UNCHANGED <<kind, thread, analysis, infos, abort_request, reported, fault>>

\* Mutant of PurgeHook: the infos of the item stay in the queue.
PurgeHookHead ==
  /\ Proceed("purge_hook", "free")
  /\ mutex = "free"
  /\ info_head' = IF info_head = arg THEN Null ELSE info_head
  /\ SignalDrain
  /\ late' = (late \/ buffer = arg)
  /\ UNCHANGED <<kind, mutex, buffer, cur, infos, abort_request, reported, fault>>

PurgeHook ==
  /\ Proceed("purge_hook", "free")
  /\ mutex = "free"
  /\ info_queue' = Keep(info_queue, {f \in Info : f.item # arg})
  /\ info_count' = info_count - Len(Keep(info_queue, {f \in Info : f.item = arg}))
  /\ info_head' = IF info_head = arg THEN Null ELSE info_head
  /\ SignalDrain
  /\ late' = (late \/ buffer = arg)
  /\ UNCHANGED <<kind, mutex, buffer, cur, abort_request, reported, fault>>

RemoveFree ==
  /\ RemoveEnd
  /\ UNCHANGED <<kind, thread, analysis, infos, abort_request, history, fault>>

Seek(p) ==
  /\ SeekBegin(p)
  /\ UNCHANGED <<kind, thread, analysis, infos, abort_request, history, fault>>

\* groove_waveform_info_unref(w->cur_info) does not expect NULL.
FlushHook ==
  /\ SeekEnd
  /\ mutex = "free"
  /\ info_queue' = <<>>
  /\ info_count' = info_count - Len(info_queue)
  /\ info_head' = Null
  /\ cur' = IF kind = "fingerprinter" THEN cur ELSE Null
  /\ fault' = IF kind = "waveform" /\ cur = Null THEN "null info" ELSE fault
  /\ SignalDrain
  /\ UNCHANGED <<kind, mutex, buffer, abort_request, history>>

--------------------------------------------------------------------------------
(* Detach and attach.                                                      *)

\* Mutant of DetachBegin: waveform.c as the other two are, without the mutex.
DetachUnlocked ==
  /\ DetachCall("sink_abort")
  /\ abort_request' = TRUE
  /\ IF kind = "waveform" THEN SignalDrain ELSE UNCHANGED tpc
  /\ UNCHANGED <<kind, mutex, buffer, analysis, infos, history, fault>>

\* waveform.c sets the flag and signals under info_head_mutex.
DetachBegin ==
  /\ DetachCall("sink_abort")
  /\ kind = "waveform" => mutex = "free"
  /\ abort_request' = TRUE
  /\ IF kind = "waveform" THEN SignalDrain ELSE UNCHANGED tpc
  /\ UNCHANGED <<kind, mutex, buffer, analysis, infos, history, fault>>

DetachSink ==
  /\ SinkAbort \/ SinkUnmap
  /\ UNCHANGED <<kind, thread, analysis, infos, abort_request, history, fault>>

\* groove_queue_flush and groove_queue_abort on info_queue.
DetachInfos ==
  /\ Proceed("detached", "info_aborted")
  /\ info_queue' = <<>>
  /\ info_count' = info_count - Len(info_queue)
  /\ UNCHANGED <<kind, thread, analysis, abort_request, history, fault>>

\* fingerprinter.c and loudness.c signal here, without info_head_mutex.
DetachSignal ==
  /\ Proceed("info_aborted", "join")
  /\ IF kind = "waveform" THEN UNCHANGED tpc ELSE SignalDrain
  /\ UNCHANGED <<kind, mutex, buffer, analysis, infos, abort_request, history, fault>>

\* What is forgotten once the thread has ended: not cur_info.
Joined ==
  /\ Proceed("join", "idle")
  /\ tpc = "done"
  /\ abort_request' = FALSE
  /\ info_head' = Null
  /\ cur' = IF kind = "waveform" THEN cur ELSE Null
  /\ UNCHANGED <<kind, thread, infos, history, fault>>

\* Both queues are reset; what the sink's queue holds stays there.
Attach ==
  /\ AttachCall("idle")
  /\ tpc' = Start
  /\ UNCHANGED <<kind, mutex, buffer, analysis, infos, abort_request, history, fault>>

Continue ==
  \/ PurgeHook \/ RemoveFree \/ FlushHook
  \/ DetachSink \/ DetachInfos \/ DetachSignal \/ Joined

Next ==
  \/ Thread \/ SpuriousWake \/ InfoGet \/ Deliver \/ Continue
  \/ \E i \in Item : RemoveItem(i)
  \/ \E p \in setup.seekTo : Seek(p)
  \/ DetachBegin \/ Attach

(***************************************************************************)
(* The thread, the decoder and a call under way go on when they can, and    *)
(* the reader of the infos keeps reading.  Nobody makes the application     *)
(* remove, seek, detach or attach.                                         *)
(***************************************************************************)
SafeSpec == Init /\ [][Next]_vars
Spec     == SafeSpec /\ WF_vars(Thread) /\ WF_vars(InfoGet) /\ WF_vars(Deliver) /\ WF_vars(Continue)

--------------------------------------------------------------------------------
TypeOK ==
  /\ FeedTypeOK
  /\ kind \in Kinds
  /\ mutex \in {"free", "thread"}
  /\ buffer \in Item \cup {Null, End}
  /\ info_head \in Item \cup {Null} /\ cur \in Item \cup {Null}
  /\ info_queue \in Seq(Info)
  /\ late \in BOOLEAN /\ fault \in {"none", "freed item", "null info"}

(***************************************************************************)
(* info_queue_size is the "maximum number of" infos "to store in this       *)
(* fingerprinter's queue" (fingerprinter.h:30).  The thread stops for room  *)
(* before a buffer and no buffer makes more than two infos, so the queue    *)
(* may hold one more than that, and never two; and the count that the put,  *)
(* get and cleanup hooks keep, by which the thread stops, is its length.    *)
(***************************************************************************)
InfosBounded == TypeOK /\ info_count = Len(info_queue) /\ info_count <= InfoSize + 1

(***************************************************************************)
(* Left alone, the sink reports every item of the playlist once, in order,  *)
(* and then the end, whatever the three do with their mutex.                *)
(* An info that is not the last one names the item whose audio it is about: *)
(* without an item it would pass for the end of the playlist                *)
(* (fingerprinter.h:23-25, loudness.h:27-29, waveform.h:20-21).             *)
(*                                                                         *)
(* Not so where the code does pass one for the end: an end with no audio    *)
(* before it has fingerprinter.c and loudness.c report the last item, which *)
(* is none, and loudness.c without album analysis keeps the state of the    *)
(* last track over an end and reports it again when an item follows.       *)
(***************************************************************************)
LeftAlone == setup.calls = {}

Plain ==
  \A p \in DOMAIN setup.feed :
    ItemAt(p) = End => /\ p # 1 /\ ItemAt(p - 1) # End
                       /\ kind = "loudness" /\ ~Album => p = Len(setup.feed)

\* The items that begin among the first n places.
Begun(n) ==
  LET begins == {p \in DOMAIN setup.feed : p = 1 \/ ItemAt(p) # ItemAt(p - 1)}
      places == Keep([p \in 1 .. n |-> p], begins)
  IN  [j \in DOMAIN places |-> ItemAt(places[j])]

Expected == Begun(Len(setup.feed))

TracksNamed ==
  \A k \in DOMAIN info_queue :
    ~info_queue[k].last => info_queue[k].item # Null /\ info_queue[k].item = info_queue[k].audio

ReportsInOrder == LeftAlone /\ Plain => IsPrefix(reported, Expected) /\ TracksNamed

ReportsAll == LeftAlone /\ Plain => <>(reported = Expected)

(***************************************************************************)
(* purge is the "opportunity to remove all your references to the           *)
(* GroovePlaylistItem" (groove.h:329-330): unless a buffer of it was out of *)
(* its reach, in the thread's hands, left in the queues of a detached sink, *)
(* or labelled by a decoder that strayed and not yet in the queue, neither  *)
(* the analysis nor an info refers to an item that was freed, and the       *)
(* thread does not read one.  (sink_purge of waveform.c leaves      *)
(* cur_info as it is, so there only the reading is safe.)                   *)
(***************************************************************************)
Refers(i) == info_head = i \/ \E k \in DOMAIN info_queue : info_queue[k].item = i

PurgedInTime ==
  ~late => /\ fault # "freed item"
           /\ kind # "waveform" => \A i \in Item \ alive : ~Refers(i)

(***************************************************************************)
(* "analyze_thread waits on this when the info queue is full"               *)
(* (fingerprinter.c:38), and only then: asleep on drain_cond while there is *)
(* room, the thread is woken.                                              *)
(***************************************************************************)
RoomWakes == (tpc = "asleep" /\ ~Full) ~> (tpc # "asleep" \/ Full)

(***************************************************************************)
(* groove_waveform_detach joins the thread, and it ends: the flag is set    *)
(* and signalled under info_head_mutex.  (The other two do it without, and  *)
(* the thread may go to sleep in between, so they are left out.)            *)
(***************************************************************************)
DetachJoins == (kind = "waveform" /\ apc = "join") ~> (apc # "join")
================================================================================
