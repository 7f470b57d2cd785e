--------------------------------- MODULE Encoder ---------------------------------
(***************************************************************************)
(* src/src/encoder.c: a thread takes buffers from its sink (audioq of       *)
(* SinkFeed), encodes them, and puts what the muxer writes in a queue of    *)
(* its own (audioq in the code, outq here) for the application to read.     *)
(* encode_head_mutex protects the codec and the muxer; drain_cond is for    *)
(* "outq has room", which the thread reads from audioq_size and the reader  *)
(* brings down without that mutex.                                         *)
(*                                                                         *)
(* ffmpeg is external: its codec keeps back up to CodecDelay buffers, and   *)
(* its AVIOContext up to AvioSize units of what the muxer wrote, before     *)
(* encoder_write_packet is called.  A unit is a header, a trailer, or the   *)
(* encoded form of one buffer, named by its place in the feed.              *)
(***************************************************************************)
EXTENDS SinkFeed, EncoderFormat

CONSTANTS
  Header, Trailer,
  CodecDelay,  \* bound: buffers the codec keeps back
  AvioSize     \* size of avio_buf, in units

ASSUME ExternalAssumption == CodecDelay \in Nat /\ AvioSize \in Nat

\* A unit that is neither is a place of the feed.
ASSUME UnitAssumption == Header # Trailer /\ Header \notin Nat /\ Trailer \notin Nat

\* Of a setup this module reads two more fields: "target", which is
\* target_audio_format, and "codecs", those an attach may ask for.
ASSUME FormatAssumption ==
  \A s \in Setups : /\ s.target.planar \in BOOLEAN /\ s.target.rate \in Nat
                    /\ s.target.layout \in Layout
                    /\ \A c \in s.codecs : c.rates \in Seq(Nat) /\ c.layouts \in Seq(Layout)

encoded_buffer_size == setup.room

VARIABLES
  mutex, tpc, buffer,           \* encode_head_mutex, encode_thread, and what it took
  codec_queue, avio,            \* in the codec, and written but not yet in outq
  sent_header, encode_head,
  outq, audioq_size, out_aborted,
  abort_request,
  codec, actual_audio_format,
  missed,    \* history: a signal fell between the thread's test and its sleep
  late,      \* history: a hook or a detach came while a buffer was in the thread's
             \* hands, or an item went of which a detached encoder kept a buffer or
             \* a decoder that strayed had one in its hands
  refused,   \* history: an attach failed
  read,      \* history: the units read since the last sentinel
  finished,  \* history: what was read of a stream up to its end
  fault

thread  == <<mutex, tpc, missed, buffer>>
muxer   == <<codec_queue, avio, sent_header, encode_head>>
output  == <<outq, audioq_size, out_aborted>>
format  == <<codec, actual_audio_format>>
history == <<late, refused, read, finished>>
vars    == <<feed, thread, muxer, output, abort_request, format, history, fault>>

Init ==
  /\ FeedInit
  /\ mutex = "free" /\ tpc = "check" /\ buffer = Null
  /\ codec_queue = <<>> /\ avio = <<>> /\ sent_header = FALSE /\ encode_head = Null
  /\ outq = <<>> /\ audioq_size = 0 /\ out_aborted = FALSE
  /\ abort_request = FALSE
  /\ codec \in setup.codecs /\ Encodable(codec, setup.target)
  /\ actual_audio_format = Negotiated(codec, setup.target)
  /\ missed = FALSE /\ late = FALSE /\ refused = FALSE
  /\ read = <<>> /\ finished = <<>>
  /\ fault = "none"

--------------------------------------------------------------------------------
(* outq and its hooks.  end_of_q_sentinel is NULL, and the hooks pass it    *)
(* by; "cut" records which of the two put it, the end or a flush.           *)

Unit == DOMAIN setup.feed \cup {Header, Trailer}

Chunk(item, data) == IF data = <<>> THEN <<>> ELSE <<[item |-> item, data |-> data, cut |-> FALSE]>>
Sentinel(cut)     == <<[item |-> Null, data |-> <<>>, cut |-> cut]>>
IsSentinel(chunk) == chunk.data = <<>>

Chunks == {chunk \in [item : Item \cup {Null}, data : Seq(Unit), cut : BOOLEAN] :
             IsSentinel(chunk) => chunk.item = Null}

\* How many bytes there are in the first n chunks.
BytesUpto(chunks) ==
  LET bytes[n \in 0 .. Len(chunks)] == IF n = 0 THEN 0 ELSE bytes[n - 1] + Len(chunks[n].data)
  IN  bytes

Bytes(chunks) == BytesUpto(chunks)[Len(chunks)]

Put(chunks) ==
  /\ outq' = outq \o chunks
  /\ audioq_size' = audioq_size + Bytes(chunks)

Drop(i) ==
  LET victims == {c \in Chunks : ~IsSentinel(c) /\ c.item = i}
  IN  /\ outq' = Keep(outq, Chunks \ victims)
      /\ audioq_size' = audioq_size - Bytes(Keep(outq, victims))

\* Signal on drain_cond: lost on a thread that has tested and not yet slept.
SignalDrain ==
  /\ tpc' = IF tpc = "asleep" THEN "woken" ELSE tpc
  /\ missed' = (tpc = "sleep" \/ (missed /\ tpc # "asleep"))

--------------------------------------------------------------------------------
(* The loop of encode_thread, up to the buffer.                            *)

Check ==
  /\ tpc = "check"
  /\ tpc' = IF abort_request THEN "done" ELSE "lock"
  /\ UNCHANGED <<feed, mutex, missed, buffer, muxer, output, abort_request, format, history, fault>>

Full == audioq_size >= encoded_buffer_size

Lock ==
  /\ tpc = "lock"
  /\ mutex = "free"
  /\ IF Full THEN mutex' = "thread" /\ tpc' = "sleep" ELSE mutex' = "free" /\ tpc' = "get"
  /\ UNCHANGED <<feed, missed, buffer, muxer, output, abort_request, format, history, fault>>

Sleep ==
  /\ tpc = "sleep"
  /\ tpc' = "asleep"
  /\ mutex' = "free"
  /\ UNCHANGED <<feed, missed, buffer, muxer, output, abort_request, format, history, fault>>

Woken ==
  /\ tpc = "woken"
  /\ mutex = "free"
  /\ tpc' = "check"
  /\ UNCHANGED <<feed, mutex, missed, buffer, muxer, output, abort_request, format, history, fault>>

GetBuffer ==
  /\ tpc = "get"
  /\ TakeBuffer
  /\ buffer' = Head(audioq)
  /\ tpc' = "got"
  /\ UNCHANGED <<mutex, missed, muxer, output, abort_request, format, history, fault>>

GetAborted ==
  /\ tpc = "get"
  /\ aborted
  /\ mutex = "free"
  /\ tpc' = "done"
  /\ UNCHANGED <<feed, mutex, missed, buffer, muxer, output, abort_request, format, history, fault>>

--------------------------------------------------------------------------------
(* What the thread does with a buffer, under encode_head_mutex.            *)

\* cleanup_avcontext and init_avcontext: a new codec and muxer, but the same
\* AVIOContext with what is in it.
CleanupContext ==
  /\ sent_header' = FALSE
  /\ encode_head' = Null
  /\ codec_queue' = <<>>

\* The header, before the first buffer; what avio held of an earlier stream
\* goes out first.
NewHeader == IF sent_header THEN <<>> ELSE Chunk(encode_head, avio) \o Chunk(encode_head, <<Header>>)

\* Some packets come out of the codec, and some units fall out of avio, with
\* the item of this buffer as their label.
EncodeBuffer ==
  /\ ItemAt(buffer) # End
  /\ \E coded \in 0 .. Len(codec_queue) + 1 :
       LET frames  == Append(codec_queue, buffer)
           written == (IF sent_header THEN avio ELSE <<>>) \o SubSeq(frames, 1, coded)
       IN  /\ Len(frames) - coded <= CodecDelay
           /\ codec_queue' = SubSeq(frames, coded + 1, Len(frames))
           /\ \E full \in 0 .. Len(written) :
                /\ Len(written) - full <= AvioSize
                /\ avio' = SubSeq(written, full + 1, Len(written))
                /\ Put(NewHeader \o Chunk(ItemAt(buffer), SubSeq(written, 1, full)))
  /\ sent_header' = TRUE
  /\ encode_head' = ItemAt(buffer)
  /\ UNCHANGED fault

\* Mutant of EncodeEnd: the codec is not drained.
EncodeEndUndrained ==
  /\ ItemAt(buffer) = End
  /\ Put(Chunk(encode_head, avio) \o Chunk(encode_head, <<Trailer>>) \o Sentinel(FALSE))
  /\ avio' = <<>>
  /\ CleanupContext
  /\ fault' = IF sent_header THEN fault ELSE "trailer without header"

\* Nothing tests sent_header: av_write_trailer "may only be called after a
\* successful call to avformat_write_header".
EncodeEnd ==
  /\ ItemAt(buffer) = End
  /\ Put(Chunk(encode_head, avio \o codec_queue) \o Chunk(encode_head, <<Trailer>>) \o Sentinel(FALSE))
  /\ avio' = <<>>
  /\ CleanupContext
  /\ fault' = IF sent_header THEN fault ELSE "trailer without header"

Encode ==
  /\ tpc = "got"
  /\ mutex = "free"
  /\ EncodeBuffer \/ EncodeEnd
  /\ buffer' = Null
  /\ tpc' = "check"
  /\ UNCHANGED <<feed, mutex, missed, out_aborted, abort_request, format, history>>

Thread == Check \/ Lock \/ Sleep \/ Woken \/ GetBuffer \/ GetAborted \/ Encode

SpuriousWake ==
  /\ tpc = "asleep"
  /\ SignalDrain
  /\ UNCHANGED <<feed, mutex, buffer, muxer, output, abort_request, format, history, fault>>

--------------------------------------------------------------------------------
(* The reader: groove_encoder_buffer_get(..., 1), over and over.            *)

\* Mutant of ReadChunk: a signal only when the queue is empty.
ReadChunkQuiet ==
  LET chunk == Head(outq)
  IN  /\ ~IsSentinel(chunk)
      /\ audioq_size' = audioq_size - Len(chunk.data)
      /\ IF Tail(outq) = <<>> THEN SignalDrain ELSE UNCHANGED <<tpc, missed>>
      /\ read' = read \o chunk.data
      /\ finished' = <<>>

ReadChunk ==
  LET chunk == Head(outq)
  IN  /\ ~IsSentinel(chunk)
      /\ audioq_size' = audioq_size - Len(chunk.data)
      /\ IF audioq_size' < encoded_buffer_size THEN SignalDrain ELSE UNCHANGED <<tpc, missed>>
      /\ read' = read \o chunk.data
      /\ finished' = <<>>

ReadEnd ==
  /\ IsSentinel(Head(outq))
  /\ read' = <<>>
  /\ finished' = IF Head(outq).cut THEN <<>> ELSE read
  /\ UNCHANGED <<audioq_size, tpc, missed>>

BufferGet ==
  /\ outq # <<>> /\ ~out_aborted
  /\ outq' = Tail(outq)
  /\ ReadChunk \/ ReadEnd
  /\ UNCHANGED <<feed, mutex, buffer, muxer, out_aborted, abort_request, format, late, refused, fault>>

--------------------------------------------------------------------------------
(* The hooks, called by the playlist.                                      *)

Deliver ==
  /\ DeliverBuffer(setup.sinkSize)
  /\ UNCHANGED <<thread, muxer, output, abort_request, format, history, fault>>

LeftBehind(i) ==
  (\E p \in Range(audioq) : ItemAt(p) = i) \/ \E k \in DOMAIN outq : outq[k].item = i

RemoveItem(i) ==
  /\ \/ RemoveBegin(i) /\ late' = (late \/ (~attached /\ LeftBehind(i)))
     \/ RemoveStraggling(i) /\ late' = TRUE
  /\ UNCHANGED <<thread, muxer, output, abort_request, format, refused, read, finished, fault>>

\* Mutant of PurgeHook: encode_head still points to the item.
PurgeHookQueue ==
  /\ Proceed("purge_hook", "free")
  /\ mutex = "free"
  /\ Drop(arg)
  /\ SignalDrain
  /\ late' = (late \/ (buffer # Null /\ ItemAt(buffer) = arg))
  /\ UNCHANGED <<mutex, buffer, muxer, out_aborted, abort_request, format, refused, read, finished,
                 fault>>

PurgeHook ==
  /\ Proceed("purge_hook", "free")
  /\ mutex = "free"
  /\ Drop(arg)
  /\ encode_head' = IF encode_head = arg THEN Null ELSE encode_head
  /\ SignalDrain
  /\ late' = (late \/ (buffer # Null /\ ItemAt(buffer) = arg))
  /\ UNCHANGED <<mutex, buffer, codec_queue, avio, sent_header, out_aborted, abort_request, format,
                 refused, read, finished, fault>>

RemoveFree ==
  /\ RemoveEnd
  /\ UNCHANGED <<thread, muxer, output, abort_request, format, history, fault>>

Seek(p) ==
  /\ SeekBegin(p)
  /\ UNCHANGED <<thread, muxer, output, abort_request, format, history, fault>>

\* Mutant of FlushHook: the codec and the muxer go on where they were.
FlushHookKeeps ==
  /\ SeekEnd
  /\ mutex = "free"
  /\ outq' = Sentinel(TRUE) /\ audioq_size' = audioq_size - Bytes(outq)
  /\ SignalDrain
  /\ late' = (late \/ buffer # Null)
  /\ UNCHANGED <<mutex, buffer, muxer, out_aborted, abort_request, format, refused, read, finished,
                 fault>>

FlushHook ==
  /\ SeekEnd
  /\ mutex = "free"
  /\ outq' = Sentinel(TRUE) /\ audioq_size' = audioq_size - Bytes(outq)
  /\ CleanupContext
  /\ SignalDrain
  /\ late' = (late \/ buffer # Null)
  /\ UNCHANGED <<mutex, buffer, avio, out_aborted, abort_request, format, refused, read, finished,
                 fault>>

--------------------------------------------------------------------------------
(* groove_encoder_detach and groove_encoder_attach.                        *)

DetachBegin ==
  /\ DetachCall("sink_abort")
  /\ abort_request' = TRUE
  /\ UNCHANGED <<thread, muxer, output, format, history, fault>>

DetachSink ==
  /\ SinkAbort \/ SinkUnmap
  /\ UNCHANGED <<thread, muxer, output, abort_request, format, history, fault>>

\* groove_queue_flush and groove_queue_abort on outq.  What the thread still
\* makes of a buffer it has in hand goes into the flushed queue and stays.
DetachOutput ==
  /\ Proceed("detached", "out_aborted")
  /\ outq' = <<>> /\ audioq_size' = audioq_size - Bytes(outq)
  /\ out_aborted' = TRUE
  /\ read' = <<>> /\ finished' = <<>>
  /\ late' = (late \/ buffer # Null)
  /\ UNCHANGED <<thread, muxer, abort_request, format, refused, fault>>

\* Mutant of DetachSignal: nothing wakes a thread that waits for room.
DetachSilent ==
  /\ Proceed("out_aborted", "join")
  /\ UNCHANGED <<thread, muxer, output, abort_request, format, history, fault>>

DetachSignal ==
  /\ Proceed("out_aborted", "join")
  /\ SignalDrain
  /\ UNCHANGED <<mutex, buffer, muxer, output, abort_request, format, history, fault>>

\* Mutant of Joined: the flag is left for the next thread to find.
JoinedStillAborted ==
  /\ Proceed("join", "idle")
  /\ tpc = "done"
  /\ CleanupContext
  /\ UNCHANGED <<thread, avio, output, abort_request, format, history, fault>>

Joined ==
  /\ Proceed("join", "idle")
  /\ tpc = "done"
  /\ abort_request' = FALSE
  /\ CleanupContext
  /\ UNCHANGED <<thread, avio, output, format, history, fault>>

\* Both queues are reset; what they hold, and what avio holds, stays.
Attach(c) ==
  /\ AttachCall("idle")
  /\ Encodable(c, setup.target)
  /\ codec' = c
  /\ actual_audio_format' = Negotiated(c, setup.target)
  /\ out_aborted' = FALSE
  /\ tpc' = "check"
  /\ UNCHANGED <<mutex, missed, buffer, muxer, outq, audioq_size, abort_request, history, fault>>

\* No format, codec or sample format: groove_encoder_detach is called for a
\* sink that is not attached, sets the flag and returns with it set.
AttachRefused(c) ==
  /\ May("attach") /\ Spend
  /\ ~attached
  /\ ~Encodable(c, setup.target)
  /\ out_aborted' = FALSE
  /\ abort_request' = TRUE
  /\ refused' = TRUE
  /\ UNCHANGED <<setup, todo, audioq, alive, aborted, attached, flushing, apc, arg, thread, muxer,
                 outq, audioq_size, format, late, read, finished, fault>>

Continue ==
  \/ PurgeHook \/ RemoveFree \/ FlushHook
  \/ DetachSink \/ DetachOutput \/ DetachSignal \/ Joined

\* After a fault the program's behaviour is not defined: the model stops.
Next ==
  /\ fault = "none"
  /\ \/ Thread \/ SpuriousWake \/ BufferGet \/ Deliver \/ Continue
     \/ \E i \in Item : RemoveItem(i)
     \/ \E p \in setup.seekTo : Seek(p)
     \/ DetachBegin
     \/ \E c \in setup.codecs : Attach(c) \/ AttachRefused(c)

(***************************************************************************)
(* The thread, the decoder, a call under way and the reader go on when they *)
(* can; nobody makes the application call anything else.                    *)
(***************************************************************************)
Spec ==
  /\ Init /\ [][Next]_vars
  /\ WF_vars(fault = "none" /\ Thread) /\ WF_vars(fault = "none" /\ BufferGet)
  /\ WF_vars(fault = "none" /\ Deliver) /\ WF_vars(fault = "none" /\ Continue)

--------------------------------------------------------------------------------
(***************************************************************************)
(* Types; and audioq_size, kept by the put, get and cleanup hooks, is what  *)
(* the chunks of outq come to.                                             *)
(***************************************************************************)
TypeOK ==
  /\ FeedTypeOK
  /\ codec_queue \in Seq(DOMAIN setup.feed)
  /\ avio \in Seq(Unit)
  /\ mutex \in {"free", "thread"}
  /\ buffer \in DOMAIN setup.feed \cup {Null} /\ encode_head \in Item \cup {Null}
  /\ outq \in Seq(Chunks) /\ audioq_size = Bytes(outq)
  /\ fault \in {"none", "trailer without header"}

(***************************************************************************)
(* What the application reads from the last header on is the playlist's     *)
(* audio from some place on, in order and without a gap, whatever seeks,    *)
(* detaches and attaches came between; the trailer comes only where the     *)
(* playlist ends, and the end of the queue (encoder.h: "GROOVE_BUFFER_END   *)
(* on end of playlist", "when end of playlist is reached, format trailers   *)
(* are generated") only after it.  Items that are removed leave gaps, and a *)
(* buffer that was in the thread's hands at a flush or a detach is a        *)
(* straggler in the next stream.  In what order a decoder that strayed goes *)
(* through the playlist when a seek or a removal meets it is not modelled.  *)
(***************************************************************************)
LastHeader(units) == SelectLastInSeq(units, LAMBDA u : u = Header)

Stream(units) == SubSeq(units, LastHeader(units) + 1, Len(units))

InOrder(frames) ==
  \A k \in DOMAIN frames :
    IF frames[k] = Trailer
    THEN k = Len(frames) /\ k > 1 /\ ItemAt(frames[k - 1] + 1) = End
    ELSE k > 1 => frames[k] = frames[k - 1] + 1

StreamInOrder ==
  ~late /\ ~setup.strays /\ "remove" \notin setup.calls =>
    /\ LastHeader(read) # 0 => InOrder(Stream(read))
    /\ finished # <<>> => /\ LastHeader(finished) # 0
                          /\ InOrder(Stream(finished))
                          /\ Last(finished) = Trailer

(***************************************************************************)
(* purge is the "opportunity to remove all your references to the           *)
(* GroovePlaylistItem" (groove.h:329-330): unless a buffer of it was out of *)
(* reach, in the thread's hands, kept by a detached encoder, or labelled by *)
(* a decoder that strayed and not yet in the queue, neither a chunk nor     *)
(* encode_head refers to an item that was freed.                            *)
(***************************************************************************)
PurgedInTime ==
  ~late => \A i \in Item \ alive : encode_head # i /\ \A k \in DOMAIN outq : outq[k].item # i

(***************************************************************************)
(* Left alone, the whole playlist comes out to a reader that reads, unless  *)
(* the thread missed the signal of a reader (the sleep of BugInfoSleep,     *)
(* which encoder.c:224 shares).                                            *)
(***************************************************************************)
EncodesAll ==
  setup.calls = {} =>
    <>(missed \/ (todo = <<>> /\ audioq = <<>> /\ buffer = Null /\ avio = <<>> /\ outq = <<>>))

(***************************************************************************)
(* groove_encoder_detach joins the thread, and it ends, unless it misses    *)
(* the signal, which is sent without encode_head_mutex.                     *)
(***************************************************************************)
DetachJoins == apc = "join" ~> (apc # "join" \/ missed \/ fault # "none")

(***************************************************************************)
(* Between its calls an attached encoder has a thread that runs, also when  *)
(* it was detached before: the flag that ended one thread does not end the  *)
(* next.  (After an attach that failed it does: see AttachRefused.)         *)
(***************************************************************************)
AttachedRuns ==
  /\ TypeOK
  /\ attached /\ apc = "idle" /\ ~refused => tpc # "done"

(***************************************************************************)
(* "if we can, return exact match. otherwise, return the minimum sample     *)
(* rate >= target" (encoder.c:595-596), and the best there is if all are    *)
(* below; the same of the number of channels; and a sample format that the  *)
(* codec takes, the target's own if it takes that in any layout.            *)
(***************************************************************************)
Closest(chosen, listed, target) ==
  \/ chosen = target
  \/ /\ target \notin listed /\ chosen \in listed
     /\ \A other \in listed : /\ other > target => chosen > target /\ chosen <= other
                              /\ chosen < target => other <= chosen

FormatClosest ==
  LET counts == {l.count : l \in Range(codec.layouts)}
      same   == {planar \in BOOLEAN : Supports(codec, setup.target.format, planar)}
  IN  /\ Closest(actual_audio_format.rate, Range(codec.rates), setup.target.rate)
      /\ Closest(actual_audio_format.layout.count, counts, setup.target.layout.count)
      /\ Supports(codec, actual_audio_format.format, actual_audio_format.planar)
      /\ same # {} => actual_audio_format.format = setup.target.format
      /\ setup.target.planar \in same => actual_audio_format.planar = setup.target.planar
================================================================================
