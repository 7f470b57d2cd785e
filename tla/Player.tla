---------------------------------- MODULE Player ---------------------------------
(***************************************************************************)
(* src/src/player.c: the sink whose reader is the audio device.  Three      *)
(* threads meet here.  The callback of the device takes a buffer from the   *)
(* sink when the last one is played; helper_thread opens and closes the     *)
(* device and starts it when the sink is full; the playlist calls the       *)
(* purge, flush, filled, pause and play hooks.  play_head_mutex protects    *)
(* the state, but not from underflow_callback, which takes no mutex.        *)
(*                                                                         *)
(* libsoundio is external: it calls the callback of a stream that was       *)
(* started and is not paused, one at a time, and destroying a stream waits  *)
(* for a callback under way.  A callback is modelled with room for one      *)
(* buffer; a longer one is several of them in a row.                        *)
(***************************************************************************)
EXTENDS SinkFeed

\* Of a setup this module reads one more field: "formats", the format of the
\* audio of each item.  Of the calls, "underflow", "open_fails" and
\* "start_fails" are things the device may do.

CONSTANT DeviceFrames  \* device_buffer_frames, in callbacks

ASSUME DeviceAssumption == DeviceFrames \in Nat \ {0}

VARIABLES
  tpc,                     \* helper_thread; it holds play_head_mutex where Held
  cb,                      \* a callback that waits for play_head_mutex
  filling,                 \* the decoder has put a buffer and is about to call filled
  outstream,               \* "none", "opened" or "started"
  stream_paused,
  device_format, buffer_size,
  audio_buf, ready,        \* ready: audio_buf_index < audio_buf_size
  play_head,
  prebuffering, is_paused, is_started, paused,
  request_device_close, request_device_open, silence_frames_left,
  abort_request,
  missed,     \* history: a signal fell between the helper's test and its sleep
  late,       \* history: an item of play_head or of the sink's queue went while detached,
              \* or one of which a decoder that strayed had a buffer in its hands
  heard,      \* history: the places played since the last flush
  skipped,    \* history: the places that helper_thread took from the sink
  ends,       \* history: the END_OF_PLAYLIST events
  swallowed,  \* history: helper_thread took an end-of-playlist mark
  fault

stream   == <<outstream, stream_paused, device_format, buffer_size>>
head     == <<audio_buf, ready, play_head>>
pausing  == <<is_paused, is_started, paused>>
requests == <<request_device_close, request_device_open, silence_frames_left>>
history  == <<late, heard, skipped, ends, swallowed>>
vars     == <<feed, tpc, cb, filling, stream, head, prebuffering, pausing, requests, abort_request,
              missed, history, fault>>

FormatOf(p) == setup.formats[ItemAt(p)]

Held == tpc \in {"loop", "fetch", "decide", "sleep"}

\* At first the sink takes one buffer; the device decides on the rest.
Init ==
  /\ FeedInit
  /\ tpc = "enter" /\ cb = FALSE /\ filling = FALSE
  /\ outstream = "none" /\ stream_paused = FALSE /\ device_format = Null /\ buffer_size = 1
  /\ audio_buf = Null /\ ready = FALSE /\ play_head = Null
  /\ prebuffering = FALSE
  /\ is_paused = FALSE /\ is_started = FALSE /\ paused = FALSE
  /\ request_device_close = FALSE /\ request_device_open = TRUE /\ silence_frames_left = 0
  /\ abort_request = FALSE
  /\ missed = FALSE /\ late = FALSE /\ heard = <<>> /\ skipped = {} /\ ends = 0 /\ swallowed = FALSE
  /\ fault = "none"

\* groove_os_cond_signal on helper_thread_cond.
SignalHelper ==
  /\ tpc' = IF tpc = "asleep" THEN "woken" ELSE tpc
  /\ missed' = (tpc = "sleep" \/ (missed /\ tpc # "asleep"))

--------------------------------------------------------------------------------
(* helper_thread_run.                                                      *)

Enter ==
  /\ tpc \in {"enter", "woken"}
  /\ tpc' = "loop"
  /\ UNCHANGED <<feed, cb, filling, stream, head, prebuffering, pausing, requests, abort_request,
                 missed, history, fault>>

\* The stream is destroyed with the mutex held: a callback that waits for the
\* mutex never ends, and neither does the destruction.
LoopTop ==
  /\ tpc = "loop"
  /\ IF abort_request
     THEN /\ tpc' = "closing"
          /\ UNCHANGED <<outstream, request_device_close, prebuffering, fault>>
     ELSE /\ tpc' = "fetch"
          /\ IF request_device_close /\ silence_frames_left = 0
             THEN /\ outstream' = "none"
                  /\ request_device_close' = FALSE
                  /\ prebuffering' = TRUE
                  /\ fault' = IF cb THEN "closed under a callback" ELSE fault
             ELSE UNCHANGED <<outstream, request_device_close, prebuffering, fault>>
  /\ UNCHANGED <<feed, cb, filling, stream_paused, device_format, buffer_size, head, pausing,
                 request_device_open, silence_frames_left, abort_request, missed, history>>

\* audio_buf_size stays 0, so that the callback will drop what is taken here;
\* an end-of-playlist mark is as good as nothing.
Fetch ==
  /\ tpc = "fetch"
  /\ IF audio_buf = Null /\ audioq # <<>> /\ ~aborted
     THEN /\ TakeBuffer
          /\ IF ItemAt(Head(audioq)) = End
             THEN tpc' = "sleep" /\ swallowed' = TRUE /\ UNCHANGED <<audio_buf, skipped>>
             ELSE /\ tpc' = "decide"
                  /\ audio_buf' = Head(audioq)
                  /\ skipped' = skipped \cup {Head(audioq)}
                  /\ UNCHANGED swallowed
     ELSE /\ tpc' = IF audio_buf = Null THEN "sleep" ELSE "decide"
          /\ UNCHANGED <<feed, audio_buf, skipped, swallowed>>
  /\ UNCHANGED <<cb, filling, stream, ready, play_head, prebuffering, pausing, requests,
                 abort_request, missed, late, heard, ends, fault>>

ContainsEnd == \E p \in Range(audioq) : ItemAt(p) = End

DonePrebuffering == prebuffering /\ (ContainsEnd \/ Len(Buffers) >= buffer_size)

Opens ==
  \/ request_device_open /\ silence_frames_left = 0
  \/ outstream = "none" /\ DonePrebuffering

\* open_audio_device, which begins with assert(!p->outstream).  The sink is
\* resized unless the decoder holds its mutex just then.
OpenDevice ==
  /\ outstream' = "opened" /\ stream_paused' = FALSE
  /\ device_format' = FormatOf(audio_buf)
  /\ buffer_size' \in {buffer_size, setup.sinkSize}
  /\ fault' = IF outstream # "none" THEN "assertion" ELSE fault

\* Stay with the device there is.
Decide ==
  /\ tpc = "decide"
  /\ ~Opens
  /\ IF DonePrebuffering
     THEN /\ prebuffering' = FALSE
          /\ is_started' = TRUE
          /\ IF is_started
             THEN tpc' = "loop" /\ stream_paused' = is_paused
             ELSE tpc' = "start" /\ UNCHANGED stream_paused
     ELSE tpc' = "sleep" /\ UNCHANGED <<prebuffering, is_started, stream_paused>>
  /\ UNCHANGED <<feed, cb, filling, outstream, device_format, buffer_size, head, is_paused, paused,
                 requests, abort_request, missed, history, fault>>

DecideOpen ==
  /\ tpc = "decide"
  /\ Opens
  /\ OpenDevice
  /\ request_device_open' = FALSE
  /\ prebuffering' = ~DonePrebuffering
  /\ is_started' = DonePrebuffering
  /\ tpc' = IF DonePrebuffering THEN "start" ELSE "sleep"
  /\ UNCHANGED <<feed, cb, filling, head, is_paused, paused, request_device_close,
                 silence_frames_left, abort_request, missed, history>>

May1(event) == event \in setup.calls /\ budget > 0 /\ Spend
OnlyBudget  == UNCHANGED <<setup, todo, audioq, alive, aborted, attached, flushing, apc, arg>>

\* GROOVE_EVENT_DEVICE_OPEN_ERROR, and the helper is gone.
OpenFails ==
  /\ tpc = "decide"
  /\ Opens
  /\ May1("open_fails") /\ OnlyBudget
  /\ request_device_open' = FALSE
  /\ is_started' = FALSE
  /\ prebuffering' = TRUE
  /\ tpc' = "done"
  /\ UNCHANGED <<cb, filling, stream, head, is_paused, paused, request_device_close,
                 silence_frames_left, abort_request, missed, history, fault>>

\* soundio_outstream_start, without the mutex.
StartStream ==
  /\ tpc = "start"
  /\ outstream' = "started"
  /\ tpc' = "started"
  /\ UNCHANGED <<feed, cb, filling, stream_paused, device_format, buffer_size, head, prebuffering,
                 pausing, requests, abort_request, missed, history, fault>>

\* The mutex, given back before the start, is given back again.
StartFails ==
  /\ tpc = "start"
  /\ May1("start_fails") /\ OnlyBudget
  /\ fault' = "unlocked twice"
  /\ UNCHANGED <<tpc, cb, filling, stream, head, prebuffering, pausing, requests, abort_request,
                 missed, history>>

Started ==
  /\ tpc = "started"
  /\ stream_paused' = is_paused
  /\ tpc' = "loop"
  /\ UNCHANGED <<feed, cb, filling, outstream, device_format, buffer_size, head, prebuffering,
                 pausing, requests, abort_request, missed, history, fault>>

Sleep ==
  /\ tpc = "sleep"
  /\ tpc' = "asleep"
  /\ UNCHANGED <<feed, cb, filling, stream, head, prebuffering, pausing, requests, abort_request,
                 missed, history, fault>>

\* After the loop the device is closed without the mutex.
Closing ==
  /\ tpc = "closing"
  /\ ~cb
  /\ outstream' = "none"
  /\ tpc' = "done"
  /\ UNCHANGED <<feed, cb, filling, stream_paused, device_format, buffer_size, head, prebuffering,
                 pausing, requests, abort_request, missed, history, fault>>

Helper ==
  \/ Enter \/ LoopTop \/ Fetch \/ Decide \/ DecideOpen \/ StartStream \/ Started \/ Sleep \/ Closing

SpuriousWake ==
  /\ tpc = "asleep"
  /\ SignalHelper
  /\ UNCHANGED <<feed, cb, filling, stream, head, prebuffering, pausing, requests, abort_request,
                 history, fault>>

--------------------------------------------------------------------------------
(* The device: audio_callback, under play_head_mutex.                      *)

CallbackEnter ==
  /\ outstream = "started" /\ ~stream_paused /\ ~cb
  /\ cb' = TRUE
  /\ UNCHANGED <<feed, tpc, filling, stream, head, prebuffering, pausing, requests, abort_request,
                 missed, history, fault>>

Silent == prebuffering \/ request_device_close \/ is_paused

\* One piece of silence; the last of those a closing device is owed wakes the
\* helper.
WriteSilence(owed) ==
  /\ silence_frames_left' = IF owed = 0 THEN 0 ELSE owed - 1
  /\ IF owed = 1 THEN SignalHelper ELSE UNCHANGED <<tpc, missed>>

PlaySilence ==
  /\ Silent
  /\ WriteSilence(silence_frames_left)
  /\ UNCHANGED <<feed, head, request_device_close, request_device_open, heard, ends>>

Play(p) == heard' = Append(heard, p) /\ ready' = FALSE

\* What was loaded before the device was opened again.
PlayLoaded ==
  /\ ~Silent /\ ready
  /\ Play(audio_buf)
  /\ UNCHANGED <<feed, tpc, audio_buf, play_head, requests, missed, ends>>

PlayEnd ==
  /\ ~Silent /\ ~ready
  /\ TakeBuffer
  /\ ItemAt(Head(audioq)) = End
  /\ audio_buf' = Null /\ play_head' = Null
  /\ request_device_close' = TRUE
  /\ WriteSilence(DeviceFrames)
  /\ ends' = ends + 1
  /\ UNCHANGED <<ready, request_device_open, heard>>

\* Mutant of PlayNext: the format is not looked at.
PlayNextBlindly ==
  /\ ~Silent /\ ~ready
  /\ TakeBuffer
  /\ ItemAt(Head(audioq)) # End
  /\ audio_buf' = Head(audioq)
  /\ play_head' = ItemAt(Head(audioq))
  /\ Play(Head(audioq)) /\ UNCHANGED <<tpc, requests, missed>>
  /\ UNCHANGED ends

\* A buffer of another format stays loaded until the device is open again.
PlayNext ==
  /\ ~Silent /\ ~ready
  /\ TakeBuffer
  /\ ItemAt(Head(audioq)) # End
  /\ audio_buf' = Head(audioq)
  /\ play_head' = ItemAt(Head(audioq))
  /\ IF FormatOf(Head(audioq)) = device_format
     THEN Play(Head(audioq)) /\ UNCHANGED <<tpc, requests, missed>>
     ELSE /\ ready' = TRUE
          /\ request_device_close' = TRUE /\ request_device_open' = TRUE
          /\ WriteSilence(DeviceFrames)
          /\ UNCHANGED heard
  /\ UNCHANGED ends

\* GROOVE_EVENT_STREAM_ERROR.
PlayNothing ==
  /\ ~Silent /\ ~ready
  /\ audioq = <<>> \/ aborted
  /\ audio_buf' = Null
  /\ UNCHANGED <<feed, tpc, ready, play_head, requests, missed, heard, ends>>

Callback ==
  /\ cb /\ ~Held
  /\ cb' = FALSE
  /\ PlaySilence \/ PlayLoaded \/ PlayEnd \/ PlayNext \/ PlayNothing
  /\ UNCHANGED <<filling, stream, prebuffering, pausing, abort_request, late, skipped, swallowed,
                 fault>>

\* underflow_callback, called by libsoundio without play_head_mutex.
Underflow ==
  /\ outstream = "started" /\ ~stream_paused /\ ~cb
  /\ May1("underflow") /\ OnlyBudget
  /\ prebuffering' = TRUE
  /\ SignalHelper
  /\ UNCHANGED <<cb, filling, stream, head, pausing, requests, abort_request, history, fault>>

--------------------------------------------------------------------------------
(* The hooks, called by the playlist, under play_head_mutex.               *)

Deliver ==
  /\ ~filling
  /\ DeliverBuffer(buffer_size)
  /\ filling' = TRUE
  /\ UNCHANGED <<tpc, cb, stream, head, prebuffering, pausing, requests, abort_request, missed,
                 history, fault>>

\* Mutant of Filled: no signal.
FilledSilent ==
  /\ filling /\ ~Held
  /\ filling' = FALSE
  /\ UNCHANGED <<feed, tpc, missed, cb, stream, head, prebuffering, pausing, requests,
                 abort_request, history, fault>>

Filled ==
  /\ filling /\ ~Held
  /\ filling' = FALSE
  /\ SignalHelper
  /\ UNCHANGED <<feed, cb, stream, head, prebuffering, pausing, requests, abort_request, history,
                 fault>>

RemoveItem(i) ==
  /\ \/ /\ filling => setup.strays
        /\ RemoveBegin(i)
        /\ late' = (late \/ (~attached /\ (play_head = i \/ \E p \in Range(audioq) : ItemAt(p) = i)))
     \/ /\ ~filling
        /\ RemoveStraggling(i)
        /\ late' = TRUE
  /\ UNCHANGED <<tpc, cb, filling, stream, head, prebuffering, pausing, requests, abort_request,
                 missed, heard, skipped, ends, swallowed, fault>>

\* Mutant of PurgeHook: the buffer is dropped and play_head stays.
PurgeHookBuffer ==
  /\ Proceed("purge_hook", "free")
  /\ ~Held
  /\ IF play_head = arg
     THEN audio_buf' = Null /\ ready' = FALSE /\ UNCHANGED play_head
     ELSE UNCHANGED head
  /\ UNCHANGED <<tpc, cb, filling, stream, prebuffering, pausing, requests, abort_request, missed,
                 history, fault>>

PurgeHook ==
  /\ Proceed("purge_hook", "free")
  /\ ~Held
  /\ IF play_head = arg
     THEN audio_buf' = Null /\ ready' = FALSE /\ play_head' = Null
     ELSE UNCHANGED head
  /\ UNCHANGED <<tpc, cb, filling, stream, prebuffering, pausing, requests, abort_request, missed,
                 history, fault>>

RemoveFree ==
  /\ RemoveEnd
  /\ UNCHANGED <<tpc, cb, filling, stream, head, prebuffering, pausing, requests, abort_request,
                 missed, history, fault>>

Seek(p) ==
  /\ ~filling
  /\ SeekBegin(p)
  /\ UNCHANGED <<tpc, cb, filling, stream, head, prebuffering, pausing, requests, abort_request,
                 missed, history, fault>>

\* Mutant of FlushHook: what is loaded is kept.
FlushHookKeeps ==
  /\ SeekEnd
  /\ ~Held
  /\ play_head' = Null
  /\ prebuffering' = TRUE
  /\ heard' = <<>>
  /\ UNCHANGED <<tpc, cb, filling, stream, audio_buf, ready, pausing, requests, abort_request,
                 missed, late, skipped, ends, swallowed, fault>>

\* While the helper closes the device for good, p->outstream is not its own
\* to destroy.
FlushHook ==
  /\ SeekEnd
  /\ ~Held
  /\ audio_buf' = Null /\ ready' = FALSE /\ play_head' = Null
  /\ prebuffering' = TRUE
  /\ heard' = <<>>
  /\ fault' = IF tpc = "closing" /\ outstream # "none" THEN "flushed while closing" ELSE fault
  /\ UNCHANGED <<tpc, cb, filling, stream, pausing, requests, abort_request, missed, late, skipped,
                 ends, swallowed>>

\* set_pause_state: is_started outlives the stream.
SetPauseState(state) ==
  /\ is_paused' = state
  /\ stream_paused' = IF is_started THEN prebuffering \/ state ELSE stream_paused
  /\ fault' = IF is_started /\ outstream = "none" THEN "paused without a stream" ELSE fault

\* groove_playlist_pause and groove_playlist_play.
PausePlay ==
  /\ May("pause") /\ Spend
  /\ ~Held
  /\ paused' = ~paused
  /\ IF attached THEN SetPauseState(~paused) ELSE UNCHANGED <<is_paused, stream_paused, fault>>
  /\ OnlyBudget
  /\ UNCHANGED <<tpc, cb, filling, outstream, device_format, buffer_size, head, prebuffering,
                 is_started, requests, abort_request, missed, history>>

--------------------------------------------------------------------------------
(* groove_player_detach and groove_player_attach.                          *)

\* Mutant of DetachBegin: the helper is not woken.
DetachSilent ==
  /\ DetachCall("join")
  /\ ~Held
  /\ abort_request' = TRUE
  /\ UNCHANGED <<tpc, missed, cb, filling, stream, head, prebuffering, pausing, requests, history,
                 fault>>

DetachBegin ==
  /\ DetachCall("join")
  /\ ~Held
  /\ abort_request' = TRUE
  /\ SignalHelper
  /\ UNCHANGED <<cb, filling, stream, head, prebuffering, pausing, requests, history, fault>>

Joined ==
  /\ Proceed("join", "sink_abort")
  /\ tpc = "done"
  /\ UNCHANGED <<tpc, cb, filling, stream, head, prebuffering, pausing, requests, abort_request,
                 missed, history, fault>>

DetachSink ==
  /\ SinkAbort \/ (~filling /\ SinkUnmap)
  /\ UNCHANGED <<tpc, cb, filling, stream, head, prebuffering, pausing, requests, abort_request,
                 missed, history, fault>>

\* is_started, prebuffering, request_device_close and play_head stay.
Detached ==
  /\ Proceed("detached", "idle")
  /\ audio_buf' = Null
  /\ abort_request' = FALSE
  /\ UNCHANGED <<tpc, cb, filling, stream, ready, play_head, prebuffering, pausing, requests,
                 missed, history, fault>>

\* The sink first: the decoder may deliver to it, and flush it, before the
\* rest is done.
Attach ==
  /\ AttachCall("attaching")
  /\ buffer_size' = 1
  /\ heard' = <<>>
  /\ UNCHANGED <<tpc, cb, filling, outstream, stream_paused, device_format, head, prebuffering, pausing,
                 requests, abort_request, missed, late, skipped, ends, swallowed, fault>>

\* assert(!p->outstream), then set_pause_state, and then the helper.
AttachRest ==
  /\ Proceed("attaching", "idle")
  /\ request_device_open' = TRUE /\ silence_frames_left' = 0
  /\ ready' = FALSE
  /\ is_paused' = paused
  /\ fault' = CASE outstream # "none" -> "assertion"
                [] is_started          -> "paused without a stream"
                [] OTHER               -> fault
  /\ tpc' = "enter"
  /\ UNCHANGED <<cb, filling, stream, audio_buf, play_head, prebuffering, is_started, paused,
                 request_device_close, abort_request, missed, history>>

Continue ==
  \/ PurgeHook \/ RemoveFree \/ FlushHook
  \/ Joined \/ DetachSink \/ Detached \/ AttachRest

\* After a fault the program's behaviour is not defined, or it hangs: the
\* model stops.
Next ==
  /\ fault = "none"
  /\ \/ Helper \/ OpenFails \/ StartFails \/ SpuriousWake
     \/ CallbackEnter \/ Callback \/ Underflow
     \/ Deliver \/ Filled \/ Continue
     \/ \E i \in Item : RemoveItem(i)
     \/ \E p \in setup.seekTo : Seek(p)
     \/ PausePlay \/ DetachBegin \/ Attach

(***************************************************************************)
(* The helper, the decoder and a call under way go on when they can, and a  *)
(* device that plays keeps asking for audio.  Who waits for play_head_mutex *)
(* gets it at last, though the helper takes it again and again; a stream    *)
(* that is destroyed gets no new callback.                                 *)
(***************************************************************************)
Spec ==
  /\ Init /\ [][Next]_vars
  /\ SF_vars(fault = "none" /\ Helper)
  /\ WF_vars(fault = "none" /\ CallbackEnter) /\ SF_vars(fault = "none" /\ Callback)
  /\ WF_vars(fault = "none" /\ Deliver) /\ SF_vars(fault = "none" /\ Filled)
  /\ SF_vars(fault = "none" /\ Continue)

--------------------------------------------------------------------------------
TypeOK ==
  /\ FeedTypeOK
  /\ heard \in Seq(DOMAIN setup.feed)
  /\ outstream \in {"none", "opened", "started"}
  /\ audio_buf \in DOMAIN setup.feed \cup {Null} /\ play_head \in Item \cup {Null}
  /\ silence_frames_left \in 0 .. DeviceFrames
  /\ buffer_size \in {1, setup.sinkSize}

(***************************************************************************)
(* Audio only ever reaches a device opened for its format ("the audio       *)
(* device is closed and re-opened as necessary", player.h:126-127), and the *)
(* assertions hold that there is no stream yet (player.c:261, 577): through *)
(* seeks, removals and underruns that come while a close or an open is due. *)
(***************************************************************************)
FormatMatches ==
  [][ /\ fault' # "assertion"
      /\ heard' \notin {heard, <<>>} =>
           outstream = "started" /\ device_format = FormatOf(Last(heard')) ]_vars

(***************************************************************************)
(* Since the last flush what is heard is the playlist in order; left out is *)
(* only what helper_thread took to learn the format and the callback then   *)
(* dropped, and what was removed.  In what order a decoder that strayed     *)
(* goes through the playlist when a seek or a removal meets it is not       *)
(* modelled.                                                               *)
(***************************************************************************)
HeardInOrder ==
  ~setup.strays => \A k \in 1 .. Len(heard) - 1 :
    /\ heard[k] < heard[k + 1]
    /\ \A p \in heard[k] + 1 .. heard[k + 1] - 1 : p \in skipped \/ ItemAt(p) \notin alive \ {arg}

(***************************************************************************)
(* purge is the "opportunity to remove all your references to the           *)
(* GroovePlaylistItem" (groove.h:329-330), and the player can: the callback *)
(* takes a buffer and sets play_head in one critical section.  Exempt are   *)
(* play_head, and buffers that came after its flush, in a player that was   *)
(* detached and no purge will reach, and the buffer that a decoder that     *)
(* strayed has labelled and puts in the queue behind the purge.             *)
(***************************************************************************)
PlayHeadAlive == TypeOK /\ (~late => play_head \in alive \cup {Null})

(***************************************************************************)
(* Left alone but for underruns, everything is played, GROOVE_EVENT_END_    *)
(* OF_PLAYLIST comes "when the end of playlist is hit" (player.h:33-34) and *)
(* the device is closed after it.  Exempt are the three ways this fails:    *)
(* an underrun signals without the mutex while the helper goes to sleep;    *)
(* the helper takes the end-of-playlist mark from a sink that ran dry; and  *)
(* the device is closed while a callback waits for the mutex.               *)
(***************************************************************************)
Places(i) == {p \in DOMAIN setup.feed : ItemAt(p) = i}

PlayedOut ==
  /\ \A p \in DOMAIN setup.feed \ Places(End) : p \in Range(heard) \cup skipped
  /\ ends = Cardinality(Places(End))
  /\ outstream = "none"

PlaysAll ==
  setup.calls \subseteq {"underflow"} => <>(PlayedOut \/ missed \/ swallowed \/ fault # "none")

(***************************************************************************)
(* groove_player_detach joins the helper, and the helper ends: the flag is  *)
(* set and signalled under play_head_mutex.                                 *)
(***************************************************************************)
DetachJoins == apc = "join" ~> (apc # "join" \/ fault # "none")
================================================================================
