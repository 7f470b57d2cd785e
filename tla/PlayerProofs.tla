------------------------------ MODULE PlayerProofs -------------------------------
(***************************************************************************)
(* The player of Player, whatever the playlist, the formats, the size of    *)
(* the device's buffer and the calls of the application: audio reaches only *)
(* a device opened for its format, play_head is an item that is not freed,  *)
(* and what is heard is the playlist in order.                             *)
(***************************************************************************)
EXTENDS Player, KeepSeqProofs

--------------------------------------------------------------------------------
(* The call, the helper and the device.                                    *)

CallPc == {"idle", "purge_hook", "free", "join", "sink_abort", "sink_map", "detached", "attaching"}

CallInv ==
  /\ apc \in CallPc
  /\ arg # Null <=> apc \in {"purge_hook", "free"}
  /\ apc \in {"purge_hook", "join", "sink_abort", "sink_map", "attaching"} => attached
  /\ apc = "detached" => ~attached
  /\ ~attached => ~flushing
  /\ flushing => audioq = <<>>

\* The helper has ended before the sink leaves the map, and is started after
\* the sink is back there; it has closed the stream before it ends, and there
\* is no callback without a stream.
HelperInv ==
  /\ ~attached \/ apc \in {"sink_abort", "sink_map", "attaching"} => tpc = "done"
  /\ tpc = "done" => outstream = "none"
  /\ tpc = "start" => outstream # "none"
  /\ fault = "none" /\ cb => outstream = "started"

\* A device is opened only where there is none: who asks for another one asks
\* to close this one first, and the helper does that before it gets to open.
DeviceInv ==
  /\ request_device_open => outstream = "none" \/ request_device_close
  /\ tpc \in {"fetch", "decide"} /\ silence_frames_left = 0 => ~request_device_close

\* What is loaded is of play_head, and of the device's format unless the device
\* is to be closed.  An attach forgets what a detach left behind, though not in
\* its first step.
HasLoaded == ready /\ attached /\ apc # "attaching"

LoadedInv ==
  HasLoaded =>
    /\ audio_buf # Null
    /\ play_head = ItemAt(audio_buf)
    /\ request_device_close \/ outstream = "none" \/ FormatOf(audio_buf) = device_format

DevicesInv == TypeOK /\ CallInv /\ HelperInv /\ DeviceInv /\ LoadedInv

--------------------------------------------------------------------------------
(* The feed, whoever takes the step.                                       *)

FeedMoves ==
  \/ UNCHANGED <<setup, todo, audioq, alive, aborted, attached, flushing, apc, arg>>
  \/ DeliverBuffer(buffer_size)
  \/ (\E i \in Item : RemoveBegin(i) \/ RemoveStraggling(i))
  \/ Proceed("purge_hook", "free") \/ RemoveEnd
  \/ (\E p \in setup.seekTo : SeekBegin(p))
  \/ DetachCall("join") \/ Proceed("join", "sink_abort")
  \/ SinkAbort \/ SinkUnmap \/ Proceed("detached", "idle")

\* The steps after which the queue may go on where the callback is, or the
\* callback where the queue does.
FeedNext == FeedMoves \/ TakeBuffer \/ SeekEnd \/ AttachCall("attaching") \/ Proceed("attaching", "idle")

LEMMA FeedStep ==
  ASSUME Next \/ UNCHANGED vars
  PROVE  FeedNext
<1>1. CASE UNCHANGED vars
  BY <1>1 DEF vars, feed, FeedNext, FeedMoves
<1>2. CASE Helper \/ SpuriousWake
  BY <1>2 DEF FeedNext, FeedMoves, Helper, Enter, LoopTop, Fetch, Decide, DecideOpen, StartStream,
              Started, Sleep, Closing, SpuriousWake, feed
<1>3. CASE OpenFails \/ StartFails \/ Underflow \/ PausePlay
  BY <1>3 DEF FeedNext, FeedMoves, OpenFails, StartFails, Underflow, PausePlay, OnlyBudget
<1>4. CASE CallbackEnter \/ Callback
  BY <1>4 DEF FeedNext, FeedMoves, CallbackEnter, Callback, PlaySilence, PlayLoaded, PlayEnd,
              PlayNext, PlayNothing, feed
<1>5. CASE Deliver \/ Filled
  BY <1>5 DEF FeedNext, FeedMoves, Deliver, Filled, feed
<1>6. CASE Continue
  BY <1>6 DEF FeedNext, FeedMoves, Continue, PurgeHook, RemoveFree, FlushHook, Joined, DetachSink, Detached,
              AttachRest
<1>7. CASE (\E i \in Item : RemoveItem(i)) \/ \E p \in setup.seekTo : Seek(p)
  BY <1>7 DEF FeedNext, FeedMoves, RemoveItem, Seek
<1>8. CASE DetachBegin \/ Attach
  BY <1>8 DEF FeedNext, FeedMoves, DetachBegin, Attach
<1> QED
  BY <1>1, <1>2, <1>3, <1>4, <1>5, <1>6, <1>7, <1>8 DEF Next

LEMMA SetupStays ==
  ASSUME FeedNext
  PROVE  setup' = setup
BY DEF FeedNext, FeedMoves, DeliverBuffer, TakeBuffer, RemoveBegin, RemoveStraggling, RemoveCall,
       Proceed, RemoveEnd, SeekBegin, SeekEnd, DetachCall, SinkAbort, SinkUnmap, AttachCall

\* What there is of the feed from place p on.
Rest(p) == [k \in 1 .. Len(setup.feed) - p + 1 |-> p + k - 1]

LEMMA RestType ==
  ASSUME FeedTypeOK, NEW p \in setup.seekTo
  PROVE  Rest(p) \in Seq(DOMAIN setup.feed)
<1>1. setup.feed \in Seq(Item \cup {End}) /\ p \in DOMAIN setup.feed
  BY FeedAssumption DEF FeedTypeOK
<1>2. DOMAIN setup.feed = 1 .. Len(setup.feed) /\ Len(setup.feed) \in Nat
  BY <1>1
<1>3. p \in 1 .. Len(setup.feed) /\ Len(setup.feed) - p + 1 \in Nat
  BY <1>1, <1>2
<1>4. \A k \in 1 .. Len(setup.feed) - p + 1 : p + k - 1 \in 1 .. Len(setup.feed)
  BY <1>3, <1>2
<1> QED
  BY <1>3, <1>4, <1>2, IsASeq DEF Rest

LEMMA FeedTypeStep ==
  ASSUME FeedTypeOK, FeedNext
  PROVE  FeedTypeOK'
<1> USE DEF FeedTypeOK
<1> DEFINE Q == Seq(DOMAIN setup.feed)
<1>1. CASE UNCHANGED <<setup, todo, audioq, alive, aborted, attached, flushing, apc, arg>>
  BY <1>1
<1>2. CASE DeliverBuffer(buffer_size)
  <2>1. todo # <<>>
    BY <1>2 DEF DeliverBuffer
  <2>2. Head(todo) \in DOMAIN setup.feed /\ Tail(todo) \in Q
    BY <2>1, HeadTailRange
  <2>3. Append(audioq, Head(todo)) \in Q
    BY <2>2, AppendProperties
  <2> QED
    BY <1>2, <2>2, <2>3 DEF DeliverBuffer
<1>3. CASE TakeBuffer
  <2>1. audioq # <<>>
    BY <1>3 DEF TakeBuffer
  <2>2. Tail(audioq) \in Q
    BY <2>1, HeadTailRange
  <2> QED
    BY <1>3, <2>2 DEF TakeBuffer
<1>4. ASSUME NEW i \in Item, RemoveBegin(i) \/ RemoveStraggling(i) PROVE FeedTypeOK'
  <2>1. Without(todo, i) \in Q
    BY KeepType DEF Without
  <2>2. Without(audioq, i) \in Q
    BY KeepType DEF Without
  <2>3. RemoveStraggling(i) => <<Head(todo)>> \o Without(Tail(todo), i) \in Q
    <3> SUFFICES ASSUME RemoveStraggling(i) PROVE <<Head(todo)>> \o Without(Tail(todo), i) \in Q
      OBVIOUS
    <3>1. todo # <<>>
      BY DEF RemoveStraggling
    <3>2. Head(todo) \in DOMAIN setup.feed /\ Tail(todo) \in Q
      BY <3>1, HeadTailRange
    <3>3. Without(Tail(todo), i) \in Q
      BY <3>2, KeepType DEF Without
    <3>4. ASSUME NEW T, NEW x \in T PROVE <<x>> \in Seq(T)
      OBVIOUS
    <3>5. <<Head(todo)>> \in Q
      BY <3>2, <3>4
    <3> QED
      BY <3>3, <3>5, ConcatProperties
  <2> QED
    BY <1>4, <2>1, <2>2, <2>3 DEF RemoveBegin, RemoveStraggling, RemoveCall
<1>5. CASE RemoveEnd
  BY <1>5 DEF RemoveEnd
<1>6. ASSUME NEW p \in setup.seekTo, SeekBegin(p) PROVE FeedTypeOK'
  <2>1. Rest(p) \in Q
    BY RestType
  <2>2. Keep(Rest(p), Listed) \in Q
    BY <2>1, KeepType
  <2>3. <<>> \in Q
    OBVIOUS
  <2>4. todo' = Keep(Rest(p), Listed)
    BY <1>6 DEF SeekBegin, Rest
  <2> QED
    BY <1>6, <2>2, <2>3, <2>4 DEF SeekBegin
<1>7. CASE SeekEnd \/ DetachCall("join") \/ AttachCall("attaching")
  BY <1>7 DEF SeekEnd, DetachCall, AttachCall
<1>8. CASE SinkAbort \/ SinkUnmap
  <2>1. <<>> \in Q
    OBVIOUS
  <2> QED
    BY <1>8, <2>1 DEF SinkAbort, SinkUnmap
<1>9. ASSUME NEW from, NEW to, Proceed(from, to) PROVE FeedTypeOK'
  BY <1>9 DEF Proceed
<1> HIDE DEF FeedTypeOK
<1> QED
  BY <1>1, <1>2, <1>3, <1>4, <1>5, <1>6, <1>7, <1>8, <1>9 DEF FeedNext, FeedMoves

LEMMA CallStep ==
  ASSUME CallInv, FeedNext
  PROVE  CallInv'
<1> USE DEF CallInv, CallPc
<1>1. CASE UNCHANGED <<setup, todo, audioq, alive, aborted, attached, flushing, apc, arg>>
  BY <1>1
<1>2. CASE DeliverBuffer(buffer_size) \/ TakeBuffer
  BY <1>2 DEF DeliverBuffer, HeadFree, TakeBuffer
<1>3. ASSUME NEW i \in Item, RemoveBegin(i) \/ RemoveStraggling(i) PROVE CallInv'
  <2>1. PICK rest : RemoveCall(i, rest)
    BY <1>3 DEF RemoveBegin, RemoveStraggling
  <2>2. Without(audioq, i) = <<>> \/ audioq # <<>>
    BY KeepEmpty DEF Without
  <2> QED
    BY <2>1, <2>2, NullAssumption DEF RemoveCall, May
<1>4. CASE RemoveEnd
  BY <1>4 DEF RemoveEnd
<1>5. ASSUME NEW p \in setup.seekTo, SeekBegin(p) PROVE CallInv'
  BY <1>5 DEF SeekBegin
<1>6. CASE SeekEnd \/ DetachCall("join")
  BY <1>6 DEF SeekEnd, DetachCall, May
<1>7. CASE AttachCall("attaching")
  BY <1>7 DEF AttachCall, May
<1>8. CASE SinkAbort
  BY <1>8 DEF SinkAbort
<1>9. CASE SinkUnmap
  BY <1>9 DEF SinkUnmap
<1>10. CASE \/ Proceed("purge_hook", "free") \/ Proceed("join", "sink_abort")
            \/ Proceed("detached", "idle") \/ Proceed("attaching", "idle")
  BY <1>10 DEF Proceed
<1> QED
  BY <1>1, <1>2, <1>3, <1>4, <1>5, <1>6, <1>7, <1>8, <1>9, <1>10 DEF FeedNext, FeedMoves

--------------------------------------------------------------------------------
(* The device.                                                             *)

LEMMA TypeInit ==
  ASSUME Init
  PROVE  TypeOK /\ setup.feed \in Seq(Item \cup {End}) /\ DOMAIN setup.feed = 1 .. Len(setup.feed)
<1> USE DEF Init, FeedInit
<1>1. setup.feed \in Seq(Item \cup {End}) /\ setup \in Setups
  BY FeedAssumption
<1>2. DOMAIN setup.feed = 1 .. Len(setup.feed) /\ Len(setup.feed) \in Nat
  BY <1>1
<1>3. [p \in DOMAIN setup.feed |-> p] \in Seq(DOMAIN setup.feed)
  <2>1. \A n \in Nat : [p \in 1 .. n |-> p] \in Seq(1 .. n)
    BY IsASeq
  <2> QED
    BY <1>2, <2>1
<1>4. <<>> \in Seq(DOMAIN setup.feed)
  OBVIOUS
<1>5. Range(setup.feed) \ {End} \subseteq Item
  BY <1>1 DEF Range
<1>6. FeedTypeOK
  BY <1>1, <1>3, <1>4, <1>5 DEF FeedTypeOK
<1>7. silence_frames_left \in 0 .. DeviceFrames
  BY DeviceAssumption
<1> QED
  BY <1>1, <1>2, <1>4, <1>6, <1>7 DEF TypeOK

LEMMA DevicesInit ==
  ASSUME Init
  PROVE  DevicesInv
BY TypeInit, NullAssumption
   DEF Init, FeedInit, DevicesInv, CallInv, CallPc, HelperInv, DeviceInv, LoadedInv, HasLoaded

LEMMA HelperStep ==
  ASSUME DevicesInv, Next \/ UNCHANGED vars
  PROVE  HelperInv'
<1> USE DEF HelperInv
<1>1. HelperInv /\ CallInv /\ DeviceInv
  BY DEF DevicesInv
<1>2. CASE UNCHANGED vars
  BY <1>1, <1>2 DEF vars, feed, stream
<1>3. CASE Enter \/ Sleep \/ Started \/ Closing
  <2>1. CASE Enter \/ Sleep \/ Started
    BY <1>1, <2>1 DEF Enter, Sleep, Started, feed, stream
  <2>2. CASE Closing
    BY <1>1, <2>2 DEF Closing, feed
  <2> QED
    BY <1>3, <2>1, <2>2
<1>20. CASE LoopTop
  BY <1>1, <1>20 DEF LoopTop, feed
<1>4. CASE Fetch
  BY <1>1, <1>4 DEF Fetch, TakeBuffer, feed, stream
<1>5. CASE Decide
  BY <1>1, <1>5 DEF Decide, Opens, feed
<1>6. CASE DecideOpen
  BY <1>1, <1>6 DEF DecideOpen, Opens, OpenDevice, feed, DeviceInv
<1>7. CASE StartStream
  BY <1>1, <1>7 DEF StartStream, feed
<1>8. CASE OpenFails
  BY <1>1, <1>8 DEF OpenFails, Opens, OnlyBudget, stream, DeviceInv
<1>9. CASE StartFails
  BY <1>1, <1>9 DEF StartFails, OnlyBudget, stream
<1>10. CASE SpuriousWake \/ Underflow \/ Filled
  BY <1>1, <1>10 DEF SpuriousWake, Underflow, Filled, SignalHelper, OnlyBudget, feed, stream
<1>11. CASE CallbackEnter
  BY <1>1, <1>11 DEF CallbackEnter, feed, stream
<1>12. CASE Callback
  <2>1. UNCHANGED <<attached, apc, outstream>> /\ ~cb'
    BY <1>12 DEF Callback, PlaySilence, PlayLoaded, PlayEnd, PlayNext, PlayNothing, TakeBuffer, feed,
                 stream
  <2>2. tpc' = tpc \/ (tpc = "asleep" /\ tpc' = "woken")
    BY <1>12 DEF Callback, PlaySilence, PlayLoaded, PlayEnd, PlayNext, PlayNothing, WriteSilence,
                 SignalHelper
  <2> QED
    BY <1>1, <2>1, <2>2
<1>13. CASE Deliver
  BY <1>1, <1>13 DEF Deliver, DeliverBuffer, stream
<1>14. ASSUME NEW i \in Item, RemoveItem(i) PROVE HelperInv'
  BY <1>1, <1>14 DEF RemoveItem, RemoveBegin, RemoveStraggling, RemoveCall, May, stream
<1>15. ASSUME NEW p \in setup.seekTo, Seek(p) PROVE HelperInv'
  BY <1>1, <1>15 DEF Seek, SeekBegin, stream
<1>16. CASE PurgeHook \/ RemoveFree \/ FlushHook
  <2>1. CASE PurgeHook
    BY <1>1, <2>1 DEF PurgeHook, Proceed, stream
  <2>2. CASE RemoveFree
    BY <1>1, <2>2 DEF RemoveFree, RemoveEnd, stream
  <2>3. CASE FlushHook
    BY <1>1, <2>3 DEF FlushHook, SeekEnd, stream
  <2> QED
    BY <1>16, <2>1, <2>2, <2>3
<1>17. CASE Joined \/ DetachSink \/ Detached
  BY <1>1, <1>17 DEF Joined, DetachSink, SinkAbort, SinkUnmap, Detached, Proceed, stream, CallInv
<1>18. CASE PausePlay
  <2>1. UNCHANGED <<attached, apc, tpc, cb, outstream>> /\ (fault' = "none" => fault = "none")
    BY <1>18 DEF PausePlay, SetPauseState, OnlyBudget
  <2> QED
    BY <1>1, <2>1
<1>21. CASE DetachBegin
  BY <1>1, <1>21 DEF DetachBegin, DetachCall, SignalHelper, May, stream
<1>19. CASE Attach
  BY <1>1, <1>19 DEF Attach, AttachCall, May
<1>22. CASE AttachRest
  BY <1>1, <1>22 DEF AttachRest, Proceed, CallInv, stream
<1> QED
  BY <1>2, <1>3, <1>4, <1>5, <1>6, <1>7, <1>8, <1>9, <1>10, <1>11, <1>12, <1>13, <1>14, <1>15, <1>16,
     <1>17, <1>18, <1>19, <1>20, <1>21, <1>22 DEF Next, Helper, Continue

LEMMA DeviceStep ==
  ASSUME DevicesInv, Next \/ UNCHANGED vars
  PROVE  DeviceInv'
<1> USE DEF DeviceInv
<1>1. HelperInv /\ CallInv /\ DeviceInv
  BY DEF DevicesInv
<1>2. CASE UNCHANGED vars
  BY <1>1, <1>2 DEF vars, stream, requests
<1>3. CASE Enter \/ Sleep \/ Started \/ Closing
  <2>1. tpc' \notin {"fetch", "decide"} /\ outstream' \in {outstream, "none"} /\ UNCHANGED requests
    BY <1>3 DEF Enter, Sleep, Started, Closing, stream
  <2> QED
    BY <1>1, <2>1 DEF requests
<1>4. CASE LoopTop
  BY <1>1, <1>4 DEF LoopTop
<1>5. CASE Fetch \/ Decide
  BY <1>1, <1>5 DEF Fetch, Decide, stream, requests
<1>6. CASE DecideOpen \/ OpenFails
  BY <1>1, <1>6 DEF DecideOpen, OpenFails, stream
<1>7. CASE StartStream \/ StartFails
  <2>1. tpc = "start" /\ tpc' \in {"start", "started"} /\ UNCHANGED requests
    BY <1>7 DEF StartStream, StartFails
  <2> QED
    BY <1>1, <2>1 DEF requests, HelperInv
<1>8. CASE SpuriousWake \/ Underflow \/ Filled
  BY <1>1, <1>8 DEF SpuriousWake, Underflow, Filled, SignalHelper, stream, requests
<1>9. CASE CallbackEnter \/ Deliver
  BY <1>1, <1>9 DEF CallbackEnter, Deliver, stream, requests
<1>10. CASE Callback
  <2>1. UNCHANGED outstream /\ (request_device_close => request_device_close')
        /\ (request_device_open' => request_device_open \/ request_device_close')
    BY <1>10 DEF Callback, PlaySilence, PlayLoaded, PlayEnd, PlayNext, PlayNothing, stream, requests
  <2>2. tpc' \notin {"fetch", "decide"}
    BY <1>10 DEF Callback, PlaySilence, PlayLoaded, PlayEnd, PlayNext, PlayNothing, WriteSilence,
                 SignalHelper, Held
  <2> QED
    BY <1>1, <2>1, <2>2
<1>11. ASSUME NEW i \in Item, RemoveItem(i) PROVE DeviceInv'
  BY <1>1, <1>11 DEF RemoveItem, stream, requests
<1>12. ASSUME NEW p \in setup.seekTo, Seek(p) PROVE DeviceInv'
  BY <1>1, <1>12 DEF Seek, stream, requests
<1>13. CASE PurgeHook \/ RemoveFree \/ FlushHook \/ Joined \/ DetachSink \/ Detached
  <2>1. UNCHANGED <<tpc, stream, requests>>
    BY <1>13 DEF PurgeHook, RemoveFree, FlushHook, Joined, DetachSink, Detached
  <2> QED
    BY <1>1, <2>1 DEF stream, requests
<1>14. CASE PausePlay \/ DetachBegin
  BY <1>1, <1>14 DEF PausePlay, DetachBegin, SignalHelper, stream, requests
<1>15. CASE Attach
  BY <1>1, <1>15 DEF Attach, requests
<1>16. CASE AttachRest
  BY <1>1, <1>16 DEF AttachRest, Proceed, HelperInv, stream
<1> QED
  BY <1>2, <1>3, <1>4, <1>5, <1>6, <1>7, <1>8, <1>9, <1>10, <1>11, <1>12, <1>13, <1>14, <1>15, <1>16
     DEF Next, Helper, Continue

\* The helper and the callback find the sink in the map.
LEMMA StillAttached ==
  ASSUME HelperInv, fault = "none", cb \/ tpc # "done"
  PROVE  attached /\ apc \notin {"sink_abort", "sink_map", "attaching"}
BY DEF HelperInv

LEMMA TypeStep ==
  ASSUME DevicesInv, Next \/ UNCHANGED vars
  PROVE  TypeOK'
<1> DEFINE D == DOMAIN setup.feed
           Others == /\ heard \in Seq(D)
                     /\ outstream \in {"none", "opened", "started"}
                     /\ audio_buf \in D \cup {Null} /\ play_head \in Item \cup {Null}
                     /\ silence_frames_left \in 0 .. DeviceFrames
                     /\ buffer_size \in {1, setup.sinkSize}
<1>1. FeedTypeOK' /\ setup' = setup
  BY FeedStep, FeedTypeStep, SetupStays DEF DevicesInv, TypeOK
<1>2. Others
  BY DEF DevicesInv, TypeOK
<1>3. SUFFICES Others'
  BY <1>1 DEF TypeOK
<1>4. audioq \in Seq(D) /\ <<>> \in Seq(D)
  BY DEF DevicesInv, TypeOK, FeedTypeOK
<1>5. \A p \in D : ItemAt(p) \in Item \cup {End}
  <2>1. setup.feed \in Seq(Item \cup {End})
    BY FeedAssumption DEF DevicesInv, TypeOK, FeedTypeOK
  <2> QED
    BY <2>1 DEF ItemAt
<1>6. CASE UNCHANGED <<stream, head, requests, heard>>
  BY <1>1, <1>2, <1>6 DEF stream, head, requests
<1>7. CASE Enter \/ Sleep \/ Started \/ Decide \/ Closing \/ StartStream \/ LoopTop
  <2>1. outstream' \in {outstream, "none", "started"}
        /\ UNCHANGED <<audio_buf, play_head, silence_frames_left, buffer_size, heard>>
    BY <1>7 DEF Enter, Sleep, Started, Decide, Closing, StartStream, LoopTop, stream, head, requests,
                history
  <2> QED
    BY <1>1, <1>2, <2>1
<1>8. CASE Fetch
  <2>1. audioq # <<>> => Head(audioq) \in D
    BY <1>4, HeadTailRange
  <2>2. audio_buf' = audio_buf \/ (audioq # <<>> /\ audio_buf' = Head(audioq))
    BY <1>8 DEF Fetch
  <2>3. UNCHANGED <<outstream, play_head, silence_frames_left, buffer_size, heard>>
    BY <1>8 DEF Fetch, stream, requests
  <2> QED
    BY <1>1, <1>2, <2>1, <2>2, <2>3
<1>9. CASE DecideOpen
  <2>1. outstream' = "opened" /\ buffer_size' \in {buffer_size, setup.sinkSize}
        /\ UNCHANGED <<audio_buf, play_head, silence_frames_left, heard>>
    BY <1>9 DEF DecideOpen, OpenDevice, head, history
  <2> QED
    BY <1>1, <1>2, <2>1
<1>10. CASE OpenFails
  <2>1. UNCHANGED <<outstream, audio_buf, play_head, silence_frames_left, buffer_size, heard>>
    BY <1>10 DEF OpenFails, stream, head, history
  <2> QED
    BY <1>1, <1>2, <2>1
<1>11. CASE StartFails \/ SpuriousWake \/ Underflow \/ Filled \/ CallbackEnter \/ Deliver
  <2>1. UNCHANGED <<stream, head, requests, heard>>
    BY <1>11 DEF StartFails, SpuriousWake, Underflow, Filled, CallbackEnter, Deliver, history
  <2> QED
    BY <1>6, <2>1
<1>12. CASE fault = "none" /\ Callback
  <2>1. ASSUME NEW owed \in 0 .. DeviceFrames, WriteSilence(owed)
        PROVE  silence_frames_left' \in 0 .. DeviceFrames
    BY <2>1, DeviceAssumption DEF WriteSilence
  <2>2. silence_frames_left \in 0 .. DeviceFrames /\ DeviceFrames \in 0 .. DeviceFrames
    BY <1>2, DeviceAssumption
  <2>3. silence_frames_left' \in 0 .. DeviceFrames
    BY <1>12, <2>1, <2>2 DEF Callback, PlaySilence, PlayLoaded, PlayEnd, PlayNext, PlayNothing, requests
  <2>4. UNCHANGED <<outstream, buffer_size>>
    BY <1>12 DEF Callback, stream
  <2>5. audioq # <<>> => Head(audioq) \in D
    BY <1>4, HeadTailRange
  <2>6. audio_buf' \in D \cup {Null} /\ play_head' \in Item \cup {Null}
    <3>1. CASE PlaySilence \/ PlayLoaded \/ PlayEnd \/ PlayNothing
      BY <1>2, <3>1 DEF PlaySilence, PlayLoaded, PlayEnd, PlayNothing, head
    <3>2. CASE PlayNext
      <4>1. audioq # <<>> /\ audio_buf' = Head(audioq) /\ play_head' = ItemAt(Head(audioq))
            /\ ItemAt(Head(audioq)) # End
        BY <3>2 DEF PlayNext, TakeBuffer
      <4> QED
        BY <1>5, <2>5, <4>1
    <3> QED
      BY <1>12, <3>1, <3>2 DEF Callback
  <2>7. heard' \in Seq(D)
    <3>1. CASE PlaySilence \/ PlayEnd \/ PlayNothing
      BY <1>2, <3>1 DEF PlaySilence, PlayEnd, PlayNothing
    <3>2. CASE PlayLoaded
      <4>1. heard' = Append(heard, audio_buf) /\ ready
        BY <3>2 DEF PlayLoaded, Play
      <4>2. HasLoaded
        BY <1>12, <4>1, StillAttached DEF Callback, DevicesInv, HasLoaded
      <4>3. audio_buf \in D
        BY <1>2, <4>2 DEF DevicesInv, LoadedInv
      <4> QED
        BY <1>2, <4>1, <4>3, AppendProperties
    <3>3. CASE PlayNext
      <4>1. audioq # <<>> /\ heard' \in {heard, Append(heard, Head(audioq))}
        BY <3>3 DEF PlayNext, TakeBuffer, Play
      <4> QED
        BY <1>2, <2>5, <4>1, AppendProperties
    <3> QED
      BY <1>12, <3>1, <3>2, <3>3 DEF Callback
  <2> QED
    BY <1>1, <1>2, <2>3, <2>4, <2>6, <2>7
<1>13. ASSUME NEW i \in Item, RemoveItem(i) PROVE Others'
  <2>1. UNCHANGED <<stream, head, requests, heard>>
    BY <1>13 DEF RemoveItem
  <2> QED
    BY <1>6, <2>1
<1>14. ASSUME NEW p \in setup.seekTo, Seek(p) PROVE Others'
  <2>1. UNCHANGED <<stream, head, requests, heard>>
    BY <1>14 DEF Seek, history
  <2> QED
    BY <1>6, <2>1
<1>15. CASE RemoveFree \/ Joined \/ DetachSink \/ DetachBegin
  <2>1. UNCHANGED <<stream, head, requests, heard>>
    BY <1>15 DEF RemoveFree, Joined, DetachSink, DetachBegin, history
  <2> QED
    BY <1>6, <2>1
<1>16. CASE PurgeHook \/ FlushHook \/ Detached \/ PausePlay
  <2>1. audio_buf' \in {audio_buf, Null} /\ play_head' \in {play_head, Null} /\ heard' \in {heard, <<>>}
        /\ UNCHANGED <<outstream, silence_frames_left, buffer_size>>
    BY <1>16 DEF PurgeHook, FlushHook, Detached, PausePlay, stream, head, requests, history
  <2> QED
    BY <1>1, <1>2, <1>4, <2>1
<1>17. CASE Attach
  <2>1. heard' = <<>> /\ buffer_size' = 1
        /\ UNCHANGED <<outstream, audio_buf, play_head, silence_frames_left>>
    BY <1>17 DEF Attach, head, requests
  <2> QED
    BY <1>1, <1>2, <1>4, <2>1
<1>19. CASE AttachRest
  <2>1. silence_frames_left' = 0 /\ UNCHANGED <<outstream, buffer_size, audio_buf, play_head, heard>>
    BY <1>19 DEF AttachRest, stream, history
  <2>2. 0 \in 0 .. DeviceFrames
    BY DeviceAssumption
  <2> QED
    BY <1>1, <1>2, <2>1, <2>2
<1>18. CASE UNCHANGED vars
  <2>1. UNCHANGED <<stream, head, requests, heard>>
    BY <1>18 DEF vars, history
  <2> QED
    BY <1>6, <2>1
<1> QED
  BY <1>7, <1>8, <1>9, <1>10, <1>11, <1>12, <1>13, <1>14, <1>15, <1>16, <1>17, <1>18, <1>19
     DEF Next, Helper, Continue

LEMMA LoadedStep ==
  ASSUME DevicesInv, Next \/ UNCHANGED vars
  PROVE  LoadedInv'
<1> USE DEF LoadedInv, HasLoaded
<1>1. HelperInv /\ CallInv /\ LoadedInv
  BY DEF DevicesInv
<1>2. setup' = setup
  BY FeedStep, SetupStays
\* Most steps leave what is loaded, and the device or a request to close it.
<1>3. ASSUME attached' /\ apc' # "attaching" => attached /\ apc # "attaching",
             UNCHANGED <<head, device_format>>,
             request_device_close /\ outstream # "none" => request_device_close' \/ outstream' = "none",
             outstream = "none" => outstream' = "none"
      PROVE  LoadedInv'
  BY <1>1, <1>2, <1>3 DEF head, FormatOf, ItemAt
<1>4. CASE UNCHANGED vars
  BY <1>3, <1>4 DEF vars, feed, stream, requests
<1>5. CASE Enter \/ Sleep \/ Started \/ Decide \/ Closing \/ LoopTop
  <2>1. UNCHANGED <<attached, apc, head, device_format>> /\ outstream' \in {outstream, "none"}
        /\ (request_device_close => request_device_close' \/ outstream' = "none")
    BY <1>5 DEF Enter, Sleep, Started, Decide, Closing, LoopTop, feed, stream, requests
  <2> QED
    BY <1>3, <2>1
<1>6. CASE StartStream
  BY <1>1, <1>3, <1>6 DEF StartStream, HelperInv, feed, requests
<1>7. CASE Fetch
  <2>1. CASE UNCHANGED audio_buf
    <3>1. UNCHANGED <<attached, apc, head, device_format, request_device_close, outstream>>
      BY <1>7, <2>1 DEF Fetch, TakeBuffer, feed, stream, head, requests
    <3> QED
      BY <1>3, <3>1
  <2>2. CASE ~UNCHANGED audio_buf
    <3>1. audio_buf = Null /\ UNCHANGED <<attached, apc, ready>>
      BY <1>7, <2>2 DEF Fetch, TakeBuffer
    <3> QED
      BY <1>1, <3>1
  <2> QED
    BY <2>1, <2>2
<1>8. CASE DecideOpen
  <2>1. device_format' = FormatOf(audio_buf) /\ UNCHANGED <<attached, apc, head>>
    BY <1>8 DEF DecideOpen, OpenDevice, feed
  <2> QED
    BY <1>1, <1>2, <2>1 DEF head, FormatOf, ItemAt
<1>9. CASE OpenFails
  <2>1. UNCHANGED <<attached, apc, stream, head, request_device_close>>
    BY <1>9 DEF OpenFails, OnlyBudget
  <2> QED
    BY <1>3, <2>1 DEF stream
<1>10. CASE StartFails \/ SpuriousWake \/ Underflow \/ Filled \/ CallbackEnter \/ Deliver
  <2>1. UNCHANGED <<attached, apc, stream, head, requests>>
    BY <1>10 DEF StartFails, SpuriousWake, Underflow, Filled, CallbackEnter, Deliver, DeliverBuffer,
                 OnlyBudget, feed
  <2> QED
    BY <1>3, <2>1 DEF stream, requests
<1>11. CASE Callback
  <2>1. UNCHANGED <<attached, apc, outstream, device_format>>
    BY <1>11 DEF Callback, PlaySilence, PlayLoaded, PlayEnd, PlayNext, PlayNothing, TakeBuffer, feed,
                 stream
  <2>2. CASE PlaySilence
    BY <1>3, <2>1, <2>2 DEF PlaySilence
  <2>3. CASE PlayLoaded \/ PlayEnd \/ PlayNothing
    BY <2>3 DEF PlayLoaded, PlayEnd, PlayNothing, Play
  <2>4. CASE PlayNext
    <3>1. ready' => request_device_close'
      BY <2>4 DEF PlayNext, Play
    <3>2. audioq # <<>> /\ audio_buf' = Head(audioq) /\ play_head' = ItemAt(Head(audioq))
      BY <2>4 DEF PlayNext, TakeBuffer
    <3>3. audioq \in Seq(DOMAIN setup.feed)
      BY DEF DevicesInv, TypeOK, FeedTypeOK
    <3>4. DOMAIN setup.feed \subseteq Nat
      <4>1. setup.feed \in Seq(Item \cup {End})
        BY FeedAssumption DEF DevicesInv, TypeOK, FeedTypeOK
      <4> QED
        BY <4>1
    <3>5. Head(audioq) \in Nat
      BY <3>2, <3>3, <3>4, HeadTailRange
    <3> QED
      BY <1>2, <3>1, <3>2, <3>5, NullAssumption DEF ItemAt
  <2> QED
    BY <1>11, <2>2, <2>3, <2>4 DEF Callback
<1>12. ASSUME NEW i \in Item, RemoveItem(i) PROVE LoadedInv'
  <2>1. UNCHANGED <<attached, stream, head, requests>> /\ apc = "idle"
    BY <1>12 DEF RemoveItem, RemoveBegin, RemoveStraggling, RemoveCall, May
  <2> QED
    BY <1>3, <2>1 DEF stream, requests
<1>13. ASSUME NEW p \in setup.seekTo, Seek(p) PROVE LoadedInv'
  <2>1. UNCHANGED <<attached, apc, stream, head, requests>>
    BY <1>13 DEF Seek, SeekBegin
  <2> QED
    BY <1>3, <2>1 DEF stream, requests
<1>14. CASE RemoveFree \/ Joined \/ DetachSink \/ DetachBegin
  <2>1. (attached' => attached) /\ apc # "attaching" /\ UNCHANGED <<stream, head, requests>>
    BY <1>14 DEF RemoveFree, RemoveEnd, Joined, Proceed, DetachSink, SinkAbort, SinkUnmap, DetachBegin,
                 DetachCall, May
  <2> QED
    BY <1>3, <2>1 DEF stream, requests
<1>15. CASE PurgeHook
  <2>1. CASE play_head = arg
    BY <1>15, <2>1 DEF PurgeHook
  <2>2. CASE play_head # arg
    <3>1. UNCHANGED <<attached, stream, head, requests>> /\ apc = "purge_hook"
      BY <1>15, <2>2 DEF PurgeHook, Proceed
    <3> QED
      BY <1>3, <3>1 DEF stream, requests
  <2> QED
    BY <2>1, <2>2
<1>16. CASE FlushHook \/ Attach \/ AttachRest
  BY <1>16 DEF FlushHook, Attach, AttachCall, AttachRest
<1>17. CASE Detached
  <2>1. ~attached'
    BY <1>1, <1>17 DEF Detached, Proceed, CallInv
  <2> QED
    BY <2>1
<1>18. CASE PausePlay
  <2>1. UNCHANGED <<attached, apc, outstream, device_format, head, requests>>
    BY <1>18 DEF PausePlay, OnlyBudget
  <2> QED
    BY <1>3, <2>1 DEF requests
<1> QED
  BY <1>4, <1>5, <1>6, <1>7, <1>8, <1>9, <1>10, <1>11, <1>12, <1>13, <1>14, <1>15, <1>16, <1>17, <1>18
     DEF Next, Helper, Continue

LEMMA DevicesStep ==
  ASSUME DevicesInv, Next \/ UNCHANGED vars
  PROVE  DevicesInv'
BY FeedStep, CallStep, TypeStep, HelperStep, DeviceStep, LoadedStep DEF DevicesInv

THEOREM DevicesInductive == Spec => []DevicesInv
<1>1. Init => DevicesInv
  BY DevicesInit
<1>2. DevicesInv /\ [Next]_vars => DevicesInv'
  BY DevicesStep
<1> QED
  BY <1>1, <1>2, PTL DEF Spec

LEMMA NoAssertion ==
  ASSUME DevicesInv, Next
  PROVE  fault' # "assertion"
<1>1. fault = "none" /\ HelperInv /\ DeviceInv /\ CallInv
  BY DEF Next, DevicesInv
<1>2. CASE Helper
  <2>1. CASE DecideOpen
    <3>1. outstream = "none"
      BY <1>1, <2>1 DEF DecideOpen, Opens, DeviceInv
    <3> QED
      BY <1>1, <2>1, <3>1 DEF DecideOpen, OpenDevice
  <2>2. CASE LoopTop
    BY <1>1, <2>2 DEF LoopTop
  <2>3. CASE Enter \/ Fetch \/ Decide \/ StartStream \/ Started \/ Sleep \/ Closing
    BY <1>1, <2>3 DEF Enter, Fetch, Decide, StartStream, Started, Sleep, Closing
  <2> QED
    BY <1>2, <2>1, <2>2, <2>3 DEF Helper
<1>3. CASE OpenFails \/ StartFails \/ SpuriousWake \/ CallbackEnter \/ Callback \/ Underflow
  BY <1>1, <1>3 DEF OpenFails, StartFails, SpuriousWake, CallbackEnter, Callback, Underflow
<1>4. CASE Deliver \/ Filled \/ Continue
  <2>1. CASE AttachRest
    <3>1. outstream = "none"
      BY <1>1, <2>1 DEF AttachRest, Proceed, HelperInv
    <3> QED
      BY <1>1, <2>1, <3>1 DEF AttachRest
  <2> QED
    BY <1>1, <1>4, <2>1 DEF Deliver, Filled, Continue, PurgeHook, RemoveFree, FlushHook, Joined,
                            DetachSink, Detached
<1>5. CASE (\E i \in Item : RemoveItem(i)) \/ \E p \in setup.seekTo : Seek(p)
  BY <1>1, <1>5 DEF RemoveItem, Seek
<1>6. CASE PausePlay
  BY <1>1, <1>6 DEF PausePlay, SetPauseState
<1>7. CASE DetachBegin
  BY <1>1, <1>7 DEF DetachBegin
<1>8. CASE Attach
  BY <1>1, <1>8 DEF Attach
<1> QED
  BY <1>2, <1>3, <1>4, <1>5, <1>6, <1>7, <1>8 DEF Next

\* What the callback plays, if anything, is what was loaded or the head of the
\* queue.
LEMMA HeardStep ==
  ASSUME Next, heard' # heard
  PROVE  \/ heard' = <<>>
         \/ PlayLoaded /\ cb /\ heard' = Append(heard, audio_buf)
         \/ PlayNext /\ cb /\ heard' = Append(heard, Head(audioq)) /\ FormatOf(Head(audioq)) = device_format
<1>1. CASE Helper \/ SpuriousWake \/ CallbackEnter \/ Deliver \/ Filled
  <2>1. heard' = heard
    BY <1>1 DEF Helper, Enter, LoopTop, Fetch, Decide, DecideOpen, StartStream, Started, Sleep, Closing,
                SpuriousWake, CallbackEnter, Deliver, Filled, history
  <2> QED
    BY <2>1
<1>2. CASE OpenFails \/ StartFails \/ Underflow \/ PausePlay \/ DetachBegin
  <2>1. heard' = heard
    BY <1>2 DEF OpenFails, StartFails, Underflow, PausePlay, DetachBegin, history
  <2> QED
    BY <2>1
<1>3. CASE Callback
  <2>1. PlayLoaded \/ PlayNext
    BY <1>3 DEF Callback, PlaySilence, PlayEnd, PlayNothing
  <2> QED
    BY <1>3, <2>1 DEF Callback, PlayLoaded, PlayNext, Play
<1>4. CASE PurgeHook \/ RemoveFree \/ Joined \/ DetachSink \/ Detached \/ AttachRest
  <2>1. heard' = heard
    BY <1>4 DEF PurgeHook, RemoveFree, Joined, DetachSink, Detached, AttachRest, history
  <2> QED
    BY <2>1
<1>5. CASE FlushHook \/ Attach
  BY <1>5 DEF FlushHook, Attach
<1>6. CASE (\E i \in Item : RemoveItem(i)) \/ \E p \in setup.seekTo : Seek(p)
  <2>1. heard' = heard
    BY <1>6 DEF RemoveItem, Seek, history
  <2> QED
    BY <2>1
<1> QED
  BY <1>1, <1>2, <1>3, <1>4, <1>5, <1>6 DEF Next, Continue

LEMMA PlayedFormat ==
  ASSUME DevicesInv, Next, heard' \notin {heard, <<>>}
  PROVE  outstream = "started" /\ device_format = FormatOf(Last(heard'))
<1>1. cb /\ fault = "none"
  BY HeardStep DEF Next
<1>2. outstream = "started" /\ (ready => HasLoaded)
  BY <1>1, StillAttached DEF DevicesInv, HelperInv, HasLoaded
<1>3. heard \in Seq(DOMAIN setup.feed) /\ audioq \in Seq(DOMAIN setup.feed)
  BY DEF DevicesInv, TypeOK, FeedTypeOK
<1>4. ASSUME NEW p \in DOMAIN setup.feed PROVE Last(Append(heard, p)) = p
  BY <1>3, AppendProperties DEF Last
<1>5. CASE PlayLoaded /\ heard' = Append(heard, audio_buf)
  <2>1. ready /\ ~request_device_close
    BY <1>5 DEF PlayLoaded, Silent
  <2>2. audio_buf \in DOMAIN setup.feed /\ FormatOf(audio_buf) = device_format
    BY <1>2, <2>1 DEF DevicesInv, TypeOK, LoadedInv
  <2> QED
    BY <1>2, <1>4, <1>5, <2>2
<1>6. CASE /\ PlayNext /\ heard' = Append(heard, Head(audioq))
           /\ FormatOf(Head(audioq)) = device_format
  <2>1. audioq # <<>>
    BY <1>6 DEF PlayNext, TakeBuffer
  <2>2. Head(audioq) \in DOMAIN setup.feed
    BY <1>3, <2>1, HeadTailRange
  <2> QED
    BY <1>2, <1>4, <1>6, <2>2
<1> QED
  BY <1>5, <1>6, HeardStep

(***************************************************************************)
(* Audio reaches a device only if that was opened for the format of it, and *)
(* neither assert(!p->outstream) of the player fails: whatever seeks,       *)
(* removals, underruns, detaches come while a close or an open is due.      *)
(***************************************************************************)
THEOREM FormatsMatch == Spec => FormatMatches
<1> DEFINE Matches ==
      /\ fault' # "assertion"
      /\ heard' \notin {heard, <<>>} => outstream = "started" /\ device_format = FormatOf(Last(heard'))
<1>1. DevicesInv /\ [Next]_vars => [Matches]_vars
  BY NoAssertion, PlayedFormat
<1>2. Spec => [][Matches]_vars
  <2> HIDE DEF Matches
  <2> QED
    BY <1>1, DevicesInductive, PTL DEF Spec
<1> QED
  BY <1>2 DEF FormatMatches

--------------------------------------------------------------------------------
(* purge: the items that a removal has passed.                             *)

\* An item is gone once no purge hook can still ask for it.
Gone == (Item \ alive) \cup (IF apc = "free" THEN {arg} ELSE {})

\* What the decoder and the sink's queue still hold is not being removed.
PlacesInv == Range(todo) \cup Range(audioq) \subseteq Listed

PurgeInv == DevicesInv /\ (~late => PlacesInv /\ play_head \notin Gone)

LEMMA PlacesStep ==
  ASSUME DevicesInv, PlacesInv, FeedNext,
         \A i \in Item : /\ ~RemoveStraggling(i)
                         /\ RemoveBegin(i) /\ ~attached => \A p \in Range(audioq) : ItemAt(p) # i
  PROVE  PlacesInv'
<1> DEFINE T == DOMAIN setup.feed
<1>1. /\ todo \in Seq(T) /\ audioq \in Seq(T)
      /\ alive \subseteq Item /\ setup' = setup
      /\ setup.feed \in Seq(Item \cup {End}) /\ setup.seekTo \subseteq T
  BY FeedAssumption, SetupStays DEF DevicesInv, TypeOK, FeedTypeOK
<1>2. ASSUME UNCHANGED <<todo, alive, arg>>, Range(audioq') \subseteq Range(audioq) PROVE PlacesInv'
  BY <1>1, <1>2 DEF PlacesInv, Listed, ItemAt
<1>3. CASE UNCHANGED <<setup, todo, audioq, alive, aborted, attached, flushing, apc, arg>>
  BY <1>2, <1>3
<1>4. CASE DeliverBuffer(buffer_size)
  <2>1. todo # <<>> /\ todo' = Tail(todo) /\ audioq' = Append(audioq, Head(todo))
        /\ UNCHANGED <<alive, arg>>
    BY <1>4 DEF DeliverBuffer
  <2>2. Head(todo) \in T /\ Range(todo) = {Head(todo)} \cup Range(Tail(todo))
    BY <1>1, <2>1, HeadTailRange
  <2>3. Range(Append(audioq, Head(todo))) = Range(audioq) \cup {Head(todo)}
    BY <1>1, <2>2, RangeAppend
  <2>4. Range(todo') \cup Range(audioq') = Range(todo) \cup Range(audioq)
    BY <2>1, <2>2, <2>3
  <2> QED
    BY <1>1, <2>1, <2>4 DEF PlacesInv, Listed, ItemAt
<1>5. CASE TakeBuffer
  <2>1. audioq # <<>> /\ audioq' = Tail(audioq) /\ UNCHANGED <<todo, alive, arg>>
    BY <1>5 DEF TakeBuffer
  <2>2. Range(Tail(audioq)) \subseteq Range(audioq)
    BY <1>1, <2>1, HeadTailRange
  <2> QED
    BY <1>2, <2>1, <2>2
<1>6. ASSUME NEW i \in Item, RemoveBegin(i) PROVE PlacesInv'
  <2> DEFINE others == {p \in T : ItemAt(p) # i}
  <2>1. /\ todo' = Keep(todo, others)
        /\ audioq' = IF attached THEN Keep(audioq, others) ELSE audioq
        /\ ~attached => \A p \in Range(audioq) : ItemAt(p) # i
        /\ arg = Null /\ arg' = i
        /\ UNCHANGED alive
    BY <1>6 DEF RemoveBegin, RemoveCall, Without, May, DevicesInv, CallInv
  <2>2. Range(Keep(todo, others)) = Range(todo) \cap others
    BY <1>1, KeepRange
  <2>3. Range(Keep(audioq, others)) = Range(audioq) \cap others
    BY <1>1, KeepRange
  <2>4. Range(audioq) \subseteq T
    BY <1>1 DEF Range
  <2>5. Range(audioq') \subseteq Range(audioq) \cap others
    BY <2>1, <2>3, <2>4
  <2>6. Listed \cap others \subseteq Listed'
    BY <1>1, <2>1 DEF Listed, ItemAt
  <2> HIDE DEF others
  <2> QED
    BY <2>1, <2>2, <2>5, <2>6 DEF PlacesInv
<1>7. CASE RemoveEnd
  <2>1. Listed \subseteq Listed' /\ UNCHANGED <<todo, audioq>>
    BY <1>1, <1>7, NullAssumption DEF RemoveEnd, Listed, ItemAt
  <2> QED
    BY <2>1 DEF PlacesInv
<1>8. ASSUME NEW p \in setup.seekTo, SeekBegin(p) PROVE PlacesInv'
  <2>1. todo' = Keep(Rest(p), Listed) /\ audioq' = <<>> /\ UNCHANGED <<alive, arg>>
    BY <1>8 DEF SeekBegin, Rest
  <2>2. Rest(p) \in Seq(T)
    BY RestType DEF DevicesInv, TypeOK
  <2>3. Range(Keep(Rest(p), Listed)) \subseteq Listed
    BY <2>2, KeepRange
  <2>4. Range(audioq') = {}
    BY <2>1 DEF Range
  <2> QED
    BY <1>1, <2>1, <2>3, <2>4 DEF PlacesInv, Listed, ItemAt
<1>9. CASE SinkAbort \/ SinkUnmap
  <2>1. audioq' \in {audioq, <<>>} /\ UNCHANGED <<todo, alive, arg>>
    BY <1>9 DEF SinkAbort, SinkUnmap
  <2>2. Range(audioq') \subseteq Range(audioq)
    BY <2>1 DEF Range
  <2> QED
    BY <1>2, <2>1, <2>2
<1>10. CASE SeekEnd \/ DetachCall("join") \/ AttachCall("attaching")
  BY <1>2, <1>10 DEF SeekEnd, DetachCall, AttachCall
<1>11. ASSUME NEW from, NEW to, Proceed(from, to) PROVE PlacesInv'
  BY <1>2, <1>11 DEF Proceed
<1> QED
  BY <1>3, <1>4, <1>5, <1>6, <1>7, <1>8, <1>9, <1>10, <1>11 DEF FeedNext, FeedMoves

LEMMA HeadStep ==
  ASSUME DevicesInv, PlacesInv, play_head \notin Gone, Next \/ UNCHANGED vars, ~late'
  PROVE  (play_head \notin Gone)'
<1>1. Null \notin Gone /\ alive \subseteq Item /\ CallInv
  BY NullAssumption DEF Gone, DevicesInv, TypeOK, FeedTypeOK, CallInv
<1>2. Null \notin Gone'
  <2>1. FeedNext
    BY FeedStep
  <2>3. CallInv'
    BY <2>1, CallStep DEF DevicesInv
  <2> QED
    BY <2>3, NullAssumption DEF Gone, CallInv
\* Without a step of a removal the gone items stay the same ones.
<1>3. ASSUME UNCHANGED <<alive, arg>>, apc' = "free" <=> apc = "free", play_head' \in {play_head, Null}
      PROVE  play_head' \notin Gone'
  BY <1>1, <1>3 DEF Gone
<1>4. CASE UNCHANGED vars
  BY <1>3, <1>4 DEF vars, feed, head
<1>5. CASE Helper \/ SpuriousWake
  <2>1. UNCHANGED <<alive, arg, apc, play_head>>
    BY <1>5 DEF Helper, Enter, LoopTop, Fetch, Decide, DecideOpen, StartStream, Started, Sleep, Closing,
                SpuriousWake, TakeBuffer, feed, head
  <2> QED
    BY <1>3, <2>1
<1>6. CASE OpenFails \/ StartFails \/ Underflow \/ PausePlay
  <2>1. UNCHANGED <<alive, arg, apc, play_head>>
    BY <1>6 DEF OpenFails, StartFails, Underflow, PausePlay, OnlyBudget, head
  <2> QED
    BY <1>3, <2>1
<1>7. CASE CallbackEnter \/ Deliver \/ Filled
  <2>1. UNCHANGED <<alive, arg, apc, play_head>>
    BY <1>7 DEF CallbackEnter, Deliver, DeliverBuffer, Filled, feed, head
  <2> QED
    BY <1>3, <2>1
<1>8. CASE Callback
  <2>1. UNCHANGED <<alive, arg, apc>>
    BY <1>8 DEF Callback, PlaySilence, PlayLoaded, PlayEnd, PlayNext, PlayNothing, TakeBuffer, feed
  <2>2. CASE PlayNext
    <3>1. audioq # <<>> /\ play_head' = ItemAt(Head(audioq)) /\ play_head' # End
      BY <2>2 DEF PlayNext, TakeBuffer
    <3>2. audioq \in Seq(DOMAIN setup.feed)
      BY DEF DevicesInv, TypeOK, FeedTypeOK
    <3>3. Head(audioq) \in Range(audioq)
      BY <3>1, <3>2, HeadTailRange
    <3>4. play_head' \in alive \ {arg}
      BY <3>1, <3>3 DEF PlacesInv, Listed
    <3> QED
      BY <2>1, <3>4 DEF Gone
  <2>3. CASE PlaySilence \/ PlayLoaded \/ PlayEnd \/ PlayNothing
    <3>1. play_head' \in {play_head, Null}
      BY <2>3 DEF PlaySilence, PlayLoaded, PlayEnd, PlayNothing, head
    <3> QED
      BY <1>3, <2>1, <3>1
  <2> QED
    BY <1>8, <2>2, <2>3 DEF Callback
<1>9. ASSUME NEW i \in Item, RemoveItem(i) PROVE play_head' \notin Gone'
  <2>1. UNCHANGED <<alive, play_head>> /\ arg' = i /\ apc = "idle"
        /\ apc' = (IF attached THEN "purge_hook" ELSE "free")
        /\ (attached \/ play_head # i)
    BY <1>9 DEF RemoveItem, RemoveBegin, RemoveStraggling, RemoveCall, May, head
  <2> QED
    BY <2>1 DEF Gone
<1>10. CASE PurgeHook
  <2>1. UNCHANGED <<alive, arg>> /\ apc = "purge_hook" /\ apc' = "free"
        /\ play_head' = (IF play_head = arg THEN Null ELSE play_head)
    BY <1>10 DEF PurgeHook, Proceed, head
  <2> QED
    BY <1>1, <1>2, <2>1 DEF Gone
<1>11. CASE RemoveFree
  <2>1. UNCHANGED play_head /\ apc = "free" /\ apc' = "idle" /\ alive' = alive \ {arg}
    BY <1>11 DEF RemoveFree, RemoveEnd, head
  <2> QED
    BY <2>1 DEF Gone
<1>12. ASSUME NEW p \in setup.seekTo, Seek(p) PROVE play_head' \notin Gone'
  <2>1. UNCHANGED <<alive, arg, apc, play_head>>
    BY <1>12 DEF Seek, SeekBegin, head
  <2> QED
    BY <1>3, <2>1
<1>13. CASE FlushHook \/ Joined \/ DetachSink \/ Detached \/ AttachRest
  <2>1. UNCHANGED <<alive, arg>> /\ (apc' = "free" <=> apc = "free") /\ play_head' \in {play_head, Null}
    BY <1>13 DEF FlushHook, SeekEnd, Joined, DetachSink, SinkAbort, SinkUnmap, Detached, AttachRest,
                 Proceed, head
  <2> QED
    BY <1>3, <2>1
<1>14. CASE DetachBegin \/ Attach
  <2>1. UNCHANGED <<alive, arg, play_head>> /\ (apc' = "free" <=> apc = "free")
    BY <1>14 DEF DetachBegin, DetachCall, Attach, AttachCall, May, head
  <2> QED
    BY <1>3, <2>1
<1> QED
  BY <1>4, <1>5, <1>6, <1>7, <1>8, <1>9, <1>10, <1>11, <1>12, <1>13, <1>14 DEF Next, Continue

LEMMA PurgeInit ==
  ASSUME Init
  PROVE  PurgeInv
<1> USE DEF Init, FeedInit
<1>1. Range(todo) \subseteq DOMAIN setup.feed /\ Range(audioq) = {}
  BY DEF Range
<1>2. setup.feed \in Seq(Item \cup {End})
  BY TypeInit
<1>3. \A p \in DOMAIN setup.feed : p \in Listed
  BY <1>2, NullAssumption DEF Listed, ItemAt, Range
<1>4. Null \notin Gone
  BY NullAssumption DEF Gone
<1> QED
  BY <1>1, <1>3, <1>4, DevicesInit DEF PurgeInv, PlacesInv

\* A decoder that has labelled a buffer still has that buffer to put.
LEMMA NotBoth ==
  ASSUME DevicesInv, NEW i \in Item
  PROVE  ~(RemoveBegin(i) /\ RemoveStraggling(i))
<1> DEFINE T == DOMAIN setup.feed
           others == {p \in T : ItemAt(p) # i}
<1>1. SUFFICES ASSUME RemoveBegin(i), RemoveStraggling(i) PROVE FALSE
  OBVIOUS
<1>2. todo \in Seq(T)
  BY DEF DevicesInv, TypeOK, FeedTypeOK
<1>3. todo # <<>> /\ ItemAt(Head(todo)) = i /\ Without(todo, i) = <<Head(todo)>> \o Without(Tail(todo), i)
  BY <1>1 DEF RemoveBegin, RemoveStraggling, RemoveCall
<1>4. Head(todo) \in T /\ Tail(todo) \in Seq(T)
  BY <1>2, <1>3, HeadTailRange
<1>5. Without(Tail(todo), i) \in Seq(T)
  BY <1>4, KeepType DEF Without
<1>6. Range(Without(todo, i)) = Range(todo) \cap others
  BY <1>2, KeepRange DEF Without
<1>7. Head(todo) \in Range(Without(todo, i))
  <2> DEFINE w == Without(Tail(todo), i)
  <2>1. ASSUME NEW x \in T, NEW v \in Seq(T)
        PROVE  1 \in DOMAIN (<<x>> \o v) /\ (<<x>> \o v)[1] = x
    OBVIOUS
  <2>2. 1 \in DOMAIN (<<Head(todo)>> \o w) /\ (<<Head(todo)>> \o w)[1] = Head(todo)
    BY <1>4, <1>5, <2>1
  <2> QED
    BY <1>3, <2>2 DEF Range
<1> QED
  BY <1>3, <1>6, <1>7

LEMMA PurgeStep ==
  ASSUME PurgeInv, Next \/ UNCHANGED vars
  PROVE  PurgeInv'
<1>1. DevicesInv /\ DevicesInv' /\ FeedNext
  BY DevicesStep, FeedStep DEF PurgeInv
<1>2. SUFFICES ASSUME ~late' PROVE PlacesInv' /\ play_head' \notin Gone'
  BY <1>1 DEF PurgeInv
<1>3. ~late
  BY <1>2 DEF Next, vars, history, Helper, Enter, LoopTop, Fetch, Decide, DecideOpen, StartStream,
              Started, Sleep, Closing, SpuriousWake, OpenFails, StartFails, Underflow, PausePlay,
              CallbackEnter, Callback, Deliver, Filled, Continue, PurgeHook, RemoveFree, FlushHook,
              Joined, DetachSink, Detached, AttachRest, RemoveItem, Seek, DetachBegin, Attach
<1>4. PlacesInv /\ play_head \notin Gone
  BY <1>3 DEF PurgeInv
\* What removes in the feed is a removal of the player.
<1>5. ASSUME NEW i \in Item, NEW rest, RemoveCall(i, rest)
      PROVE  RemoveItem(i) /\ arg = Null
  <2>1. arg = Null /\ apc = "idle" /\ arg' = i /\ apc' \in {"purge_hook", "free"} /\ i # Null
    BY <1>1, <1>5, NullAssumption DEF RemoveCall, May, DevicesInv, CallInv
  <2>2. \E j \in Item : RemoveItem(j)
    BY <2>1
       DEF Next, vars, feed, Helper, Enter, LoopTop, Fetch, Decide, DecideOpen, StartStream, Started,
           Sleep, Closing, SpuriousWake, OpenFails, StartFails, Underflow, PausePlay, OnlyBudget,
           CallbackEnter, Callback, PlaySilence, PlayLoaded, PlayEnd, PlayNext, PlayNothing, TakeBuffer,
           Deliver, DeliverBuffer, Filled, Continue, PurgeHook, RemoveFree, RemoveEnd, FlushHook,
           SeekEnd, Joined, DetachSink, SinkAbort, SinkUnmap, Detached, AttachRest, Proceed, Seek,
           SeekBegin, DetachBegin, DetachCall, Attach, AttachCall
  <2>3. PICK j \in Item : RemoveItem(j)
    BY <2>2
  <2>4. j = i
    BY <2>1, <2>3 DEF RemoveItem, RemoveBegin, RemoveStraggling, RemoveCall
  <2> QED
    BY <2>1, <2>3, <2>4
<1>8. ASSUME NEW i \in Item
      PROVE  /\ ~RemoveStraggling(i)
             /\ RemoveBegin(i) /\ ~attached => \A p \in Range(audioq) : ItemAt(p) # i
  <2>1. RemoveStraggling(i) \/ RemoveBegin(i) => RemoveItem(i)
    BY <1>5 DEF RemoveStraggling, RemoveBegin
  <2>2. ASSUME RemoveItem(i)
        PROVE  /\ RemoveBegin(i)
               /\ ~attached => \A p \in Range(audioq) : ItemAt(p) # i
    BY <1>2, <2>2 DEF RemoveItem
  <2>3. ~(RemoveBegin(i) /\ RemoveStraggling(i))
    BY <1>1, NotBoth DEF PurgeInv
  <2> QED
    BY <2>1, <2>2, <2>3
<1>6. PlacesInv'
  BY <1>1, <1>4, <1>8, PlacesStep
<1>7. play_head' \notin Gone'
  BY <1>1, <1>2, <1>4, HeadStep
<1> QED
  BY <1>6, <1>7

(***************************************************************************)
(* play_head, which groove_player_position hands out, is never an item that *)
(* was freed, unless it was left behind by a detach or put in the queue, of  *)
(* an item that goes, by a decoder that strayed.                           *)
(***************************************************************************)
THEOREM HeadPurgedInTime == Spec => []PlayHeadAlive
<1>1. Init => PurgeInv
  BY PurgeInit
<1>2. PurgeInv /\ [Next]_vars => PurgeInv'
  BY PurgeStep
<1>3. PurgeInv => PlayHeadAlive
  BY DEF PurgeInv, DevicesInv, TypeOK, PlayHeadAlive, Gone
<1> QED
  BY <1>1, <1>2, <1>3, PTL DEF Spec

--------------------------------------------------------------------------------
(* The order of what is heard.                                             *)

\* Places that need not be heard any more.
Lost == {p \in DOMAIN setup.feed : p \in skipped \/ ItemAt(p) \notin alive \ {arg}}

Coming == Range(audioq) \cup Range(todo)
Loaded == IF HasLoaded THEN {audio_buf} ELSE {}
Passed == Range(heard) \cup Loaded

\* The queue goes on where the callback is.  A seek changes the queue first and
\* the player later, and a detach the queue only.
Current == ~flushing /\ attached /\ apc \notin {"sink_abort", "sink_map"}

\* From its first place on, set is all of the feed but what need not be heard.
NoGap(set) == \A p \in set, q \in DOMAIN setup.feed : p < q => q \in set \cup Lost

QueueInv ==
  /\ Increasing(audioq) /\ Increasing(todo)
  /\ \A p \in Range(audioq), q \in Range(todo) : p < q
  /\ NoGap(Coming)

HeardInv ==
  /\ Increasing(heard)
  /\ \A p \in Range(heard), q \in Loaded : p < q
  /\ \A p, r \in Passed, q \in DOMAIN setup.feed : p < q /\ q < r => q \in Passed \cup Lost
  /\ Current => /\ \A p \in Passed, q \in Coming : p < q
                /\ NoGap(Passed \cup Coming)

\* Of a decoder that strayed nothing is claimed.
PlayInv == DevicesInv /\ (~setup.strays => QueueInv /\ HeardInv)

LEMMA TailIncreasing ==
  ASSUME NEW s \in Seq(Nat), s # <<>>, Increasing(s)
  PROVE  Increasing(Tail(s)) /\ \A q \in Range(Tail(s)) : Head(s) < q
<1> DEFINE t == Tail(s)
<1>1. /\ Head(s) = s[1] /\ Len(s) \in Nat \ {0} /\ t \in Seq(Nat) /\ Len(t) = Len(s) - 1
      /\ \A n \in 1 .. Len(s) - 1 : t[n] = s[n + 1]
  OBVIOUS
<1>2. DOMAIN s = 1 .. Len(s) /\ DOMAIN t = 1 .. Len(s) - 1
  BY <1>1
<1> HIDE DEF t
<1>3. \A n \in 1 .. Len(s) - 1 : n + 1 \in DOMAIN s /\ 1 \in DOMAIN s /\ 1 < n + 1
  BY <1>1, <1>2
<1>4. Increasing(t)
  <2>1. SUFFICES ASSUME NEW j \in DOMAIN t, NEW k \in DOMAIN t, j < k PROVE t[j] < t[k]
    BY DEF Increasing
  <2>2. j + 1 < k + 1 /\ j + 1 \in DOMAIN s /\ k + 1 \in DOMAIN s
    BY <2>1, <1>2, <1>3
  <2> QED
    BY <2>1, <2>2, <1>1, <1>2 DEF Increasing
<1>5. \A n \in DOMAIN t : Head(s) < t[n]
  BY <1>1, <1>2, <1>3 DEF Increasing
<1> QED
  BY <1>4, <1>5 DEF Range, t

\* What the order is about: numbers, the places of the feed.
LEMMA Places1 ==
  ASSUME DevicesInv
  PROVE  /\ setup.feed \in Seq(Item \cup {End}) /\ DOMAIN setup.feed \subseteq Nat
         /\ audioq \in Seq(DOMAIN setup.feed) /\ todo \in Seq(DOMAIN setup.feed)
         /\ audioq \in Seq(Nat) /\ todo \in Seq(Nat) /\ heard \in Seq(Nat)
         /\ heard \in Seq(DOMAIN setup.feed)
         /\ Coming \subseteq DOMAIN setup.feed /\ Passed \subseteq DOMAIN setup.feed
         /\ alive \subseteq Item /\ End \notin alive
<1>1. setup.feed \in Seq(Item \cup {End})
  BY FeedAssumption DEF DevicesInv, TypeOK, FeedTypeOK
<1>2. DOMAIN setup.feed \subseteq Nat
  BY <1>1
<1>3. /\ audioq \in Seq(DOMAIN setup.feed) /\ todo \in Seq(DOMAIN setup.feed)
      /\ heard \in Seq(DOMAIN setup.feed) /\ alive \subseteq Item
      /\ audio_buf \in DOMAIN setup.feed \cup {Null}
  BY DEF DevicesInv, TypeOK, FeedTypeOK
<1>4. Loaded \subseteq DOMAIN setup.feed
  BY <1>3 DEF DevicesInv, LoadedInv, Loaded
<1>5. \A s \in Seq(DOMAIN setup.feed) : s \in Seq(Nat) /\ Range(s) \subseteq DOMAIN setup.feed
  BY <1>2 DEF Range
<1> QED
  BY <1>1, <1>2, <1>3, <1>4, <1>5, NullAssumption DEF Coming, Passed

LEMMA SkippedGrows ==
  ASSUME Next \/ UNCHANGED vars
  PROVE  skipped \subseteq skipped'
BY DEF Next, vars, history, Helper, Enter, LoopTop, Fetch, Decide, DecideOpen, StartStream, Started,
       Sleep, Closing, SpuriousWake, OpenFails, StartFails, Underflow, PausePlay, CallbackEnter,
       Callback, Deliver, Filled, Continue, PurgeHook, RemoveFree, FlushHook, Joined, DetachSink,
       Detached, AttachRest, RemoveItem, Seek, DetachBegin, Attach

LEMMA LostGrows ==
  ASSUME DevicesInv, FeedNext, skipped \subseteq skipped'
  PROVE  Lost \subseteq Lost'
<1>1. setup' = setup /\ alive \subseteq Item
  BY SetupStays DEF DevicesInv, TypeOK, FeedTypeOK
<1>2. alive' \ {arg'} \subseteq alive \ {arg}
  <2>1. ASSUME NEW i \in Item, RemoveBegin(i) \/ RemoveStraggling(i)
        PROVE  alive' \ {arg'} \subseteq alive \ {arg}
    BY <1>1, <2>1, NullAssumption DEF RemoveBegin, RemoveStraggling, RemoveCall, May, DevicesInv, CallInv
  <2>2. CASE RemoveEnd
    BY <1>1, <2>2 DEF RemoveEnd
  <2> QED
    BY <2>1, <2>2 DEF FeedNext, FeedMoves, DeliverBuffer, TakeBuffer, Proceed, SeekBegin, SeekEnd,
                      DetachCall, SinkAbort, SinkUnmap, AttachCall
<1> QED
  BY <1>1, <1>2 DEF Lost, ItemAt

LEMMA QueueStep ==
  ASSUME DevicesInv, QueueInv, FeedNext, skipped \subseteq skipped', ~setup.strays
  PROVE  QueueInv'
<1> DEFINE T == DOMAIN setup.feed
<1>1. /\ setup.feed \in Seq(Item \cup {End}) /\ T \subseteq Nat /\ setup' = setup
      /\ audioq \in Seq(T) /\ todo \in Seq(T) /\ audioq \in Seq(Nat) /\ todo \in Seq(Nat)
      /\ Coming \subseteq T
  BY Places1, SetupStays
<1>2. Lost \subseteq Lost'
  BY LostGrows
<1>3. ASSUME UNCHANGED <<todo, audioq>> PROVE QueueInv'
  BY <1>1, <1>2, <1>3 DEF QueueInv, NoGap, Coming, Increasing
<1>4. CASE DeliverBuffer(buffer_size)
  <2>1. todo # <<>> /\ todo' = Tail(todo) /\ audioq' = Append(audioq, Head(todo))
    BY <1>4 DEF DeliverBuffer
  <2>2. Head(todo) \in T /\ Range(todo) = {Head(todo)} \cup Range(Tail(todo))
    BY <1>1, <2>1, HeadTailRange
  <2>3. Range(Append(audioq, Head(todo))) = Range(audioq) \cup {Head(todo)}
    BY <1>1, <2>2, RangeAppend
  <2>4. Increasing(Tail(todo)) /\ \A q \in Range(Tail(todo)) : Head(todo) < q
    BY <1>1, <2>1, TailIncreasing DEF QueueInv
  <2>5. Increasing(Append(audioq, Head(todo)))
    BY <1>1, <2>2, IncreasingAppend DEF QueueInv
  <2>6. Coming' = Coming
    BY <2>1, <2>2, <2>3 DEF Coming
  <2>7. NoGap(Coming)'
    BY <1>1, <1>2, <2>6 DEF QueueInv, NoGap
  <2>8. Increasing(audioq)' /\ Increasing(todo)'
    BY <2>1, <2>4, <2>5 DEF Increasing
  <2>9. \A p \in Range(audioq'), q \in Range(todo') : p < q
    BY <2>1, <2>2, <2>3, <2>4 DEF QueueInv
  <2> QED
    BY <2>7, <2>8, <2>9 DEF QueueInv
<1>5. CASE TakeBuffer
  <2>1. audioq # <<>> /\ audioq' = Tail(audioq) /\ todo' = todo
    BY <1>5 DEF TakeBuffer
  <2>2. Head(audioq) \in T /\ Range(audioq) = {Head(audioq)} \cup Range(Tail(audioq))
    BY <1>1, <2>1, HeadTailRange
  <2>3. Increasing(Tail(audioq)) /\ \A q \in Range(Tail(audioq)) : Head(audioq) < q
    BY <1>1, <2>1, TailIncreasing DEF QueueInv
  <2>4. \A q \in Coming' : Head(audioq) < q
    BY <2>1, <2>2, <2>3 DEF Coming, QueueInv
  <2>5. Coming = Coming' \cup {Head(audioq)}
    BY <2>1, <2>2 DEF Coming
  <2>6. ASSUME NEW p \in Coming', NEW q \in T, p < q PROVE q \in Coming' \cup Lost'
    <3>1. q # Head(audioq)
      <4>1. p \in Nat /\ Head(audioq) < p
        BY <1>1, <2>4, <2>5
      <4> QED
        BY <1>1, <2>2, <2>6, <4>1
    <3>2. q \in Coming \cup Lost
      BY <2>5, <2>6 DEF QueueInv, NoGap
    <3> QED
      BY <1>2, <2>5, <3>1, <3>2
  <2>7. NoGap(Coming)'
    BY <1>1, <2>6 DEF NoGap
  <2>8. Increasing(audioq)' /\ Increasing(todo)'
    BY <2>1, <2>3 DEF Increasing, QueueInv
  <2>9. \A p \in Range(audioq'), q \in Range(todo') : p < q
    BY <2>1, <2>2 DEF QueueInv
  <2> QED
    BY <2>7, <2>8, <2>9 DEF QueueInv
<1>6. ASSUME NEW i \in Item, RemoveBegin(i) PROVE QueueInv'
  <2> DEFINE others == {p \in T : ItemAt(p) # i}
  <2>1. /\ todo' = Keep(todo, others)
        /\ audioq' = IF attached THEN Keep(audioq, others) ELSE audioq
        /\ arg' = i /\ alive' = alive
    BY <1>6 DEF RemoveBegin, RemoveCall, Without
  <2>2. Range(Keep(todo, others)) = Range(todo) \cap others /\ Increasing(Keep(todo, others))
    BY <1>1, KeepRange, KeepIncreasing DEF QueueInv
  <2>3. Range(Keep(audioq, others)) = Range(audioq) \cap others /\ Increasing(Keep(audioq, others))
    BY <1>1, KeepRange, KeepIncreasing DEF QueueInv
  <2>4. T \ others \subseteq Lost'
    BY <1>1, <2>1 DEF Lost, ItemAt
  <2> HIDE DEF others
  <2>5. Range(todo') = Range(todo) \cap others /\ Range(audioq') \subseteq Range(audioq)
        /\ Range(audioq) \cap others \subseteq Range(audioq')
    BY <2>1, <2>2, <2>3
  <2>6. NoGap(Coming)'
    <3>1. Coming' \subseteq Coming /\ Coming \subseteq Coming' \cup Lost'
      BY <1>1, <2>4, <2>5 DEF Coming
    <3> QED
      BY <1>1, <1>2, <3>1 DEF QueueInv, NoGap
  <2>7. Increasing(audioq)' /\ Increasing(todo)'
    BY <2>1, <2>2, <2>3 DEF Increasing, QueueInv
  <2>8. \A p \in Range(audioq'), q \in Range(todo') : p < q
    BY <2>5 DEF QueueInv
  <2> QED
    BY <2>6, <2>7, <2>8 DEF QueueInv
<1>7. ASSUME NEW p \in setup.seekTo, SeekBegin(p) PROVE QueueInv'
  <2>1. todo' = Keep(Rest(p), Listed) /\ audioq' = <<>> /\ UNCHANGED <<alive, arg>>
    BY <1>7 DEF SeekBegin, Rest
  <2>2. Rest(p) \in Seq(T) /\ p \in T
    BY RestType, FeedAssumption DEF DevicesInv, TypeOK, FeedTypeOK
  <2>3. DOMAIN setup.feed = 1 .. Len(setup.feed) /\ Len(setup.feed) \in Nat
    BY <1>1
  <2>4. Increasing(Rest(p)) /\ Range(Rest(p)) = {q \in T : p <= q}
    <3>1. DOMAIN Rest(p) = 1 .. Len(setup.feed) - p + 1
          /\ \A k \in 1 .. Len(setup.feed) - p + 1 : Rest(p)[k] = p + k - 1
      BY DEF Rest
    <3>2. Increasing(Rest(p))
      BY <2>2, <2>3, <3>1 DEF Increasing
    <3>3. \A k \in DOMAIN Rest(p) : Rest(p)[k] \in {q \in T : p <= q}
      BY <2>2, <2>3, <3>1
    <3>4. ASSUME NEW q \in T, p <= q PROVE \E k \in DOMAIN Rest(p) : Rest(p)[k] = q
      <4>1. q - p + 1 \in 1 .. Len(setup.feed) - p + 1 /\ p + (q - p + 1) - 1 = q
        BY <2>2, <2>3, <3>4
      <4> QED
        BY <3>1, <4>1
    <3> QED
      BY <3>2, <3>3, <3>4 DEF Range
  <2>5. Rest(p) \in Seq(Nat)
    BY <1>1, <2>2
  <2>6. Range(Keep(Rest(p), Listed)) = Range(Rest(p)) \cap Listed /\ Increasing(Keep(Rest(p), Listed))
    BY <2>4, <2>5, KeepRange, KeepIncreasing
  <2>7. Range(<<>>) = {} /\ Increasing(<<>>)
    BY DEF Range, Increasing
  <2>8. Coming' = {q \in Listed : p <= q}
    <3>1. Listed \subseteq T
      BY DEF Listed
    <3> QED
      BY <2>1, <2>4, <2>6, <2>7, <3>1 DEF Coming
  <2>9. T \ Listed \subseteq Lost'
    BY <1>1, <2>1 DEF Listed, Lost, ItemAt
  <2>10. NoGap(Coming)'
    <3>1. ASSUME NEW a \in Coming', NEW q \in T, a < q PROVE q \in Coming' \cup Lost'
      <4>1. a \in T /\ p <= a
        BY <2>8 DEF Listed
      <4>2. p <= q
        BY <1>1, <2>2, <3>1, <4>1
      <4> QED
        BY <2>8, <2>9, <4>2
    <3> QED
      BY <1>1, <3>1 DEF NoGap
  <2>11. Increasing(audioq)' /\ Increasing(todo)'
    BY <2>1, <2>6, <2>7 DEF Increasing
  <2>12. \A a \in Range(audioq'), q \in Range(todo') : a < q
    BY <2>1, <2>7
  <2> QED
    BY <2>10, <2>11, <2>12 DEF QueueInv
<1>8. CASE SinkAbort
  <2>1. audioq' = <<>> /\ todo' = todo
    BY <1>8 DEF SinkAbort
  <2>2. Range(<<>>) = {} /\ Increasing(<<>>)
    BY DEF Range, Increasing
  <2>3. Coming' = Range(todo) /\ Coming = Range(audioq) \cup Range(todo)
    BY <2>1, <2>2 DEF Coming
  <2>4. ASSUME NEW p \in Coming', NEW q \in T, p < q PROVE q \in Coming' \cup Lost'
    <3>1. q \in Coming \cup Lost
      BY <2>3, <2>4 DEF QueueInv, NoGap
    <3>2. q \notin Range(audioq)
      <4>1. q \in Range(audioq) => q < p
        BY <2>3, <2>4 DEF QueueInv
      <4>2. p \in Nat /\ q \in Nat
        BY <1>1, <2>3, <2>4
      <4> QED
        BY <2>4, <4>1, <4>2
    <3> QED
      BY <1>2, <2>3, <3>1, <3>2
  <2>5. NoGap(Coming)'
    BY <1>1, <2>4 DEF NoGap
  <2>6. Increasing(audioq)' /\ Increasing(todo)'
    BY <2>1, <2>2 DEF Increasing, QueueInv
  <2> QED
    BY <2>1, <2>2, <2>5, <2>6 DEF QueueInv
<1>9. CASE \/ UNCHANGED <<setup, todo, audioq, alive, aborted, attached, flushing, apc, arg>>
           \/ RemoveEnd \/ SeekEnd \/ DetachCall("join") \/ SinkUnmap \/ AttachCall("attaching")
  BY <1>3, <1>9 DEF RemoveEnd, SeekEnd, DetachCall, SinkUnmap, AttachCall
<1>10. ASSUME NEW from, NEW to, Proceed(from, to) PROVE QueueInv'
  BY <1>3, <1>10 DEF Proceed
<1> QED
  BY <1>4, <1>5, <1>6, <1>7, <1>8, <1>9, <1>10 DEF FeedNext, FeedMoves, RemoveStraggling

\* Where nothing is played and nothing is added, only what need not be heard
\* may be left out of what is to come.
LEMMA HeardStays ==
  ASSUME DevicesInv, HeardInv, setup' = setup, Lost \subseteq Lost',
         heard' = heard, Loaded' \in {Loaded, {}},
         Current' => /\ Current
                     /\ Loaded \subseteq Loaded' \cup Lost'
                     /\ Coming' \subseteq Coming /\ Coming \subseteq Coming' \cup Lost'
  PROVE  HeardInv'
<1> DEFINE T == DOMAIN setup.feed
<1>1. T \subseteq Nat /\ Passed \subseteq T /\ Coming \subseteq T
  BY Places1
<1>2. Passed' = Range(heard) \cup Loaded' /\ Passed' \subseteq Passed
  BY DEF Passed
<1>3. Increasing(heard)' /\ \A p \in Range(heard'), q \in Loaded' : p < q
  BY DEF HeardInv, Increasing
<1>4. ASSUME NEW p \in Passed', NEW r \in Passed', NEW q \in T, p < q, q < r
      PROVE  q \in Passed' \cup Lost'
  <2>1. q \in Passed \cup Lost
    BY <1>2, <1>4 DEF HeardInv
  <2>2. CASE Loaded' = Loaded
    BY <1>2, <2>1, <2>2 DEF Passed
  <2>3. CASE Loaded' = {}
    <3>1. r \in Range(heard) /\ r \in Nat /\ q \in Nat
      BY <1>1, <1>2, <1>4, <2>3
    <3>2. q \notin Loaded
      <4>1. q \in Loaded => r < q
        BY <3>1 DEF HeardInv
      <4> QED
        BY <1>4, <3>1, <4>1
    <3> QED
      BY <1>2, <2>1, <3>2 DEF Passed
  <2> QED
    BY <2>2, <2>3
<1>5. ASSUME Current'
      PROVE  (\A p \in Passed', q \in Coming' : p < q) /\ NoGap(Passed \cup Coming)'
  <2>1. \A p \in Passed', q \in Coming' : p < q
    BY <1>2, <1>5 DEF HeardInv
  <2>2. (Passed \cup Coming)' = Passed' \cup Coming'
    OBVIOUS
  <2>3. Passed' \cup Coming' \subseteq Passed \cup Coming
    BY <1>2, <1>5
  <2>4. Passed \cup Coming \subseteq Passed' \cup Coming' \cup Lost'
    BY <1>2, <1>5 DEF Passed
  <2> QED
    BY <1>5, <2>1, <2>3, <2>4 DEF HeardInv, NoGap
<1> QED
  BY <1>3, <1>4, <1>5 DEF HeardInv

\* The steps that say where the queue is are of the feed.
LEMMA ComingStep ==
  ASSUME DevicesInv, FeedMoves, Current', ~setup.strays
  PROVE  /\ Current
         /\ Coming' \subseteq Coming /\ Coming \subseteq Coming' \cup Lost'
<1> DEFINE T == DOMAIN setup.feed
<1>1. /\ audioq \in Seq(T) /\ todo \in Seq(T) /\ Coming \subseteq T /\ setup' = setup
      /\ CallInv
  BY Places1, SetupStays DEF FeedNext, DevicesInv
<1>2. ASSUME UNCHANGED <<todo, audioq>> PROVE Coming' = Coming
  BY <1>2 DEF Coming
<1>3. CASE UNCHANGED <<setup, todo, audioq, alive, aborted, attached, flushing, apc, arg>>
  BY <1>2, <1>3 DEF Current
<1>4. CASE DeliverBuffer(buffer_size)
  <2>1. todo # <<>> /\ todo' = Tail(todo) /\ audioq' = Append(audioq, Head(todo))
        /\ UNCHANGED <<flushing, attached, apc>>
    BY <1>4 DEF DeliverBuffer
  <2>2. Head(todo) \in T /\ Range(todo) = {Head(todo)} \cup Range(Tail(todo))
    BY <1>1, <2>1, HeadTailRange
  <2>3. Range(Append(audioq, Head(todo))) = Range(audioq) \cup {Head(todo)}
    BY <1>1, <2>2, RangeAppend
  <2>4. Coming' = Coming
    BY <2>1, <2>2, <2>3 DEF Coming
  <2> QED
    BY <2>1, <2>4 DEF Current
<1>5. ASSUME NEW i \in Item, RemoveBegin(i)
      PROVE  Current /\ Coming' \subseteq Coming /\ Coming \subseteq Coming' \cup Lost'
  <2> DEFINE others == {p \in T : ItemAt(p) # i}
  <2>1. /\ todo' = Keep(todo, others)
        /\ audioq' = IF attached THEN Keep(audioq, others) ELSE audioq
        /\ arg' = i /\ alive' = alive
        /\ UNCHANGED <<flushing, attached>> /\ apc = "idle"
    BY <1>5 DEF RemoveBegin, RemoveCall, Without, May
  <2>2. Range(Keep(todo, others)) = Range(todo) \cap others
    BY <1>1, KeepRange
  <2>3. Range(Keep(audioq, others)) = Range(audioq) \cap others
    BY <1>1, KeepRange
  <2>4. T \ others \subseteq Lost'
    BY <1>1, <2>1 DEF Lost, ItemAt
  <2> HIDE DEF others
  <2>5. Coming' \subseteq Coming /\ Coming \subseteq Coming' \cup Lost'
    BY <1>1, <2>1, <2>2, <2>3, <2>4 DEF Coming
  <2> QED
    BY <2>1, <2>5 DEF Current
<1>6. CASE RemoveEnd
  <2>1. Coming' = Coming /\ UNCHANGED <<flushing, attached>> /\ apc = "free"
    BY <1>2, <1>6 DEF RemoveEnd
  <2> QED
    BY <2>1 DEF Current
<1>7. CASE DetachCall("join")
  BY <1>2, <1>7 DEF DetachCall, May, Current
<1>8. CASE Proceed("purge_hook", "free") \/ Proceed("join", "sink_abort") \/ Proceed("detached", "idle")
  <2>1. Coming' = Coming /\ UNCHANGED <<flushing, attached>>
    BY <1>2, <1>8 DEF Proceed
  <2>2. apc # "sink_abort" /\ apc # "sink_map"
    BY <1>8 DEF Proceed
  <2> QED
    BY <2>1, <2>2 DEF Current
<1>9. CASE (\E p \in setup.seekTo : SeekBegin(p)) \/ SinkAbort \/ SinkUnmap
  BY <1>9 DEF SeekBegin, SinkAbort, SinkUnmap, Current
<1> QED
  BY <1>3, <1>4, <1>5, <1>6, <1>7, <1>8, <1>9 DEF FeedMoves, RemoveStraggling

LEMMA OrderStep ==
  ASSUME DevicesInv, QueueInv, HeardInv, Next \/ UNCHANGED vars, ~setup.strays
  PROVE  HeardInv'
<1> DEFINE T == DOMAIN setup.feed
<1>1. /\ T \subseteq Nat /\ Passed \subseteq T /\ Coming \subseteq T
      /\ audioq \in Seq(T) /\ todo \in Seq(T) /\ heard \in Seq(T)
      /\ audioq \in Seq(Nat) /\ heard \in Seq(Nat)
      /\ End \notin alive
  BY Places1
<1>2. FeedNext /\ setup' = setup
  BY FeedStep, SetupStays
<1>3. Lost \subseteq Lost'
  BY <1>2, SkippedGrows, LostGrows
<1>4. HelperInv /\ CallInv /\ LoadedInv /\ QueueInv'
  BY <1>2, SkippedGrows, QueueStep DEF DevicesInv
\* A step of the feed that what is loaded and heard has no part in.
<1>5. ASSUME FeedMoves, UNCHANGED <<audio_buf, ready, heard>> PROVE HeardInv'
  <2>1. (attached' => attached) /\ (apc' = "attaching" <=> apc = "attaching")
    <3>1. CASE \E i \in Item : RemoveBegin(i) \/ RemoveStraggling(i)
      BY <3>1 DEF RemoveBegin, RemoveStraggling, RemoveCall, May
    <3>2. CASE UNCHANGED <<setup, todo, audioq, alive, aborted, attached, flushing, apc, arg>>
      BY <3>2
    <3>5. CASE DeliverBuffer(buffer_size) \/ \E p \in setup.seekTo : SeekBegin(p)
      <4>1. UNCHANGED <<attached, apc>>
        BY <3>5 DEF DeliverBuffer, SeekBegin
      <4> QED
        BY <4>1
    <3>3. CASE \/ Proceed("purge_hook", "free") \/ Proceed("join", "sink_abort")
               \/ Proceed("detached", "idle")
      BY <3>3 DEF Proceed
    <3>4. CASE RemoveEnd \/ DetachCall("join") \/ SinkAbort \/ SinkUnmap
      BY <3>4 DEF RemoveEnd, DetachCall, SinkAbort, SinkUnmap, May
    <3> QED
      BY <1>5, <3>1, <3>2, <3>3, <3>4, <3>5 DEF FeedMoves
  <2>2. Loaded' \in {Loaded, {}} /\ (attached' => Loaded' = Loaded)
    BY <1>5, <2>1 DEF Loaded, HasLoaded
  <2>3. Current' => attached'
    BY DEF Current
  <2> QED
    BY <1>2, <1>3, <1>5, <2>2, <2>3, ComingStep, HeardStays
<1>6. CASE UNCHANGED vars
  <2>1. FeedMoves
    BY <1>6 DEF vars, feed, FeedMoves
  <2> QED
    BY <1>5, <1>6, <2>1 DEF vars, head, history
<1>7. CASE \/ Enter \/ LoopTop \/ Decide \/ DecideOpen \/ StartStream \/ Started \/ Sleep \/ Closing
           \/ SpuriousWake \/ CallbackEnter \/ Filled
  <2>1. UNCHANGED <<feed, audio_buf, ready, heard>>
    BY <1>7 DEF Enter, LoopTop, Decide, DecideOpen, StartStream, Started, Sleep, Closing,
                SpuriousWake, CallbackEnter, Filled, head, history
  <2>2. FeedMoves
    BY <2>1 DEF feed, FeedMoves
  <2> QED
    BY <1>5, <2>1, <2>2
<1>8. CASE OpenFails \/ StartFails \/ Underflow \/ PausePlay
  <2>1. OnlyBudget /\ UNCHANGED <<audio_buf, ready, heard>>
    BY <1>8 DEF OpenFails, StartFails, Underflow, PausePlay, head, history
  <2>2. FeedMoves
    BY <2>1 DEF OnlyBudget, FeedMoves
  <2> QED
    BY <1>5, <2>1, <2>2
<1>9. CASE Deliver \/ RemoveFree \/ Joined \/ DetachSink \/ DetachBegin
  <2>1. FeedMoves /\ UNCHANGED <<audio_buf, ready, heard>>
    BY <1>9 DEF Deliver, RemoveFree, Joined, DetachSink, DetachBegin, FeedMoves, head, history
  <2> QED
    BY <1>5, <2>1
<1>10. ASSUME NEW i \in Item, RemoveItem(i) PROVE HeardInv'
  BY <1>5, <1>10 DEF RemoveItem, FeedMoves, head
<1>11. ASSUME NEW p \in setup.seekTo, Seek(p) PROVE HeardInv'
  BY <1>5, <1>11 DEF Seek, FeedMoves, head, history
\* The purge hook drops what is loaded if it is of the item that goes.
<1>12. CASE PurgeHook
  <2>1. FeedMoves /\ heard' = heard /\ UNCHANGED <<attached, alive, arg, todo, audioq>>
        /\ apc = "purge_hook"
    BY <1>12 DEF PurgeHook, Proceed, FeedMoves, history
  <2>2. CASE play_head # arg
    BY <1>5, <1>12, <2>1, <2>2 DEF PurgeHook, head
  <2>3. CASE play_head = arg
    <3>1. Loaded' = {}
      BY <1>12, <2>3 DEF PurgeHook, Loaded, HasLoaded
    <3>2. ASSUME NEW p \in Loaded PROVE p \in Lost'
      <4>1. p \in T /\ ItemAt(p) = arg
        BY <1>1, <1>4, <2>3, <3>2 DEF Loaded, LoadedInv, Passed
      <4> QED
        BY <1>2, <2>1, <4>1 DEF Lost, ItemAt
    <3>3. Loaded \subseteq Loaded' \cup Lost'
      BY <3>2
    <3> QED
      BY <1>2, <1>3, <2>1, <3>1, <3>3, ComingStep, HeardStays
  <2> QED
    BY <2>2, <2>3
\* Who starts anew has passed nothing.
<1>13. ASSUME heard' = <<>>, Loaded' = {} PROVE HeardInv'
  <2>1. Range(<<>>) = {} /\ Increasing(<<>>)
    BY DEF Range, Increasing
  <2>2. Range(heard') = {} /\ Passed' = {}
    BY <1>13, <2>1 DEF Passed
  <2>3. Increasing(heard)'
    BY <1>13, <2>1 DEF Increasing
  <2>4. (Passed \cup Coming)' = Coming'
    BY <2>2
  <2>5. NoGap(Passed \cup Coming)'
    BY <1>4, <2>4 DEF QueueInv, NoGap
  <2> QED
    BY <1>13, <2>2, <2>3, <2>5 DEF HeardInv
<1>14. CASE FlushHook \/ Attach
  BY <1>13, <1>14 DEF FlushHook, Attach, AttachCall, Loaded, HasLoaded
<1>19. CASE AttachRest
  <2>1. UNCHANGED <<todo, audioq, attached, flushing, heard>> /\ apc = "attaching" /\ apc' = "idle"
        /\ ~ready'
    BY <1>19 DEF AttachRest, Proceed, history
  <2>2. Loaded = {} /\ Loaded' = {}
    BY <2>1 DEF Loaded, HasLoaded
  <2>3. Coming' = Coming /\ Current' = Current
    BY <2>1 DEF Coming, Current
  <2> QED
    BY <1>2, <1>3, <2>1, <2>2, <2>3, HeardStays
<1>15. CASE Detached
  <2>1. FeedMoves /\ heard' = heard /\ ~attached'
    BY <1>4, <1>15 DEF Detached, Proceed, FeedMoves, CallInv, history
  <2>2. Loaded' = {} /\ ~Current'
    BY <2>1 DEF Loaded, HasLoaded, Current
  <2> QED
    BY <1>2, <1>3, <2>1, <2>2, HeardStays
\* A buffer that leaves the queue and is not played.
<1>16. ASSUME TakeBuffer, heard' = heard, Loaded' \in {Loaded, {}}, Loaded \subseteq Loaded' \cup Lost',
              Head(audioq) \in Lost'
       PROVE  HeardInv'
  <2>1. audioq # <<>> /\ audioq' = Tail(audioq) /\ UNCHANGED <<todo, flushing, attached, apc>>
    BY <1>16 DEF TakeBuffer
  <2>2. Range(audioq) = {Head(audioq)} \cup Range(Tail(audioq))
    BY <1>1, <2>1, HeadTailRange
  <2>3. Coming' \subseteq Coming /\ Coming \subseteq Coming' \cup Lost'
    BY <1>16, <2>1, <2>2 DEF Coming
  <2>4. Current' = Current
    BY <2>1 DEF Current
  <2> QED
    BY <1>2, <1>3, <1>16, <2>3, <2>4, HeardStays
<1>17. CASE fault = "none" /\ Fetch
  <2>1. CASE UNCHANGED feed
    <3>1. ready' = ready /\ heard' = heard
      BY <1>17 DEF Fetch
    <3>2. audio_buf' = audio_buf
      <4>1. ~TakeBuffer
        <5>1. audioq # <<>> => Len(Tail(audioq)) = Len(audioq) - 1 /\ Len(audioq) \in Nat
          BY <1>1
        <5>2. audioq # <<>> => Tail(audioq) # audioq
          BY <5>1
        <5> QED
          BY <2>1, <5>2 DEF TakeBuffer, feed
      <4> QED
        BY <1>17, <4>1 DEF Fetch
    <3>3. FeedMoves
      BY <2>1 DEF feed, FeedMoves
    <3> QED
      BY <1>5, <3>1, <3>2, <3>3
  <2>2. CASE ~UNCHANGED feed
    <3>1. TakeBuffer /\ audio_buf = Null /\ UNCHANGED <<ready, heard>> /\ tpc = "fetch"
          /\ (ItemAt(Head(audioq)) = End \/ skipped' = skipped \cup {Head(audioq)})
      BY <1>17, <2>2 DEF Fetch
    <3>2. ~ready
      BY <1>4, <1>17, <3>1, StillAttached DEF LoadedInv, HasLoaded
    <3>3. Loaded = {} /\ Loaded' = {}
      BY <3>1, <3>2 DEF Loaded, HasLoaded
    <3>4. Head(audioq) \in T
      BY <1>1, <3>1, HeadTailRange DEF TakeBuffer
    <3>5. Head(audioq) \in Lost'
      <4>1. UNCHANGED <<alive, arg>>
        BY <3>1 DEF TakeBuffer
      <4> QED
        BY <1>1, <1>2, <3>1, <3>4, <4>1 DEF Lost, ItemAt
    <3> QED
      BY <1>16, <3>1, <3>3, <3>5
  <2> QED
    BY <2>1, <2>2
<1>18. CASE fault = "none" /\ Callback
  <2>1. attached /\ apc \notin {"sink_abort", "sink_map", "attaching"}
    BY <1>4, <1>18, StillAttached DEF Callback
  <2>2. CASE PlaySilence
    <3>1. UNCHANGED <<feed, audio_buf, ready, heard>>
      BY <2>2 DEF PlaySilence, head
    <3>2. FeedMoves
      BY <3>1 DEF feed, FeedMoves
    <3> QED
      BY <1>5, <3>1, <3>2
  <2>3. CASE PlayNothing
    <3>1. UNCHANGED <<feed, heard>> /\ ~ready /\ ~ready'
      BY <2>3 DEF PlayNothing
    <3>2. FeedMoves /\ Loaded = {} /\ Loaded' = {}
      BY <3>1 DEF feed, FeedMoves, Loaded, HasLoaded
    <3> QED
      BY <1>2, <1>3, <3>1, <3>2, ComingStep, HeardStays
  <2>4. CASE PlayEnd
    <3>1. TakeBuffer /\ heard' = heard /\ ~ready /\ ~ready' /\ ItemAt(Head(audioq)) = End
      BY <2>4 DEF PlayEnd
    <3>2. Loaded = {} /\ Loaded' = {}
      BY <3>1 DEF Loaded, HasLoaded
    <3>3. Head(audioq) \in T /\ UNCHANGED <<alive, arg>>
      BY <1>1, <3>1, HeadTailRange DEF TakeBuffer
    <3>4. Head(audioq) \in Lost'
      BY <1>1, <1>2, <3>1, <3>3 DEF Lost, ItemAt
    <3> QED
      BY <1>16, <3>1, <3>2, <3>4
  <2>5. CASE PlayLoaded
    <3>1. UNCHANGED feed /\ ready /\ ~ready' /\ heard' = Append(heard, audio_buf)
      BY <2>5 DEF PlayLoaded, Play
    <3>2. Loaded = {audio_buf} /\ Loaded' = {} /\ UNCHANGED <<audioq, todo, flushing, attached, apc>>
      BY <2>1, <3>1 DEF Loaded, HasLoaded, feed
    <3>3. audio_buf \in T
      BY <1>1, <3>2 DEF Passed
    <3>4. Range(Append(heard, audio_buf)) = Range(heard) \cup {audio_buf}
      BY <1>1, <3>3, RangeAppend
    <3>5. Passed' = Passed /\ Coming' = Coming /\ Current' = Current
      BY <3>1, <3>2, <3>4 DEF Passed, Coming, Current
    <3>6. Increasing(Append(heard, audio_buf))
      BY <1>1, <3>2, <3>3, IncreasingAppend DEF HeardInv
    <3>7. Increasing(heard)'
      BY <3>1, <3>6 DEF Increasing
    <3> QED
      BY <1>2, <1>3, <3>2, <3>5, <3>7 DEF HeardInv, NoGap
  <2>6. CASE PlayNext
    <3> DEFINE h == Head(audioq)
    <3>1. /\ TakeBuffer /\ ~ready /\ audio_buf' = h
          /\ \/ heard' = Append(heard, h) /\ ~ready'
             \/ heard' = heard /\ ready'
      BY <2>6 DEF PlayNext, Play
    <3>2. audioq # <<>> /\ audioq' = Tail(audioq) /\ UNCHANGED <<todo, flushing, attached, apc>>
      BY <3>1 DEF TakeBuffer
    <3>3. Current /\ Current'
      BY <1>4, <2>1, <3>2 DEF CallInv, Current
    <3>4. h \in T /\ Range(audioq) = {h} \cup Range(Tail(audioq))
      BY <1>1, <3>2, HeadTailRange
    <3>5. \A q \in Range(Tail(audioq)) : h < q
      BY <1>1, <3>2, TailIncreasing DEF QueueInv
    <3>6. h \in Coming /\ Coming = {h} \cup Coming' /\ \A q \in Coming' : h < q
      BY <3>2, <3>4, <3>5 DEF Coming, QueueInv
    <3>7. Loaded = {} /\ Passed = Range(heard)
      BY <3>1 DEF Loaded, HasLoaded, Passed
    <3> HIDE DEF h
    <3>8. \A p \in Passed : p < h
      BY <3>3, <3>6 DEF HeardInv
    <3>9. Range(Append(heard, h)) = Range(heard) \cup {h} /\ Increasing(Append(heard, h))
      BY <1>1, <3>4, <3>7, <3>8, RangeAppend, IncreasingAppend DEF HeardInv
    <3>10. Increasing(heard)' /\ Passed' = Passed \cup {h}
           /\ \A p \in Range(heard'), q \in Loaded' : p < q
      <4>1. CASE heard' = Append(heard, h) /\ ~ready'
        BY <3>7, <3>9, <4>1 DEF Increasing, Passed, Loaded, HasLoaded
      <4>2. CASE heard' = heard /\ ready'
        <5>1. Loaded' = {h}
          BY <2>1, <3>1, <3>2, <4>2 DEF Loaded, HasLoaded
        <5>2. Increasing(heard)'
          BY <4>2 DEF Increasing, HeardInv
        <5> QED
          BY <3>7, <3>8, <4>2, <5>1, <5>2 DEF Passed
      <4> QED
        BY <3>1, <4>1, <4>2
    <3>11. ASSUME NEW p \in Passed', NEW r \in Passed', NEW q \in T, p < q, q < r
           PROVE  q \in Passed' \cup Lost'
      <4>1. CASE r \in Passed
        <5>1. p \in Passed
          <6>1. p = h => r < p
            BY <3>8, <4>1
          <6>2. p \in Nat /\ q \in Nat /\ r \in Nat
            BY <1>1, <3>4, <3>10, <3>11
          <6> QED
            BY <3>10, <3>11, <6>1, <6>2
        <5> QED
          BY <1>3, <3>10, <3>11, <4>1, <5>1 DEF HeardInv
      <4>2. CASE r = h
        <5>1. p \in Passed \cup Coming
          BY <3>6, <3>10, <3>11
        <5>2. q \in Passed \cup Coming \cup Lost
          BY <3>3, <3>11, <5>1 DEF HeardInv, NoGap
        <5>3. q \notin Coming
          <6>1. q \in Coming' => h < q
            BY <3>6
          <6>2. h \in Nat /\ q \in Nat
            BY <1>1, <3>4, <3>11
          <6> QED
            BY <3>6, <3>11, <4>2, <6>1, <6>2
        <5> QED
          BY <1>3, <3>10, <5>2, <5>3
      <4> QED
        BY <3>10, <3>11, <4>1, <4>2
    <3>12. \A p \in Passed', q \in Coming' : p < q
      BY <3>3, <3>6, <3>10 DEF HeardInv
    <3>13. NoGap(Passed \cup Coming)'
      <4>1. Passed' \cup Coming' = Passed \cup Coming
        BY <3>6, <3>10
      <4> QED
        BY <1>2, <1>3, <3>3, <4>1 DEF HeardInv, NoGap
    <3> QED
      BY <1>2, <3>10, <3>11, <3>12, <3>13 DEF HeardInv
  <2> QED
    BY <1>18, <2>2, <2>3, <2>4, <2>5, <2>6 DEF Callback
<1> QED
  BY <1>6, <1>7, <1>8, <1>9, <1>10, <1>11, <1>12, <1>14, <1>15, <1>17, <1>18, <1>19
     DEF Next, Helper, Continue

LEMMA PlayInit ==
  ASSUME Init
  PROVE  PlayInv
<1> USE DEF Init, FeedInit
<1>1. DevicesInv
  BY DevicesInit
<1>2. setup.feed \in Seq(Item \cup {End}) /\ DOMAIN setup.feed \subseteq Nat
  <2>1. setup.feed \in Seq(Item \cup {End})
    BY TypeInit
  <2> QED
    BY <2>1
<1>3. Range(<<>>) = {} /\ Increasing(<<>>)
  BY DEF Range, Increasing
<1>4. Range(todo) = DOMAIN setup.feed /\ Increasing(todo)
  BY <1>2 DEF Range, Increasing
<1>5. Range(audioq) = {} /\ Range(heard) = {} /\ Loaded = {}
  BY <1>3 DEF Loaded, HasLoaded
<1>6. Coming = DOMAIN setup.feed /\ Passed = {}
  BY <1>4, <1>5 DEF Coming, Passed
<1>7. QueueInv
  BY <1>3, <1>4, <1>5, <1>6 DEF QueueInv, NoGap
<1>8. HeardInv
  BY <1>3, <1>5, <1>6 DEF HeardInv, NoGap
<1> QED
  BY <1>1, <1>7, <1>8 DEF PlayInv

(***************************************************************************)
(* What is heard since the last flush is the playlist in its order; only    *)
(* what the helper took to learn a format, and what was removed, is left    *)
(* out: through seeks, removals, underruns and devices opened anew, as long  *)
(* as the decoder has not strayed.                                         *)
(***************************************************************************)
THEOREM HeardInOrderAlways == Spec => []HeardInOrder
<1>1. Init => PlayInv
  BY PlayInit
<1>2. PlayInv /\ [Next]_vars => PlayInv'
  <2>1. ASSUME PlayInv, Next \/ UNCHANGED vars PROVE PlayInv'
    <3>1. DevicesInv'
      BY <2>1, DevicesStep DEF PlayInv
    <3>2. setup' = setup
      BY <2>1, FeedStep, SetupStays
    <3>3. ASSUME ~setup.strays PROVE QueueInv' /\ HeardInv'
      BY <2>1, <3>3, FeedStep, SkippedGrows, QueueStep, OrderStep DEF PlayInv
    <3> QED
      BY <3>1, <3>2, <3>3 DEF PlayInv
  <2> QED
    BY <2>1
<1>3. PlayInv => HeardInOrder
  <2>1. SUFFICES ASSUME PlayInv, ~setup.strays, NEW k \in 1 .. Len(heard) - 1
                 PROVE  /\ heard[k] < heard[k + 1]
                        /\ \A p \in heard[k] + 1 .. heard[k + 1] - 1 :
                             p \in skipped \/ ItemAt(p) \notin alive \ {arg}
    BY DEF HeardInOrder
  <2>2. DevicesInv /\ HeardInv
    BY <2>1 DEF PlayInv
  <2>3. heard \in Seq(DOMAIN setup.feed) /\ setup.feed \in Seq(Item \cup {End})
        /\ DOMAIN setup.feed \subseteq Nat
    BY <2>2, Places1
  <2>4. Len(heard) \in Nat /\ DOMAIN heard = 1 .. Len(heard) /\ DOMAIN setup.feed = 1 .. Len(setup.feed)
        /\ Len(setup.feed) \in Nat
    BY <2>3
  <2>5. k \in DOMAIN heard /\ k + 1 \in DOMAIN heard /\ k < k + 1
    BY <2>4
  <2>6. heard[k] < heard[k + 1] /\ heard[k] \in DOMAIN setup.feed /\ heard[k + 1] \in DOMAIN setup.feed
    BY <2>2, <2>3, <2>5 DEF HeardInv, Increasing
  <2>7. heard[k] \in Passed /\ heard[k + 1] \in Passed
    BY <2>5 DEF Passed, Range
  <2>8. ASSUME NEW p \in heard[k] + 1 .. heard[k + 1] - 1
        PROVE  p \in skipped \/ ItemAt(p) \notin alive \ {arg}
    <3>1. p \in DOMAIN setup.feed /\ heard[k] < p /\ p < heard[k + 1]
      BY <2>4, <2>6, <2>8
    <3>2. p \in Passed \cup Lost
      BY <2>2, <2>7, <3>1 DEF HeardInv
    <3>3. p \notin Loaded
      <4>1. p \in Loaded => heard[k + 1] < p
        BY <2>2, <2>5 DEF HeardInv, Range
      <4>2. p \in Nat /\ heard[k + 1] \in Nat
        BY <2>3, <2>6, <3>1
      <4> QED
        BY <3>1, <4>1, <4>2
    <3>4. p \notin Range(heard)
      <4>1. ASSUME NEW j \in DOMAIN heard, heard[j] = p PROVE FALSE
        <5>1. heard[j] \in Nat /\ heard[k] \in Nat /\ heard[k + 1] \in Nat
          BY <2>3, <2>6, <3>1, <4>1
        <5>2. ~(j < k) /\ j # k
          <6>1. j < k => heard[j] < heard[k]
            BY <2>2, <2>5 DEF HeardInv, Increasing
          <6> QED
            BY <3>1, <4>1, <5>1, <6>1
        <5>3. ~(k + 1 < j) /\ j # k + 1
          <6>1. k + 1 < j => heard[k + 1] < heard[j]
            BY <2>2, <2>5 DEF HeardInv, Increasing
          <6> QED
            BY <3>1, <4>1, <5>1, <6>1
        <5> QED
          BY <2>4, <2>5, <5>2, <5>3
      <4> QED
        BY <4>1 DEF Range
    <3> QED
      BY <3>2, <3>3, <3>4 DEF Passed, Lost
  <2> QED
    BY <2>6, <2>8
<1> QED
  BY <1>1, <1>2, <1>3, PTL DEF Spec
================================================================================
