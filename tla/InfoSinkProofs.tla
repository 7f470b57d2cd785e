------------------------------ MODULE InfoSinkProofs -----------------------------
(***************************************************************************)
(* The three sinks of InfoSink, whatever the playlist, the sizes of the two *)
(* queues and the calls of the application: info_queue keeps to its bound,  *)
(* no item is referred to after it is freed, and, left alone, what goes     *)
(* into info_queue is the items in their order.                            *)
(***************************************************************************)
EXTENDS InfoSink, KeepSeqProofs

--------------------------------------------------------------------------------
(* How much there is in info_queue.                                        *)

CallPc   == {"idle", "purge_hook", "free", "sink_abort", "sink_map", "detached", "info_aborted", "join"}
ThreadPc == {"start", "check", "loop", "lock", "sleep", "asleep", "woken", "get", "got", "done"}

\* Where the call is, and that the thread has ended when a detach is over.
CallInv ==
  /\ apc \in CallPc
  /\ arg # Null <=> apc \in {"purge_hook", "free"}
  /\ apc \in {"purge_hook", "sink_abort", "sink_map"} => attached
  /\ ~attached => ~flushing
  /\ ~attached /\ apc \in {"idle", "free"} => tpc = "done"

\* The thread has seen room for one info before it takes a buffer, and nothing
\* but the thread fills info_queue.
QueueInv ==
  /\ info_count = Len(info_queue)
  /\ info_count <= InfoSize + 1
  /\ tpc \in {"get", "got"} => info_count < InfoSize

BoundInv ==
  /\ TypeOK /\ CallInv
  /\ tpc \in ThreadPc
  /\ IF tpc = "got" THEN buffer \in Item \cup {End} ELSE buffer = Null
  /\ QueueInv

LEMMA FeedTypeStep ==
  ASSUME FeedTypeOK, Next \/ UNCHANGED vars
  PROVE  FeedTypeOK'
<1> USE DEF FeedTypeOK
<1> DEFINE Q == Seq(DOMAIN setup.feed)
<1>1. CASE UNCHANGED feed
  BY <1>1 DEF feed
<1>2. ASSUME NEW n, DeliverBuffer(n) PROVE FeedTypeOK'
  <2>1. todo # <<>>
    BY <1>2 DEF DeliverBuffer
  <2>2. Head(todo) \in DOMAIN setup.feed /\ Tail(todo) \in Q
    BY <2>1, HeadTailRange
  <2>3. Append(audioq, Head(todo)) \in Q
    BY <2>2, AppendProperties
  <2> QED
    BY <1>2, <2>2, <2>3 DEF DeliverBuffer
<1>3. CASE TakeBuffer
  <2>1. audioq # <<>>
    BY <1>3 DEF TakeBuffer
  <2>2. Tail(audioq) \in Q
    BY <2>1, HeadTailRange
  <2> QED
    BY <1>3, <2>2 DEF TakeBuffer
<1>4. ASSUME NEW i \in Item, RemoveBegin(i) \/ RemoveStraggling(i) PROVE FeedTypeOK'
  <2>1. Without(todo, i) \in Q
    BY KeepType DEF Without
  <2>2. Without(audioq, i) \in Q
    BY KeepType DEF Without
  <2>3. RemoveStraggling(i) => <<Head(todo)>> \o Without(Tail(todo), i) \in Q
    <3> SUFFICES ASSUME RemoveStraggling(i) PROVE <<Head(todo)>> \o Without(Tail(todo), i) \in Q
      OBVIOUS
    <3>1. todo # <<>>
      BY DEF RemoveStraggling
    <3>2. Head(todo) \in DOMAIN setup.feed /\ Tail(todo) \in Q
      BY <3>1, HeadTailRange
    <3>3. Without(Tail(todo), i) \in Q
      BY <3>2, KeepType DEF Without
    <3>4. ASSUME NEW T, NEW x \in T PROVE <<x>> \in Seq(T)
      OBVIOUS
    <3>5. <<Head(todo)>> \in Q
      BY <3>2, <3>4
    <3> QED
      BY <3>3, <3>5, ConcatProperties
  <2> QED
    BY <1>4, <2>1, <2>2, <2>3 DEF RemoveBegin, RemoveStraggling, RemoveCall
<1>5. CASE RemoveEnd
  BY <1>5 DEF RemoveEnd
<1>6. ASSUME NEW p \in setup.seekTo, SeekBegin(p) PROVE FeedTypeOK'
  <2> DEFINE rest == [k \in 1 .. Len(setup.feed) - p + 1 |-> p + k - 1]
  <2>1. setup.feed \in Seq(Item \cup {End}) /\ p \in DOMAIN setup.feed
    BY FeedAssumption
  <2>2. DOMAIN setup.feed = 1 .. Len(setup.feed) /\ Len(setup.feed) \in Nat
    BY <2>1
  <2>3. rest \in Q
    <3>1. p \in 1 .. Len(setup.feed) /\ Len(setup.feed) - p + 1 \in Nat
      BY <2>1, <2>2
    <3>2. \A k \in 1 .. Len(setup.feed) - p + 1 : p + k - 1 \in 1 .. Len(setup.feed)
      BY <3>1, <2>2
    <3> QED
      BY <3>1, <3>2, <2>2, IsASeq
  <2>4. Keep(rest, Listed) \in Q
    BY <2>3, KeepType
  <2>5. <<>> \in Q
    OBVIOUS
  <2> HIDE DEF rest
  <2> QED
    BY <1>6, <2>4, <2>5 DEF SeekBegin, rest
<1>7. CASE SeekEnd
  BY <1>7 DEF SeekEnd
<1>8. CASE DetachCall("sink_abort")
  BY <1>8 DEF DetachCall
<1>9. CASE SinkAbort \/ SinkUnmap
  <2>1. <<>> \in Q
    OBVIOUS
  <2> QED
    BY <1>9, <2>1 DEF SinkAbort, SinkUnmap
<1>10. CASE AttachCall("idle")
  BY <1>10 DEF AttachCall
<1>11. ASSUME NEW from, NEW to, Proceed(from, to) PROVE FeedTypeOK'
  BY <1>11 DEF Proceed
<1> HIDE DEF FeedTypeOK
<1>12. CASE UNCHANGED vars
  BY <1>12, <1>1 DEF vars
<1>13. CASE Thread \/ SpuriousWake \/ InfoGet
  BY <1>13, <1>1, <1>3
     DEF Thread, ThreadStart, Check, Lock, Loop, Sleep, Woken, GetBuffer, GetAborted, Analyse,
         SpuriousWake, InfoGet
<1>14. CASE Deliver \/ Continue
  BY <1>14, <1>2, <1>5, <1>7, <1>9, <1>11
     DEF Deliver, Continue, PurgeHook, RemoveFree, FlushHook, DetachSink, DetachInfos,
         DetachSignal, Joined
<1>15. CASE (\E i \in Item : RemoveItem(i)) \/ \E p \in setup.seekTo : Seek(p)
  BY <1>15, <1>4, <1>6 DEF RemoveItem, Seek
<1>16. CASE DetachBegin \/ Attach
  BY <1>16, <1>8, <1>10 DEF DetachBegin, Attach
<1> QED
  BY <1>12, <1>13, <1>14, <1>15, <1>16 DEF Next

LEMMA FinishedType ==
  ASSUME TypeOK
  PROVE  Finished \in Seq(Info) /\ Len(Finished) \in {0, 1}
<1>1. \A l \in Item \cup {Null} : Track(l) \in Info
  BY DEF TypeOK, Track, Info
<1>2. \A x \in Info : <<x>> \in Seq(Info) /\ Len(<<x>>) = 1
  OBVIOUS
<1>3. <<>> \in Seq(Info) /\ Len(<<>>) = 0
  OBVIOUS
<1>4. (IF kind = "waveform" THEN cur ELSE info_head) \in Item \cup {Null}
  BY DEF TypeOK
<1>5. CASE Finished = <<>>
  BY <1>3, <1>5
<1>6. CASE Finished # <<>>
  BY <1>1, <1>2, <1>4, <1>6 DEF Finished
<1> QED
  BY <1>5, <1>6

\* What the end of the playlist puts in the queue.
EndInfos == (IF kind = "waveform" THEN Finished ELSE <<Track(info_head)>>) \o <<TheEnd>>

LEMMA EndInfosType ==
  ASSUME TypeOK
  PROVE  EndInfos \in Seq(Info) /\ Len(EndInfos) \in {1, 2}
<1> DEFINE first == IF kind = "waveform" THEN Finished ELSE <<Track(info_head)>>
<1>1. Track(info_head) \in Info /\ TheEnd \in Info
  BY DEF TypeOK, Track, TheEnd, Info
<1>2. \A x \in Info : <<x>> \in Seq(Info) /\ Len(<<x>>) = 1
  OBVIOUS
<1>3. first \in Seq(Info) /\ Len(first) \in {0, 1}
  BY <1>1, <1>2, FinishedType
<1>4. <<TheEnd>> \in Seq(Info) /\ Len(<<TheEnd>>) = 1
  BY <1>1, <1>2
<1>a. EndInfos = first \o <<TheEnd>>
  BY DEF EndInfos
<1> HIDE DEF first
<1>5. first \o <<TheEnd>> \in Seq(Info) /\ Len(first \o <<TheEnd>>) = Len(first) + Len(<<TheEnd>>)
  BY <1>3, <1>4, ConcatProperties
<1> QED
  BY <1>3, <1>4, <1>5, <1>a

LEMMA PutGrows ==
  ASSUME info_queue \in Seq(Info), info_count = Len(info_queue), NEW new \in Seq(Info), Put(new)
  PROVE  /\ info_queue' \in Seq(Info) /\ info_count' = Len(info_queue')
         /\ info_count' = info_count + Len(new)
<1>1. info_queue \o new \in Seq(Info)
  BY ConcatProperties
<1>2. Len(info_queue \o new) = Len(info_queue) + Len(new)
  BY ConcatProperties
<1> QED
  BY <1>1, <1>2 DEF Put

LEMMA BoundInit ==
  ASSUME Init
  PROVE  BoundInv
<1> USE DEF Init, FeedInit
<1>1. setup.feed \in Seq(Item \cup {End}) /\ setup.room \in Nat /\ setup \in Setups
  BY FeedAssumption
<1>2. DOMAIN setup.feed = 1 .. Len(setup.feed) /\ Len(setup.feed) \in Nat
  BY <1>1
<1>3. [p \in DOMAIN setup.feed |-> p] \in Seq(DOMAIN setup.feed)
  <2>1. \A n \in Nat : [p \in 1 .. n |-> p] \in Seq(1 .. n)
    BY IsASeq
  <2> QED
    BY <1>2, <2>1
<1>4. <<>> \in Seq(DOMAIN setup.feed) /\ <<>> \in Seq(Info) /\ Len(<<>>) = 0
  OBVIOUS
<1>5. Range(setup.feed) \ {End} \subseteq Item
  BY <1>1 DEF Range
<1>6. TypeOK
  BY <1>1, <1>3, <1>4, <1>5 DEF TypeOK, FeedTypeOK
<1>7. tpc \in ThreadPc /\ tpc \notin {"get", "got"}
  BY DEF ThreadPc, Start
<1> QED
  BY <1>1, <1>4, <1>6, <1>7, NullAssumption DEF BoundInv, QueueInv, InfoSize, CallInv, CallPc

LEMMA CallStep ==
  ASSUME CallInv, Next \/ UNCHANGED vars
  PROVE  CallInv'
<1> USE DEF CallInv, CallPc
<1>1. CASE UNCHANGED vars
  BY <1>1 DEF vars, feed, thread
<1>2. CASE Thread
  <2>1. tpc # "done"
    BY <1>2 DEF Thread, ThreadStart, Check, Lock, Loop, Sleep, Woken, GetBuffer, GetAborted, Analyse
  <2>2. UNCHANGED <<apc, arg, attached, flushing>>
    BY <1>2 DEF Thread, ThreadStart, Check, Lock, Loop, Sleep, Woken, GetBuffer, GetAborted, Analyse,
                TakeBuffer, feed
  <2> QED
    BY <2>1, <2>2
<1>3. CASE SpuriousWake \/ InfoGet
  BY <1>3 DEF SpuriousWake, InfoGet, SignalDrain, feed
<1>4. CASE Deliver \/ DetachSink
  BY <1>4 DEF Deliver, DeliverBuffer, DetachSink, SinkAbort, SinkUnmap, DecoderFree, thread
<1>5. ASSUME NEW i \in Item, RemoveItem(i) PROVE CallInv'
  BY <1>5, NullAssumption DEF RemoveItem, RemoveBegin, RemoveStraggling, RemoveCall, May, thread
<1>6. CASE PurgeHook \/ RemoveFree
  BY <1>6 DEF PurgeHook, RemoveFree, RemoveEnd, Proceed, SignalDrain, thread
<1>7. ASSUME NEW p \in setup.seekTo, Seek(p) PROVE CallInv'
  BY <1>7 DEF Seek, SeekBegin, thread
<1>8. CASE FlushHook
  BY <1>8 DEF FlushHook, SeekEnd, SignalDrain
<1>9. CASE DetachBegin \/ Attach
  BY <1>9 DEF DetachBegin, DetachCall, May, SignalDrain, Attach, AttachCall
<1>10. CASE DetachInfos \/ DetachSignal \/ Joined
  BY <1>10 DEF DetachInfos, DetachSignal, Joined, Proceed, SignalDrain, thread
<1> QED
  BY <1>1, <1>2, <1>3, <1>4, <1>5, <1>6, <1>7, <1>8, <1>9, <1>10 DEF Next, Continue

LEMMA SetupKept ==
  ASSUME Next \/ UNCHANGED vars
  PROVE  setup' = setup /\ kind' = kind
BY DEF Next, vars, feed, Thread, ThreadStart, Check, Lock, Loop, Sleep, Woken, GetBuffer,
         GetAborted, Analyse, SpuriousWake, InfoGet, Deliver, Continue, PurgeHook, RemoveFree,
         FlushHook, DetachSink, DetachInfos, DetachSignal, Joined, RemoveItem, Seek, DetachBegin,
         Attach, DeliverBuffer, TakeBuffer, RemoveBegin, RemoveStraggling, RemoveCall, RemoveEnd,
         SeekBegin, SeekEnd, DetachCall,
         SinkAbort, SinkUnmap, AttachCall, Proceed

LEMMA BoundStep ==
  ASSUME BoundInv, Next \/ UNCHANGED vars
  PROVE  BoundInv'
<1>1. FeedTypeOK' /\ CallInv'
  BY FeedTypeStep, CallStep DEF BoundInv, TypeOK
<1>2. setup' = setup
  BY SetupKept
<1>3. setup.room \in Nat
  BY FeedAssumption DEF BoundInv, TypeOK, FeedTypeOK
<1>4. info_queue \in Seq(Info) /\ info_count = Len(info_queue) /\ Len(info_queue) \in Nat
  <2>1. info_queue \in Seq(Info) /\ info_count = Len(info_queue)
    BY DEF BoundInv, TypeOK, QueueInv
  <2> QED
    BY <2>1, LenProperties
<1>5. <<>> \in Seq(Info) /\ Len(<<>>) = 0
  OBVIOUS
\* What is left to show of the types, and what of the queue follows at once.
<1> DEFINE Rest ==
      /\ kind \in Kinds /\ mutex \in {"free", "thread"}
      /\ buffer \in Item \cup {Null, End}
      /\ info_head \in Item \cup {Null} /\ cur \in Item \cup {Null}
      /\ late \in BOOLEAN /\ fault \in {"none", "freed item", "null info"}
      /\ tpc \in ThreadPc
      /\ IF tpc = "got" THEN buffer \in Item \cup {End} ELSE buffer = Null
<1>6. Rest
  BY DEF BoundInv, TypeOK
<1>7. SUFFICES Rest' /\ info_queue' \in Seq(Info) /\ QueueInv'
  BY <1>1 DEF BoundInv, TypeOK
<1>8. ASSUME UNCHANGED infos, tpc' \in {"get", "got"} => tpc \in {"get", "got"} \/ ~Full
      PROVE  info_queue' \in Seq(Info) /\ QueueInv'
  BY <1>2, <1>3, <1>4, <1>8 DEF infos, QueueInv, Full, InfoSize, BoundInv
<1>9. ASSUME info_queue' \in Seq(Info), info_count' = Len(info_queue'), info_count' <= info_count,
             tpc' \in {"get", "got"} => tpc \in {"get", "got"}
      PROVE  QueueInv'
  <2>1. info_count' \in Nat /\ info_count \in Nat
    BY <1>4, <1>9
  <2> QED
    BY <1>2, <1>3, <1>9, <2>1 DEF QueueInv, InfoSize, BoundInv
<1>10. CASE UNCHANGED vars
  BY <1>6, <1>8, <1>10 DEF vars, thread, analysis, infos, history
<1>11. CASE ThreadStart \/ Check \/ Lock \/ Loop \/ Sleep \/ Woken \/ GetAborted
  <2>1. UNCHANGED infos /\ (tpc' \in {"get", "got"} => tpc \in {"get", "got"} \/ ~Full)
    BY <1>11 DEF ThreadStart, Check, Lock, Loop, LoopPc, Sleep, Woken, GetAborted
  <2>2. Rest'
    BY <1>6, <1>11 DEF ThreadStart, Check, Lock, Loop, LoopPc, Sleep, Woken, GetAborted, analysis,
                       history, ThreadPc
  <2> QED
    BY <1>8, <2>1, <2>2
<1>12. CASE GetBuffer
  <2>1. audioq # <<>> /\ audioq \in Seq(DOMAIN setup.feed)
    BY <1>12 DEF GetBuffer, TakeBuffer, BoundInv, TypeOK, FeedTypeOK
  <2>2. Head(audioq) \in DOMAIN setup.feed
    BY <2>1, HeadTailRange
  <2>3. setup.feed \in Seq(Item \cup {End})
    BY FeedAssumption DEF BoundInv, TypeOK, FeedTypeOK
  <2>4. ItemAt(Head(audioq)) \in Item \cup {End}
    BY <2>2, <2>3 DEF ItemAt
  <2>5. Rest'
    BY <1>6, <1>12, <2>4 DEF GetBuffer, analysis, history, ThreadPc
  <2>6. UNCHANGED infos /\ tpc = "get"
    BY <1>12 DEF GetBuffer
  <2> QED
    BY <1>8, <2>5, <2>6
<1>13. CASE Analyse
  <2>1. tpc = "got" /\ buffer \in Item \cup {End} /\ tpc' \in {"check", "loop"} /\ buffer' = Null
    BY <1>6, <1>13 DEF Analyse, LoopPc
  <2>2. info_count < InfoSize
    BY <2>1 DEF BoundInv, QueueInv
  <2>3. PICK put \in Seq(Info) : Put(put) /\ Len(put) \in {0, 1, 2}
    <3>1. CASE buffer = End
      <4>1. Put(EndInfos)
        BY <1>13, <3>1 DEF Analyse, AnalyseEnd, EndInfos
      <4>2. EndInfos \in Seq(Info) /\ Len(EndInfos) \in {1, 2}
        BY EndInfosType DEF BoundInv
      <4> QED
        BY <4>1, <4>2
    <3>2. CASE buffer # End
      <4> DEFINE w == IF NewItem THEN Finished ELSE <<>>
      <4>1. Put(w)
        BY <1>13, <3>2 DEF Analyse, AnalyseBuffer
      <4>2. Finished \in Seq(Info) /\ Len(Finished) \in {0, 1}
        BY FinishedType DEF BoundInv
      <4>3. w \in Seq(Info) /\ Len(w) \in {0, 1}
        BY <1>5, <4>2
      <4> HIDE DEF w
      <4> QED
        BY <4>1, <4>3
    <3> QED
      BY <3>1, <3>2
  <2>4. info_queue' \in Seq(Info) /\ info_count' = Len(info_queue') /\ info_count' = info_count + Len(put)
    BY <1>4, <2>3, PutGrows
  <2>5. PICK n \in {0, 1, 2} : n = Len(put)
    BY <2>3
  <2>8. info_count' <= setup.room + 1
    <3>1. \A a, r \in Nat : \A b \in {0, 1, 2} : a < r => a + b <= r + 1
      OBVIOUS
    <3>2. info_count \in Nat /\ info_count < setup.room /\ info_count' = info_count + n
      BY <1>4, <2>2, <2>4, <2>5 DEF InfoSize
    <3> QED
      BY <1>3, <3>1, <3>2
  <2>9. QueueInv'
    BY <1>2, <2>1, <2>4, <2>8 DEF QueueInv, InfoSize
  <2>6. info_head' \in Item \cup {Null} /\ cur' \in Item \cup {Null}
    BY <1>6, <1>13, <2>1, KindsAssumption DEF Analyse, AnalyseBuffer, AnalyseEnd
  <2>7. Rest'
    BY <1>6, <1>13, <2>1, <2>6 DEF Analyse, ThreadPc
  <2> QED
    BY <2>4, <2>7, <2>9
<1>14. CASE SpuriousWake
  BY <1>6, <1>8, <1>14 DEF SpuriousWake, SignalDrain, analysis, infos, history, ThreadPc
<1>15. CASE InfoGet
  <2>1. info_queue # <<>> /\ info_queue' = Tail(info_queue) /\ info_count' = info_count - 1
    BY <1>15 DEF InfoGet
  <2>2. Tail(info_queue) \in Seq(Info) /\ Len(Tail(info_queue)) = Len(info_queue) - 1
    BY <1>4, <2>1, HeadTailRange
  <2>3. tpc' \in {tpc, "woken"} /\ (tpc' # tpc => tpc = "asleep")
    BY <1>15 DEF InfoGet, SignalDrain
  <2>4. Rest'
    BY <1>6, <1>15, <2>3 DEF InfoGet, analysis, history, ThreadPc
  <2>5. info_queue' \in Seq(Info) /\ info_count' = Len(info_queue') /\ info_count' <= info_count
    BY <1>4, <2>1, <2>2
  <2> QED
    BY <1>9, <2>3, <2>4, <2>5
<1>16. CASE Deliver \/ RemoveFree \/ DetachSink \/ Joined
  <2>1. UNCHANGED <<infos, tpc, buffer, mutex, kind, late, fault>>
    BY <1>16 DEF Deliver, RemoveFree, DetachSink, Joined, thread, history
  <2>2. info_head' \in {info_head, Null} /\ cur' \in {cur, Null}
    BY <1>16 DEF Deliver, RemoveFree, DetachSink, Joined, analysis
  <2> QED
    BY <1>6, <1>8, <2>1, <2>2
<1>17. CASE Attach
  <2>1. tpc = "done" /\ tpc' \in {"check", "start"}
    BY <1>17 DEF Attach, AttachCall, May, Start, BoundInv, CallInv
  <2>2. Rest'
    BY <1>6, <1>17, <2>1 DEF Attach, analysis, history, ThreadPc
  <2> QED
    BY <1>8, <1>17, <2>1, <2>2 DEF Attach
<1>18. ASSUME NEW i \in Item, RemoveItem(i) PROVE Rest' /\ info_queue' \in Seq(Info) /\ QueueInv'
  BY <1>6, <1>8, <1>18 DEF RemoveItem, thread, analysis, infos
<1>19. ASSUME NEW p \in setup.seekTo, Seek(p) PROVE Rest' /\ info_queue' \in Seq(Info) /\ QueueInv'
  BY <1>6, <1>8, <1>19 DEF Seek, thread, analysis, infos, history
<1>20. CASE PurgeHook
  <2> DEFINE kept    == {f \in Info : f.item # arg}
             dropped == {f \in Info : f.item = arg}
  <2>1. \A f \in Info : f \in kept <=> f \notin dropped
    OBVIOUS
  <2>2. info_queue' = Keep(info_queue, kept)
        /\ info_count' = info_count - Len(Keep(info_queue, dropped))
    BY <1>20 DEF PurgeHook
  <2> HIDE DEF kept, dropped
  <2>3. Keep(info_queue, kept) \in Seq(Info)
    BY <1>4, KeepType
  <2>4. Keep(info_queue, dropped) \in Seq(Info)
    BY <1>4, KeepType
  <2>5. Len(Keep(info_queue, kept)) + Len(Keep(info_queue, dropped)) = Len(info_queue)
    BY <1>4, <2>1, KeepLen
  <2>6. Len(Keep(info_queue, kept)) \in Nat /\ Len(Keep(info_queue, dropped)) \in Nat
    BY <2>3, <2>4
  <2>7. info_queue' \in Seq(Info) /\ info_count' = Len(info_queue') /\ info_count' <= info_count
    BY <1>4, <2>2, <2>3, <2>5, <2>6
  <2>8. Rest' /\ (tpc' \in {"get", "got"} => tpc \in {"get", "got"})
    BY <1>6, <1>20 DEF PurgeHook, SignalDrain, ThreadPc
  <2> QED
    BY <1>9, <2>7, <2>8
<1>21. CASE FlushHook \/ DetachInfos
  <2>1. info_queue' = <<>> /\ info_count' = info_count - Len(info_queue)
    BY <1>21 DEF FlushHook, DetachInfos
  <2>2. info_queue' \in Seq(Info) /\ info_count' = Len(info_queue') /\ info_count' <= info_count
    BY <1>4, <1>5, <2>1
  <2>3. Rest' /\ (tpc' \in {"get", "got"} => tpc \in {"get", "got"})
    BY <1>6, <1>21 DEF FlushHook, DetachInfos, SignalDrain, ThreadPc, thread, analysis, history
  <2> QED
    BY <1>9, <2>2, <2>3
<1>22. CASE DetachSignal \/ DetachBegin
  <2>1. UNCHANGED infos /\ tpc' \in {tpc, "woken"} /\ (tpc' # tpc => tpc = "asleep")
    BY <1>22 DEF DetachSignal, DetachBegin, SignalDrain
  <2>2. Rest'
    BY <1>6, <1>22, <2>1 DEF DetachSignal, DetachBegin, analysis, history, ThreadPc
  <2> QED
    BY <1>8, <2>1, <2>2
<1> QED
  BY <1>10, <1>11, <1>12, <1>13, <1>14, <1>15, <1>16, <1>17, <1>18, <1>19, <1>20, <1>21, <1>22
     DEF Next, Thread, Continue

(***************************************************************************)
(* info_queue holds at most one info more than its size, and info_count,    *)
(* by which the thread stops, is its length.                               *)
(***************************************************************************)
THEOREM InfosAreBounded == Spec => []InfosBounded
<1>1. Init => BoundInv
  BY BoundInit
<1>2. BoundInv /\ [Next]_vars => BoundInv'
  BY BoundStep
<1>3. BoundInv => InfosBounded
  BY DEF BoundInv, QueueInv, InfosBounded
<1> QED
  BY <1>1, <1>2, <1>3, PTL DEF Spec, SafeSpec

--------------------------------------------------------------------------------
(* What refers to an item.                                                 *)

\* The items that no part of the sink may refer to: those that are freed, and
\* the one that is about to be, once the hook is done with it.
Gone == {i \in Item : i \notin alive \/ (i = arg /\ apc = "free")}

\* A removed item leaves the playlist and the sink's queue first, so that what
\* the thread takes later is not of it;
PlacesInv == Range(todo) \cup Range(audioq) \subseteq Listed

\* then the hook takes it from the rest of the sink,
RefsInv ==
  /\ buffer \notin Gone /\ info_head \notin Gone
  /\ kind # "waveform" => \A f \in Range(info_queue) : f.item \notin Gone

\* and where no hook will come there is nothing for it to do.
HeadInv == ~attached /\ apc \in {"idle", "free"} => info_head = Null

PurgeInv ==
  /\ BoundInv /\ HeadInv
  /\ ~late => fault # "freed item" /\ PlacesInv /\ RefsInv

LEMMA PurgeInit ==
  ASSUME Init
  PROVE  PurgeInv
<1> USE DEF Init, FeedInit
<1>1. setup.feed \in Seq(Item \cup {End})
  BY FeedAssumption
<1>2. Range(todo) \subseteq DOMAIN setup.feed /\ Range(audioq) = {} /\ Range(info_queue) = {}
  BY DEF Range
<1>3. \A p \in DOMAIN setup.feed : p \in Listed
  BY <1>1, NullAssumption DEF Listed, ItemAt, Range
<1>4. Null \notin Gone
  BY NullAssumption DEF Gone
<1> QED
  BY <1>2, <1>3, <1>4, BoundInit DEF PurgeInv, HeadInv, PlacesInv, RefsInv

LEMMA PlacesStep ==
  ASSUME BoundInv, PlacesInv, Next \/ UNCHANGED vars, ~late'
  PROVE  PlacesInv'
<1> DEFINE T == DOMAIN setup.feed
<1>1. /\ todo \in Seq(T) /\ audioq \in Seq(T)
      /\ alive \subseteq Item
      /\ setup.feed \in Seq(Item \cup {End}) /\ setup.seekTo \subseteq T
  BY FeedAssumption DEF BoundInv, TypeOK, FeedTypeOK
<1>2. \A p \in T : ItemAt(p) \in Item \cup {End}
  BY <1>1 DEF ItemAt
<1>3. ASSUME UNCHANGED <<setup, todo, audioq, alive, arg>> PROVE PlacesInv'
  BY <1>3 DEF PlacesInv, Listed, ItemAt
<1>4. CASE UNCHANGED vars
  BY <1>3, <1>4 DEF vars, feed
<1>5. CASE Deliver
  <2>1. todo # <<>> /\ todo' = Tail(todo) /\ audioq' = Append(audioq, Head(todo))
        /\ UNCHANGED <<setup, alive, arg>>
    BY <1>5 DEF Deliver, DeliverBuffer
  <2>2. Head(todo) \in T /\ Range(todo) = {Head(todo)} \cup Range(Tail(todo))
    BY <1>1, <2>1, HeadTailRange
  <2>3. Range(Append(audioq, Head(todo))) = Range(audioq) \cup {Head(todo)}
    BY <1>1, <2>2, RangeAppend
  <2>4. Range(todo') \cup Range(audioq') = Range(todo) \cup Range(audioq)
    BY <2>1, <2>2, <2>3
  <2> QED
    BY <2>1, <2>4 DEF PlacesInv, Listed, ItemAt
<1>6. CASE GetBuffer
  <2>1. audioq # <<>> /\ audioq' = Tail(audioq) /\ UNCHANGED <<setup, todo, alive, arg>>
    BY <1>6 DEF GetBuffer, TakeBuffer
  <2>2. Range(Tail(audioq)) \subseteq Range(audioq)
    BY <1>1, <2>1, HeadTailRange
  <2> QED
    BY <2>1, <2>2 DEF PlacesInv, Listed, ItemAt
<1>7. ASSUME NEW i \in Item, RemoveItem(i) PROVE PlacesInv'
  <2> DEFINE others == {p \in T : ItemAt(p) # i}
  <2>1. /\ todo' = Keep(todo, others)
        /\ audioq' = IF attached THEN Keep(audioq, others) ELSE audioq
        /\ attached \/ ~LeftBehind(i)
        /\ arg = Null /\ arg' = i
        /\ UNCHANGED <<setup, alive>>
    BY <1>7 DEF RemoveItem, RemoveBegin, RemoveStraggling, RemoveCall, Without, May, BoundInv, CallInv
  <2>2. Range(Keep(todo, others)) = Range(todo) \cap others
    BY <1>1, KeepRange
  <2>3. Range(Keep(audioq, others)) = Range(audioq) \cap others
    BY <1>1, KeepRange
  <2>4. Range(audioq) \subseteq T
    BY <1>1 DEF Range
  <2>5. Range(audioq') \subseteq Range(audioq) \cap others
    BY <2>1, <2>3, <2>4 DEF LeftBehind
  <2>6. Listed \cap others \subseteq Listed'
    BY <2>1 DEF Listed, ItemAt
  <2> HIDE DEF others
  <2> QED
    BY <2>1, <2>2, <2>5, <2>6 DEF PlacesInv
<1>8. CASE RemoveFree
  <2>1. Listed \subseteq Listed' /\ UNCHANGED <<todo, audioq>>
    BY <1>1, <1>8, NullAssumption DEF RemoveFree, RemoveEnd, Listed, ItemAt
  <2> QED
    BY <2>1 DEF PlacesInv
<1>9. ASSUME NEW p \in setup.seekTo, Seek(p) PROVE PlacesInv'
  <2> DEFINE rest == [k \in 1 .. Len(setup.feed) - p + 1 |-> p + k - 1]
  <2>1. todo' = Keep(rest, Listed) /\ audioq' = <<>> /\ UNCHANGED <<setup, alive, arg>>
    BY <1>9 DEF Seek, SeekBegin
  <2>2. rest \in Seq(Int)
    <3>1. p \in 1 .. Len(setup.feed) /\ Len(setup.feed) - p + 1 \in Nat
      BY <1>1
    <3>2. \A k \in 1 .. Len(setup.feed) - p + 1 : p + k - 1 \in Int
      BY <3>1
    <3> QED
      BY <3>1, <3>2, IsASeq
  <2> HIDE DEF rest
  <2>3. Range(Keep(rest, Listed)) \subseteq Listed
    BY <2>2, KeepRange
  <2>4. Range(audioq') = {}
    BY <2>1 DEF Range
  <2> QED
    BY <2>1, <2>3, <2>4 DEF PlacesInv, Listed, ItemAt
<1>10. CASE DetachSink
  <2>1. audioq' \in {audioq, <<>>} /\ UNCHANGED <<setup, todo, alive, arg>>
    BY <1>10 DEF DetachSink, SinkAbort, SinkUnmap
  <2>2. Range(audioq') \subseteq Range(audioq)
    BY <2>1 DEF Range
  <2> QED
    BY <2>1, <2>2 DEF PlacesInv, Listed, ItemAt
<1>11. CASE \/ ThreadStart \/ Check \/ Lock \/ Loop \/ Sleep \/ Woken \/ GetAborted \/ Analyse
            \/ SpuriousWake \/ InfoGet
  BY <1>3, <1>11 DEF ThreadStart, Check, Lock, Loop, Sleep, Woken, GetAborted, Analyse, SpuriousWake,
                     InfoGet, feed
<1>12. CASE \/ PurgeHook \/ FlushHook \/ DetachBegin \/ DetachInfos \/ DetachSignal \/ Joined
            \/ Attach
  BY <1>3, <1>12 DEF PurgeHook, FlushHook, SeekEnd, DetachBegin, DetachCall, DetachInfos,
                     DetachSignal, Joined, Attach, AttachCall, Proceed
<1> QED
  BY <1>4, <1>5, <1>6, <1>7, <1>8, <1>9, <1>10, <1>11, <1>12 DEF Next, Thread, Continue

LEMMA FinishedRange ==
  ASSUME kind # "waveform", NEW f \in Range(Finished)
  PROVE  f.item = info_head
<1>1. Range(<<>>) = {} /\ Range(<<Track(info_head)>>) = {Track(info_head)}
  BY DEF Range
<1>2. Finished = <<>> \/ Finished = <<Track(info_head)>>
  BY DEF Finished
<1>3. f = Track(info_head)
  BY <1>1, <1>2
<1> QED
  BY <1>3 DEF Track

LEMMA EndInfosRange ==
  ASSUME TypeOK, kind # "waveform", NEW f \in Range(EndInfos)
  PROVE  f.item \in {info_head, Null}
<1>1. EndInfos = <<Track(info_head)>> \o <<TheEnd>>
  BY DEF EndInfos
<1>2. Range(<<Track(info_head)>>) = {Track(info_head)} /\ Range(<<TheEnd>>) = {TheEnd}
  BY DEF Range
<1>3. <<Track(info_head)>> \in Seq({Track(info_head), TheEnd})
      /\ <<TheEnd>> \in Seq({Track(info_head), TheEnd})
  OBVIOUS
<1>4. Range(<<Track(info_head)>> \o <<TheEnd>>) = Range(<<Track(info_head)>>) \cup Range(<<TheEnd>>)
  BY <1>3, RangeConcatenation
<1>5. f = Track(info_head) \/ f = TheEnd
  BY <1>1, <1>2, <1>4
<1> QED
  BY <1>5 DEF Track, TheEnd

LEMMA PutRange ==
  ASSUME info_queue \in Seq(Info), NEW put \in Seq(Info), Put(put)
  PROVE  Range(info_queue') = Range(info_queue) \cup Range(put)
<1>1. Range(info_queue \o put) = Range(info_queue) \cup Range(put)
  BY RangeConcatenation
<1> QED
  BY <1>1 DEF Put

LEMMA RefsStep ==
  ASSUME BoundInv, HeadInv, PlacesInv, RefsInv, Next \/ UNCHANGED vars, ~late'
  PROVE  RefsInv'
<1>1. /\ audioq \in Seq(DOMAIN setup.feed) /\ info_queue \in Seq(Info)
      /\ alive \subseteq Item
      /\ buffer \in Item \cup {Null, End} /\ info_head \in Item \cup {Null}
  BY DEF BoundInv, TypeOK, FeedTypeOK
<1>2. Null \notin Gone
  BY NullAssumption DEF Gone
\* Without a step of a removal the gone items stay the same ones.
<1>3. ASSUME alive' = alive, arg' = arg, apc' = "free" <=> apc = "free" PROVE Gone' = Gone
  BY <1>3 DEF Gone
<1>4. ASSUME Gone' = Gone, buffer' \in {buffer, Null}, info_head' \in {info_head, Null}, kind' = kind,
             Range(info_queue') \subseteq Range(info_queue)
      PROVE  RefsInv'
  BY <1>2, <1>4 DEF RefsInv
<1>5. CASE UNCHANGED vars
  <2>1. UNCHANGED <<alive, arg, apc, buffer, info_head, info_queue, kind>>
    BY <1>5 DEF vars, feed, thread, analysis, infos
  <2> QED
    BY <1>3, <1>4, <2>1
<1>6. CASE \/ ThreadStart \/ Check \/ Lock \/ Loop \/ Sleep \/ Woken \/ GetAborted \/ SpuriousWake
  <2>1. UNCHANGED <<alive, arg, apc, buffer, info_head, info_queue, kind>>
    BY <1>6 DEF ThreadStart, Check, Lock, Loop, Sleep, Woken, GetAborted, SpuriousWake, feed, analysis,
                infos
  <2> QED
    BY <1>3, <1>4, <2>1
<1>7. CASE GetBuffer
  <2>1. audioq # <<>> /\ buffer' = ItemAt(Head(audioq))
        /\ UNCHANGED <<alive, arg, apc, info_head, info_queue, kind>>
    BY <1>7 DEF GetBuffer, TakeBuffer, analysis, infos
  <2>2. Head(audioq) \in Range(audioq)
    BY <1>1, <2>1, HeadTailRange
  <2>3. ItemAt(Head(audioq)) \in (alive \ {arg}) \cup {End}
    BY <2>2 DEF PlacesInv, Listed
  <2>4. buffer' \notin Gone
    BY <2>1, <2>3, NullAssumption DEF Gone
  <2>5. Gone' = Gone
    BY <1>3, <2>1
  <2> QED
    BY <2>1, <2>4, <2>5 DEF RefsInv
<1>8. CASE Analyse
  <2>1. Gone' = Gone /\ buffer' = Null /\ kind' = kind /\ buffer \in Item \cup {End}
    BY <1>3, <1>8 DEF Analyse, feed, BoundInv
  <2>2. CASE buffer = End
    <3>1. Put(EndInfos) /\ info_head' = Null
      BY <1>8, <2>2 DEF Analyse, AnalyseEnd, EndInfos
    <3>2. EndInfos \in Seq(Info)
      BY EndInfosType DEF BoundInv
    <3>3. Range(info_queue') = Range(info_queue) \cup Range(EndInfos)
      BY <1>1, <3>1, <3>2, PutRange
    <3>4. kind # "waveform" => \A f \in Range(EndInfos) : f.item \in {info_head, Null}
      BY EndInfosRange DEF BoundInv
    <3> QED
      BY <1>2, <2>1, <3>1, <3>3, <3>4 DEF RefsInv
  <2>3. CASE buffer # End
    <3> DEFINE w == IF NewItem THEN Finished ELSE <<>>
    <3>1. Put(w) /\ info_head' = buffer
      BY <1>8, <2>3 DEF Analyse, AnalyseBuffer
    <3>2. <<>> \in Seq(Info) /\ Range(<<>>) = {}
      BY DEF Range
    <3>3. w \in Seq(Info)
      BY <3>2, FinishedType DEF BoundInv
    <3>4. kind # "waveform" => \A f \in Range(w) : f.item = info_head
      BY <3>2, FinishedRange
    <3> HIDE DEF w
    <3>5. Range(info_queue') = Range(info_queue) \cup Range(w)
      BY <1>1, <3>1, <3>3, PutRange
    <3> QED
      BY <1>2, <2>1, <3>1, <3>4, <3>5 DEF RefsInv
  <2> QED
    BY <2>2, <2>3
<1>9. CASE InfoGet
  <2>1. info_queue # <<>> /\ info_queue' = Tail(info_queue)
        /\ UNCHANGED <<alive, arg, apc, buffer, info_head, kind>>
    BY <1>9 DEF InfoGet, feed, analysis
  <2>2. Range(Tail(info_queue)) \subseteq Range(info_queue)
    BY <1>1, <2>1, HeadTailRange
  <2> QED
    BY <1>3, <1>4, <2>1, <2>2
<1>10. CASE Deliver \/ DetachSink
  <2>1. UNCHANGED <<alive, arg, buffer, info_head, info_queue, kind>> /\ (apc' = "free" <=> apc = "free")
    BY <1>10 DEF Deliver, DeliverBuffer, DetachSink, SinkAbort, SinkUnmap, thread, analysis, infos
  <2> QED
    BY <1>3, <1>4, <2>1
<1>11. ASSUME NEW i \in Item, RemoveItem(i) PROVE RefsInv'
  <2>1. /\ UNCHANGED <<alive, attached, buffer, info_head, info_queue, kind>>
        /\ apc = "idle" /\ apc' = IF attached THEN "purge_hook" ELSE "free"
        /\ arg' = i
        /\ attached \/ ~LeftBehind(i)
    BY <1>11 DEF RemoveItem, RemoveBegin, RemoveStraggling, RemoveCall, May, thread, analysis, infos
  <2>2. CASE attached
    <3>1. Gone' = Gone
      BY <2>1, <2>2 DEF Gone
    <3> QED
      BY <1>4, <2>1, <3>1
  <2>3. CASE ~attached
    <3>1. Gone' = Gone \cup {i}
      BY <2>1, <2>3 DEF Gone
    <3>2. buffer = Null /\ info_head = Null
      BY <2>1, <2>3 DEF BoundInv, CallInv, HeadInv
    <3>3. \A f \in Range(info_queue) : f.item # i
      BY <2>1, <2>3 DEF LeftBehind, Range
    <3> QED
      BY <1>2, <2>1, <3>1, <3>2, <3>3, NullAssumption DEF RefsInv
  <2> QED
    BY <2>2, <2>3
<1>12. CASE PurgeHook
  <2> DEFINE others == {f \in Info : f.item # arg}
  <2>1. /\ UNCHANGED <<alive, arg, buffer, kind>>
        /\ apc = "purge_hook" /\ apc' = "free"
        /\ info_queue' = Keep(info_queue, others)
        /\ info_head' = IF info_head = arg THEN Null ELSE info_head
        /\ buffer # arg
    BY <1>12 DEF PurgeHook, Proceed
  <2>2. Range(Keep(info_queue, others)) = Range(info_queue) \cap others
    BY <1>1, KeepRange
  <2>3. Gone' \subseteq Gone \cup {arg}
    BY <2>1 DEF Gone
  <2>4. arg # Null
    BY <1>12, <2>1 DEF BoundInv, CallInv
  <2> HIDE DEF others
  <2> QED
    BY <1>2, <2>1, <2>2, <2>3, <2>4 DEF RefsInv, others
<1>13. CASE RemoveFree
  <2>1. /\ UNCHANGED <<buffer, info_head, info_queue, kind>>
        /\ apc = "free" /\ apc' = "idle" /\ alive' = alive \ {arg}
    BY <1>13 DEF RemoveFree, RemoveEnd, thread, analysis, infos
  <2>2. Gone' = Gone
    BY <2>1 DEF Gone
  <2> QED
    BY <1>4, <2>1, <2>2
<1>14. ASSUME NEW p \in setup.seekTo, Seek(p) PROVE RefsInv'
  <2>1. UNCHANGED <<alive, arg, apc, buffer, info_head, info_queue, kind>>
    BY <1>14 DEF Seek, SeekBegin, thread, analysis, infos
  <2> QED
    BY <1>3, <1>4, <2>1
<1>15. CASE FlushHook \/ DetachInfos
  <2>1. UNCHANGED <<alive, arg, buffer, kind>> /\ (apc' = "free" <=> apc = "free")
        /\ info_queue' = <<>> /\ info_head' \in {info_head, Null}
    BY <1>15 DEF FlushHook, SeekEnd, DetachInfos, Proceed, thread, analysis
  <2>2. Range(info_queue') \subseteq Range(info_queue)
    BY <2>1 DEF Range
  <2> QED
    BY <1>3, <1>4, <2>1, <2>2
<1>16. CASE DetachBegin \/ DetachSignal \/ Joined \/ Attach
  <2>1. UNCHANGED <<alive, arg, buffer, info_queue, kind>> /\ (apc' = "free" <=> apc = "free")
        /\ info_head' \in {info_head, Null}
    BY <1>16 DEF DetachBegin, DetachCall, May, DetachSignal, Joined, Proceed, Attach, AttachCall, thread,
                 analysis, infos
  <2> QED
    BY <1>3, <1>4, <2>1
<1> QED
  BY <1>5, <1>6, <1>7, <1>8, <1>9, <1>10, <1>11, <1>12, <1>13, <1>14, <1>15, <1>16
     DEF Next, Thread, Continue

LEMMA HeadStep ==
  ASSUME BoundInv, HeadInv, Next \/ UNCHANGED vars
  PROVE  HeadInv'
<1> USE DEF HeadInv, BoundInv, CallInv, CallPc
<1>1. CASE UNCHANGED vars
  BY <1>1 DEF vars, feed, analysis
<1>2. CASE Thread
  <2>1. tpc # "done" /\ UNCHANGED <<apc, attached>>
    BY <1>2 DEF Thread, ThreadStart, Check, Lock, Loop, Sleep, Woken, GetBuffer, GetAborted, Analyse,
                TakeBuffer, feed
  <2> QED
    BY <2>1
<1>3. CASE SpuriousWake \/ InfoGet \/ Deliver
  BY <1>3 DEF SpuriousWake, InfoGet, Deliver, DeliverBuffer, feed, analysis
<1>4. CASE PurgeHook \/ RemoveFree \/ FlushHook
  BY <1>4 DEF PurgeHook, Proceed, RemoveFree, RemoveEnd, FlushHook, SeekEnd, analysis
<1>5. CASE DetachSink \/ DetachInfos \/ DetachSignal \/ Joined
  BY <1>5 DEF DetachSink, SinkAbort, SinkUnmap, DetachInfos, DetachSignal, Joined, Proceed, analysis
<1>6. ASSUME NEW i \in Item, RemoveItem(i) PROVE HeadInv'
  BY <1>6 DEF RemoveItem, RemoveBegin, RemoveStraggling, RemoveCall, May, analysis
<1>7. ASSUME NEW p \in setup.seekTo, Seek(p) PROVE HeadInv'
  BY <1>7 DEF Seek, SeekBegin, analysis
<1>8. CASE DetachBegin \/ Attach
  BY <1>8 DEF DetachBegin, DetachCall, Attach, AttachCall, analysis
<1> QED
  BY <1>1, <1>2, <1>3, <1>4, <1>5, <1>6, <1>7, <1>8 DEF Next, Continue

LEMMA PurgeStep ==
  ASSUME PurgeInv, Next \/ UNCHANGED vars
  PROVE  PurgeInv'
<1>1. BoundInv' /\ HeadInv'
  BY BoundStep, HeadStep DEF PurgeInv
<1>2. SUFFICES ASSUME ~late' PROVE fault' # "freed item" /\ PlacesInv' /\ RefsInv'
  BY <1>1 DEF PurgeInv
<1>3. ~late
  BY <1>2 DEF Next, vars, history, Thread, ThreadStart, Check, Lock, Loop, Sleep, Woken, GetBuffer,
              GetAborted, Analyse, SpuriousWake, InfoGet, Deliver, Continue, PurgeHook, RemoveFree,
              FlushHook, DetachSink, DetachInfos, DetachSignal, Joined, RemoveItem, Seek, DetachBegin,
              Attach
<1>4. PlacesInv' /\ RefsInv'
  BY <1>2, <1>3, PlacesStep, RefsStep DEF PurgeInv
<1>5. CASE Analyse
  <2>1. buffer \in Item \cup {End} /\ buffer \notin Gone
    BY <1>3, <1>5 DEF Analyse, PurgeInv, BoundInv, RefsInv
  <2>2. buffer \in alive \cup {End}
    BY <2>1 DEF Gone
  <2> QED
    BY <1>3, <1>4, <1>5, <2>2 DEF Analyse, PurgeInv
<1>6. CASE ~Analyse
  <2>1. fault' \in {fault, "null info"}
    BY <1>6 DEF Next, vars, Thread, ThreadStart, Check, Lock, Loop, Sleep, Woken, GetBuffer,
              GetAborted, SpuriousWake, InfoGet, Deliver, Continue, PurgeHook, RemoveFree,
              FlushHook, DetachSink, DetachInfos, DetachSignal, Joined, RemoveItem, Seek, DetachBegin,
              Attach
  <2> QED
    BY <1>3, <1>4, <2>1 DEF PurgeInv
<1> QED
  BY <1>5, <1>6

(***************************************************************************)
(* Neither the analysis nor an info refers to an item after it was freed,   *)
(* unless a buffer of it was out of the reach of the purge hook.            *)
(***************************************************************************)
THEOREM InfosPurgedInTime == Spec => []PurgedInTime
<1>1. Init => PurgeInv
  BY PurgeInit
<1>2. PurgeInv /\ [Next]_vars => PurgeInv'
  BY PurgeStep
<1>3. PurgeInv => PurgedInTime
  <2>1. Item \ alive \subseteq Gone
    BY DEF Gone
  <2>2. ASSUME PurgeInv, ~late, kind # "waveform", NEW i \in Item \ alive PROVE ~Refers(i)
    BY <2>1, <2>2 DEF PurgeInv, RefsInv, Refers, Range
  <2> QED
    BY <2>2 DEF PurgeInv, PurgedInTime
<1> QED
  BY <1>1, <1>2, <1>3, PTL DEF Spec, SafeSpec

--------------------------------------------------------------------------------
(* What goes out, and in which order.                                      *)

\* A sequence starts with another one when it has its elements first.
LEMMA PrefixIs ==
  ASSUME NEW T, NEW s \in Seq(T), NEW t \in Seq(T), Len(s) <= Len(t),
         \A k \in 1 .. Len(s) : s[k] = t[k]
  PROVE  IsPrefix(s, t)
<1>1. PICK m \in Nat, n \in Nat : m = Len(s) /\ n = Len(t)
  BY LenProperties
<1> DEFINE a == SubSeq(s, 1, m)
           b == SubSeq(t, 1, m)
<1>2. (\A k \in 1 .. m : s[k] \in T /\ t[k] \in T) /\ m <= n
  BY <1>1, ElementOfSeq
<1>3. a \in Seq(T) /\ Len(a) = m /\ \A k \in 1 .. m : a[k] = s[k]
  BY <1>2, SubSeqProperties
<1>4. b \in Seq(T) /\ Len(b) = m /\ \A k \in 1 .. m : b[k] = t[k]
  BY <1>2, SubSeqProperties
<1> HIDE DEF a, b
<1>5. \A k \in 1 .. Len(a) : a[k] = b[k]
  BY <1>1, <1>3, <1>4
<1>6. a = b
  BY <1>3, <1>4, <1>5, SeqEqual
<1> QED
  BY <1>1, <1>6 DEF a, b, IsPrefix
\* Whether the place p begins an item, or is an end.
Begins(p) == p = 1 \/ ItemAt(p) # ItemAt(p - 1)

Begin == {p \in DOMAIN setup.feed : Begins(p)}

LEMMA BegunIs ==
  ASSUME NEW n \in Nat
  PROVE  Begun(n) = Image(Keep(Span(0, n), Begin), setup.feed)
<1>1. [p \in 1 .. n |-> p] = Span(0, n)
  <2>1. n - 0 = n /\ \A p \in 1 .. n : 0 + p = p
    OBVIOUS
  <2> QED
    BY <2>1 DEF Span
<1> QED
  BY <1>1 DEF Begun, Image, Begin, Begins, ItemAt

LEMMA BegunNone == Begun(0) = <<>>
<1>1. Span(0, 0) = <<>>
  BY SpanIs
<1>2. Keep(Span(0, 0), Begin) = <<>>
  BY <1>1, KeepEmpty
<1>3. Image(<<>>, setup.feed) = <<>>
  BY DEF Image
<1> QED
  BY <1>2, <1>3, BegunIs

LEMMA BegunNext ==
  ASSUME setup.feed \in Seq(Item \cup {End}), NEW n \in Nat, n + 1 \in DOMAIN setup.feed
  PROVE  /\ Begun(n) \in Seq(Item \cup {End})
         /\ Begun(n + 1) = IF Begins(n + 1) THEN Append(Begun(n), ItemAt(n + 1)) ELSE Begun(n)
<1> DEFINE D == DOMAIN setup.feed
           s == Span(0, n)
           q == Keep(s, Begin)
<1>1. PICK len \in Nat : len = Len(setup.feed)
  BY LenProperties
<1>2. D = 1 .. len /\ n + 1 \in 1 .. len
  BY <1>1, LenProperties
<1>3. s \in Seq(D)
  <2>1. 0 <= n /\ n - 0 = n /\ \A k \in 1 .. n : 0 + k \in D
    BY <1>2
  <2> QED
    BY <2>1, IsASeq DEF Span
<1>4. Span(0, n + 1) = Append(s, n + 1)
  <2>1. 0 \in Nat /\ 0 <= n
    OBVIOUS
  <2>2. Append(Span(0, n), n + 1) = Span(0, n + 1)
    BY <2>1, SpanLast
  <2> QED
    BY <2>2
<1> HIDE DEF s
<1>5. q \in Seq(D)
  BY <1>3, KeepType
<1>6. Keep(Append(s, n + 1), Begin) = IF n + 1 \in Begin THEN Append(q, n + 1) ELSE q
  <2>1. n + 1 \in D
    OBVIOUS
  <2> DEFINE x == n + 1
  <2>2. s \in Seq(D) /\ x \in D
    BY <1>3, <2>1
  <2> HIDE DEF x, D, q
  <2>3. Keep(Append(s, x), Begin) = IF x \in Begin THEN Append(Keep(s, Begin), x) ELSE Keep(s, Begin)
    BY <2>2, KeepAppend
  <2> QED
    BY <2>3 DEF x, q
<1>7. n + 1 \in Begin <=> Begins(n + 1)
  BY DEF Begin
<1>8. \A p \in D : setup.feed[p] \in Item \cup {End}
  BY <1>1, <1>2, ElementOfSeq
<1>9. Begun(n) = Image(q, setup.feed)
  BY BegunIs DEF s
<1>10. Begun(n + 1) = IF Begins(n + 1) THEN Image(Append(q, n + 1), setup.feed) ELSE Image(q, setup.feed)
  <2>1. Begun(n + 1) = Image(Keep(Span(0, n + 1), Begin), setup.feed)
    BY BegunIs
  <2> QED
    BY <1>4, <1>6, <1>7, <2>1
<1> HIDE DEF q
<1>11. PICK z \in Nat : z = Len(q)
  BY <1>5, LenProperties
<1>12. \A k \in 1 .. z : q[k] \in D /\ setup.feed[q[k]] \in Item \cup {End}
  BY <1>5, <1>8, <1>11, ElementOfSeq
<1>13. Image(Append(q, n + 1), setup.feed) = Append(Image(q, setup.feed), setup.feed[n + 1])
  BY <1>5, <1>8, <1>11, <1>12, ImageAppend
<1>14. Image(q, setup.feed) \in Seq(Item \cup {End})
  <2>1. DOMAIN q = 1 .. z
    BY <1>5, <1>11, LenProperties
  <2> QED
    BY <1>12, <2>1, IsASeq DEF Image
<1> QED
  BY <1>9, <1>10, <1>13, <1>14 DEF ItemAt

LEMMA BegunType ==
  ASSUME setup.feed \in Seq(Item \cup {End}), NEW n \in 0 .. Len(setup.feed)
  PROVE  Begun(n) \in Seq(Item \cup {End})
<1> DEFINE T == Item \cup {End}
<1>1. PICK len \in Nat : len = Len(setup.feed) /\ DOMAIN setup.feed = 1 .. len
  BY LenProperties
<1>2. CASE n = 0
  <2>1. Begun(n) = <<>>
    BY <1>2, BegunNone
  <2>2. <<>> \in Seq(T)
    OBVIOUS
  <2> QED
    BY <2>1, <2>2
<1>3. CASE n # 0
  <2>1. PICK k \in Nat : n = k + 1
    <3>1. n \in Nat /\ n - 1 \in Nat /\ n = (n - 1) + 1
      BY <1>1, <1>3
    <3> QED
      BY <3>1
  <2>2. k + 1 \in DOMAIN setup.feed
    BY <1>1, <2>1
  <2>3. Begun(k) \in Seq(Item \cup {End})
        /\ Begun(k + 1) = IF Begins(k + 1) THEN Append(Begun(k), ItemAt(k + 1)) ELSE Begun(k)
    BY <2>2, BegunNext
  <2>4. ItemAt(k + 1) \in Item \cup {End}
    BY <1>1, <2>2, ElementOfSeq DEF ItemAt
  <2>5. Append(Begun(k), ItemAt(k + 1)) \in Seq(Item \cup {End})
    BY <2>3, <2>4, AppendProperties
  <2> HIDE DEF T
  <2>6. Begun(k + 1) \in Seq(T)
    BY <2>3, <2>5 DEF T
  <2> QED
    BY <2>1, <2>6 DEF T
<1> QED
  BY <1>2, <1>3

\* t is s, and perhaps more.
Longer(s, t) == Len(s) <= Len(t) /\ \A k \in 1 .. Len(s) : s[k] = t[k]

LEMMA LongerAppend ==
  ASSUME NEW T, NEW s \in Seq(T), NEW t \in Seq(T), NEW x \in T, Longer(s, t)
  PROVE  Longer(s, Append(t, x))
<1>1. PICK m \in Nat, n \in Nat : m = Len(s) /\ n = Len(t)
  BY LenProperties
<1>2. Len(Append(t, x)) = n + 1 /\ \A k \in 1 .. n : Append(t, x)[k] = t[k]
  BY <1>1, AppendProperties
<1>3. m <= n /\ (\A k \in 1 .. m : k \in 1 .. n) /\ \A k \in 1 .. m : s[k] = t[k]
  BY <1>1 DEF Longer
<1> QED
  BY <1>1, <1>2, <1>3 DEF Longer

LEMMA BegunLonger ==
  ASSUME setup.feed \in Seq(Item \cup {End}), NEW d \in 0 .. Len(setup.feed)
  PROVE  Longer(Begun(d), Begun(Len(setup.feed)))
<1>1. PICK len \in Nat : len = Len(setup.feed) /\ DOMAIN setup.feed = 1 .. len
  BY LenProperties
<1> DEFINE s    == Begun(d)
           T    == Item \cup {End}
           Q    == {k \in Nat : d + k <= len => Longer(s, Begun(d + k))}
<1>2. s \in Seq(T) /\ d \in Nat /\ d <= len
  BY <1>1, BegunType
<1>3. 0 \in Q
  <2>1. Longer(s, s)
    BY <1>2, LenProperties DEF Longer
  <2>2. d + 0 = d
    BY <1>2
  <2> QED
    BY <2>1, <2>2
<1>4. ASSUME NEW k \in Q PROVE k + 1 \in Q
  <2>1. SUFFICES ASSUME d + (k + 1) <= len PROVE Longer(s, Begun(d + (k + 1)))
    OBVIOUS
  <2>2. PICK n \in Nat : n = d + k
    BY <1>2
  <2>3. d + (k + 1) = n + 1 /\ n <= len /\ n + 1 \in 1 .. len /\ k \in Nat
    BY <1>1, <1>2, <2>1, <2>2
  <2>4. Longer(s, Begun(n))
    BY <2>2, <2>3
  <2> HIDE DEF s
  <2>5. n + 1 \in DOMAIN setup.feed
    BY <1>1, <2>3
  <2>6. Begun(n) \in Seq(T)
        /\ Begun(n + 1) = IF Begins(n + 1) THEN Append(Begun(n), ItemAt(n + 1)) ELSE Begun(n)
    BY <2>5, BegunNext
  <2>7. ItemAt(n + 1) \in T
    BY <1>1, <2>5, ElementOfSeq DEF ItemAt
  <2> HIDE DEF T
  <2>8. Longer(s, Append(Begun(n), ItemAt(n + 1)))
    BY <1>2, <2>4, <2>6, <2>7, LongerAppend
  <2>9. Longer(s, Begun(n + 1))
    BY <2>4, <2>6, <2>8
  <2> QED
    BY <2>3, <2>9
<1>5. Q = Nat
  <2>1. Q \in SUBSET Nat
    OBVIOUS
  <2> HIDE DEF Q
  <2> QED
    BY <1>3, <1>4, <2>1, NatInd
<1>6. PICK k \in Nat : d + k = len
  <2>1. len - d \in Nat /\ d + (len - d) = len
    BY <1>1, <1>2
  <2> QED
    BY <2>1
<1>7. Longer(s, Begun(d + k))
  <2>1. k \in Q
    BY <1>5
  <2>2. d + k <= len
    BY <1>1, <1>6
  <2> QED
    BY <2>1, <2>2
<1> QED
  BY <1>1, <1>6, <1>7

\* What has happened when the first d places have been analysed: the last item
\* is under analysis, and what began before it has gone out.
Analysed(d) ==
  /\ info_head = IF d = 0 THEN Null ELSE IF ItemAt(d) = End THEN Null ELSE ItemAt(d)
  /\ reported \in Seq(Item \cup {End})
  /\ Begun(d) = IF info_head = Null THEN reported ELSE Append(reported, info_head)
  /\ \/ cur = info_head
     \/ kind = "fingerprinter" /\ info_head = Null
     \/ kind = "loudness" /\ d = Len(setup.feed)

LEMMA AnalysedPrefix ==
  ASSUME TypeOK, NEW d \in 0 .. Len(setup.feed), Analysed(d)
  PROVE  IsPrefix(reported, Expected)
<1> DEFINE T == Item \cup {End}
<1>1. setup.feed \in Seq(T)
  BY FeedAssumption DEF TypeOK, FeedTypeOK
<1>2. PICK len \in Nat : len = Len(setup.feed)
  BY <1>1, LenProperties
<1>3. Begun(d) \in Seq(T) /\ Expected \in Seq(T)
  <2>1. len \in 0 .. len
    BY <1>2
  <2> QED
    BY <1>1, <1>2, <2>1, BegunType DEF Expected
<1>4. reported \in Seq(T)
  BY DEF Analysed
<1>5. Longer(reported, Begun(d))
  <2>1. Longer(reported, reported)
    BY <1>4, LenProperties DEF Longer
  <2>2. CASE info_head = Null
    BY <2>1, <2>2 DEF Analysed
  <2>3. CASE info_head # Null
    <3>1. info_head \in T
      BY <2>3 DEF TypeOK
    <3> HIDE DEF T
    <3>2. Longer(reported, Append(reported, info_head))
      BY <1>4, <2>1, <3>1, LongerAppend
    <3> QED
      BY <2>3, <3>2 DEF Analysed
  <2> QED
    BY <2>2, <2>3
<1>6. Longer(Begun(d), Expected)
  BY <1>1, BegunLonger DEF Expected
<1> HIDE DEF T
<1> DEFINE s == Begun(d)
<1> HIDE DEF s
<1>7. s \in Seq(T) /\ Longer(reported, s) /\ Longer(s, Expected)
  BY <1>3, <1>5, <1>6 DEF s
<1>8. PICK a \in Nat, b \in Nat, c \in Nat : a = Len(reported) /\ b = Len(s) /\ c = Len(Expected)
  BY <1>3, <1>4, <1>7, LenProperties
<1>9. a <= b /\ b <= c /\ (\A k \in 1 .. a : reported[k] = s[k]) /\ \A k \in 1 .. b : s[k] = Expected[k]
  BY <1>7, <1>8 DEF Longer
<1>10. a <= c /\ \A k \in 1 .. a : k \in 1 .. b
  BY <1>9
<1>11. Len(reported) <= Len(Expected) /\ \A k \in 1 .. Len(reported) : reported[k] = Expected[k]
  BY <1>8, <1>9, <1>10
<1> QED
  BY <1>3, <1>4, <1>11, PrefixIs

\* Nobody calls, and nobody has.
Untouched == apc = "idle" /\ attached /\ ~flushing

\* The decoder has delivered the first m places and the thread has taken n of
\* them; the one in its hands is not analysed yet.
ReportInv ==
  /\ Untouched /\ TracksNamed
  /\ \E m \in 0 .. Len(setup.feed) : \E n \in 0 .. m :
       /\ todo = Span(m, Len(setup.feed)) /\ audioq = Span(n, m)
       /\ IF buffer = Null THEN Analysed(n) ELSE n # 0 /\ buffer = ItemAt(n) /\ Analysed(n - 1)

LEMMA AloneNext ==
  ASSUME LeftAlone, Untouched, Next
  PROVE  /\ Thread \/ SpuriousWake \/ InfoGet \/ Deliver
         /\ Untouched' /\ setup' = setup /\ kind' = kind
<1>1. \A i \in Item : ~RemoveItem(i)
  BY DEF LeftAlone, RemoveItem, RemoveBegin, RemoveStraggling, RemoveCall, May
<1>2. \A p \in setup.seekTo : ~Seek(p)
  BY DEF LeftAlone, Seek, SeekBegin
<1>3. ~DetachBegin /\ ~Attach
  BY DEF LeftAlone, DetachBegin, DetachCall, Attach, AttachCall, May
<1>4. ~Continue
  BY DEF Untouched, Continue, PurgeHook, RemoveFree, RemoveEnd, FlushHook, SeekEnd, DetachSink,
         SinkAbort, SinkUnmap, DetachInfos, DetachSignal, Joined, Proceed
<1>5. Thread \/ SpuriousWake \/ InfoGet \/ Deliver
  BY <1>1, <1>2, <1>3, <1>4 DEF Next
<1>6. UNCHANGED <<apc, attached, flushing, setup, kind>>
  BY <1>5 DEF Thread, ThreadStart, Check, Lock, Loop, Sleep, Woken, GetBuffer, GetAborted, Analyse,
              TakeBuffer, SpuriousWake, InfoGet, Deliver, DeliverBuffer, feed
<1> QED
  BY <1>5, <1>6 DEF Untouched

LEMMA BegunSame ==
  ASSUME setup' = setup, NEW n \in Nat
  PROVE  Begun(n)' = Begun(n)
<1> DEFINE q == Keep(Span(0, n), Begin)
<1>1. Begin' = Begin
  BY DEF Begin, Begins, ItemAt
<1>2. [p \in 1 .. n |-> p] = Span(0, n)
  <2>1. n - 0 = n /\ \A p \in 1 .. n : 0 + p = p
    OBVIOUS
  <2> QED
    BY <2>1 DEF Span
<1>3. Begun(n)' = [j \in DOMAIN Keep(Span(0, n), Begin') |-> setup.feed[Keep(Span(0, n), Begin')[j]]]
  BY <1>2 DEF Begun, Begin, Begins, ItemAt
<1> QED
  BY <1>1, <1>3, BegunIs DEF Image

Label(f)    == IF f.last THEN End ELSE f.item
Labels(new) == [k \in DOMAIN new |-> Label(new[k])]

LEMMA PairIs ==
  ASSUME NEW t, NEW u
  PROVE  <<t>> \o <<u>> = <<t, u>>
<1> DEFINE T == {t, u}
           c == <<t>> \o <<u>>
           p == <<t, u>>
<1>1. <<t>> \in Seq(T) /\ <<u>> \in Seq(T) /\ Len(<<t>>) = 1 /\ Len(<<u>>) = 1
      /\ <<t>>[1] = t /\ <<u>>[1] = u
  OBVIOUS
<1>2. p \in Seq(T) /\ Len(p) = 2 /\ p[1] = t /\ p[2] = u
  OBVIOUS
<1>3. Append(<<t>>, u) = c /\ u \in T
  BY <1>1, AppendIsConcat
<1> HIDE DEF T, p
<1>4. /\ c \in Seq(T) /\ Len(c) = 1 + 1 /\ c[1 + 1] = u /\ \A k \in 1 .. 1 : c[k] = <<t>>[k]
  BY <1>1, <1>3, AppendProperties
<1> HIDE DEF c
<1>5. Len(c) = 2 /\ c[1] = t /\ c[2] = u
  BY <1>1, <1>4
<1>6. Len(c) = Len(p) /\ \A k \in 1 .. Len(c) : c[k] = p[k]
  <2>1. \A k \in 1 .. 2 : k = 1 \/ k = 2
    OBVIOUS
  <2> QED
    BY <1>2, <1>5, <2>1
<1>7. c = p
  BY <1>2, <1>4, <1>6, SeqEqual
<1> QED
  BY <1>7 DEF c, p

LEMMA PutReports ==
  ASSUME reported \in Seq(Item \cup {End}), NEW i \in Item
  PROVE  /\ Put(<<Track(i)>>) => reported' = Append(reported, i)
         /\ Put(<<Track(i)>> \o <<TheEnd>>) => reported' = Append(Append(reported, i), End)
<1> DEFINE T == Item \cup {End}
<1>1. \A new : Put(new) => reported' = reported \o Labels(new)
  BY DEF Put, Labels, Label
<1>2. Label(Track(i)) = i /\ Label(TheEnd) = End
  BY DEF Label, Track, TheEnd
<1>4. Labels(<<Track(i)>>) = <<i>>
  <2>1. \A t : Labels(<<t>>) = <<Label(t)>>
    BY DEF Labels
  <2> QED
    BY <1>2, <2>1
<1>5. Labels(<<Track(i)>> \o <<TheEnd>>) = <<i>> \o <<End>>
  <2>1. <<Track(i)>> \o <<TheEnd>> = <<Track(i), TheEnd>> /\ <<i>> \o <<End>> = <<i, End>>
    BY PairIs
  <2>2. \A t, u : Labels(<<t, u>>) = <<Label(t), Label(u)>>
    BY DEF Labels
  <2> QED
    BY <1>2, <2>1, <2>2
<1>6. i \in T /\ End \in T /\ <<i>> \in Seq(T) /\ <<End>> \in Seq(T)
  OBVIOUS
<1> HIDE DEF T
<1>7. reported \in Seq(T) /\ Append(reported, i) \in Seq(T)
  BY <1>6, AppendProperties DEF T
<1>9. reported \o <<i>> = Append(reported, i)
  BY <1>6, <1>7, AppendIsConcat
<1>10. reported \o (<<i>> \o <<End>>) = Append(Append(reported, i), End)
  <2>1. (reported \o <<i>>) \o <<End>> = reported \o (<<i>> \o <<End>>)
    BY <1>6, <1>7, ConcatAssociative
  <2>2. Append(reported, i) \o <<End>> = Append(Append(reported, i), End)
    BY <1>6, <1>7, AppendIsConcat
  <2> QED
    BY <1>9, <2>1, <2>2
<1> QED
  BY <1>1, <1>4, <1>5, <1>9, <1>10

LEMMA PutNothing ==
  ASSUME reported \in Seq(Item \cup {End}), info_queue \in Seq(Info), Put(<<>>)
  PROVE  reported' = reported /\ info_queue' = info_queue
<1>1. reported' = reported \o Labels(<<>>) /\ info_queue' = info_queue \o <<>>
  BY DEF Put, Labels, Label
<1>2. Labels(<<>>) = <<>>
  BY DEF Labels
<1>3. reported \o <<>> = reported /\ info_queue \o <<>> = info_queue
  BY ConcatEmptySeq
<1> QED
  BY <1>1, <1>2, <1>3

\* An info that has its name, or is the end.
Named(f) == f.last \/ (f.item # Null /\ f.item = f.audio)

LEMMA PutNamed ==
  ASSUME TypeOK, TracksNamed, cur # Null,
         \/ Put(<<>>) \/ Put(<<Track(cur)>>) \/ Put(<<Track(cur)>> \o <<TheEnd>>)
  PROVE  TracksNamed'
<1>1. TracksNamed <=> \A f \in Range(info_queue) : Named(f)
  BY DEF TracksNamed, Range, Named
<1>2. TracksNamed' <=> \A f \in Range(info_queue') : Named(f)
  BY DEF TracksNamed, Range, Named
<1>3. PICK new \in Seq(Info) : Put(new) /\ \A f \in Range(new) : Named(f)
  <2>1. Track(cur) \in Info /\ TheEnd \in Info
    BY DEF TypeOK, Track, TheEnd, Info
  <2>2. Named(Track(cur)) /\ Named(TheEnd)
    BY DEF Named, Track, TheEnd
  <2>3. <<>> \in Seq(Info) /\ <<Track(cur)>> \in Seq(Info) /\ <<TheEnd>> \in Seq(Info)
    BY <2>1
  <2>4. Range(<<>>) = {} /\ \A t : Range(<<t>>) = {t}
    BY DEF Range
  <2>5. <<Track(cur)>> \o <<TheEnd>> \in Seq(Info)
    BY <2>3, ConcatProperties
  <2>6. Range(<<Track(cur)>> \o <<TheEnd>>) = Range(<<Track(cur)>>) \cup Range(<<TheEnd>>)
    BY <2>3, RangeConcatenation
  <2>7. \A f \in Range(<<Track(cur)>> \o <<TheEnd>>) : Named(f)
    BY <2>2, <2>4, <2>6
  <2> DEFINE both == <<Track(cur)>> \o <<TheEnd>>
             one  == <<Track(cur)>>
  <2>8. <<>> \in Seq(Info) /\ \A f \in Range(<<>>) : Named(f)
    BY <2>3, <2>4
  <2>9. one \in Seq(Info) /\ \A f \in Range(one) : Named(f)
    BY <2>2, <2>3, <2>4
  <2>10. both \in Seq(Info) /\ \A f \in Range(both) : Named(f)
    BY <2>5, <2>7
  <2>11. Put(<<>>) \/ Put(one) \/ Put(both)
    OBVIOUS
  <2> HIDE DEF one, both
  <2> QED
    BY <2>8, <2>9, <2>10, <2>11
<1>4. Range(info_queue') = Range(info_queue) \cup Range(new)
  BY <1>3, PutRange DEF TypeOK
<1> QED
  BY <1>1, <1>2, <1>3, <1>4

LEMMA AnalyseStep ==
  ASSUME BoundInv, Plain, TracksNamed, Analyse, setup' = setup, kind' = kind,
         NEW d \in Nat, d + 1 \in DOMAIN setup.feed, buffer = ItemAt(d + 1), Analysed(d)
  PROVE  Analysed(d + 1)' /\ TracksNamed'
<1> DEFINE T == Item \cup {End}
<1>1. /\ setup.feed \in Seq(T) /\ info_head \in Item \cup {Null} /\ cur \in Item \cup {Null}
      /\ kind \in {"fingerprinter", "loudness", "waveform"} /\ TypeOK
  BY FeedAssumption, KindsAssumption DEF BoundInv, TypeOK, FeedTypeOK
<1>2. d # Len(setup.feed) /\ d + 1 # 0 /\ (d + 1 = 1 <=> d = 0) /\ d + 1 - 1 = d
  <2>1. PICK len \in Nat : len = Len(setup.feed) /\ DOMAIN setup.feed = 1 .. len
    BY <1>1, LenProperties
  <2> QED
    BY <2>1
<1>3. Begun(d + 1) = IF Begins(d + 1) THEN Append(Begun(d), buffer) ELSE Begun(d)
  BY <1>1, BegunNext
<1>4. Begins(d + 1) <=> d = 0 \/ buffer # ItemAt(d)
  BY <1>2 DEF Begins
<1>5. reported \in Seq(T) /\ buffer \in T /\ buffer # Null
  <2>1. buffer \in T
    BY <1>1, ElementOfSeq DEF ItemAt
  <2> QED
    BY <2>1, NullAssumption DEF Analysed
\* What is under analysis is the last item, if there is one.
<1>6. /\ info_head # Null => cur = info_head /\ d # 0 /\ info_head = ItemAt(d) /\ info_head \in Item
      /\ info_head = Null => d = 0 \/ ItemAt(d) = End
      /\ kind # "fingerprinter" => cur = info_head
  <2>1. d # 0 => ItemAt(d) \in T
    <3>1. PICK len \in Nat : len = Len(setup.feed) /\ DOMAIN setup.feed = 1 .. len
      BY <1>1, LenProperties
    <3>2. d # 0 => d \in 1 .. len
      BY <3>1
    <3> QED
      BY <1>1, <3>1, <3>2, ElementOfSeq DEF ItemAt
  <2>2. Null \notin T
    BY NullAssumption
  <2> HIDE DEF T
  <2> QED
    BY <1>1, <1>2, <2>1, <2>2 DEF Analysed
<1>7. Finished = IF info_head = Null THEN <<>> ELSE <<Track(info_head)>>
  BY <1>6 DEF Finished
<1>8. ASSUME info_head # Null
      PROVE  /\ Put(<<Track(info_head)>>) => reported' = Append(reported, info_head)
             /\ Put(<<Track(info_head)>> \o <<TheEnd>>) =>
                  reported' = Append(Append(reported, info_head), End)
  BY <1>5, <1>6, <1>8, PutReports
\* What is to be shown, without the primes.
<1>9. SUFFICES
        /\ info_head' = IF buffer = End THEN Null ELSE buffer
        /\ reported' \in Seq(T)
        /\ Begun(d + 1) = IF buffer = End THEN reported' ELSE Append(reported', buffer)
        /\ \/ cur' = IF buffer = End THEN Null ELSE buffer
           \/ kind = "fingerprinter" /\ buffer = End
           \/ kind = "loudness" /\ d + 1 = Len(setup.feed)
        /\ TracksNamed'
  <2>1. Begun(d + 1)' = Begun(d + 1)
    BY BegunSame
  <2>2. ItemAt(d + 1)' = buffer
    BY DEF ItemAt
  <2> QED
    BY <1>2, <1>5, <2>1, <2>2 DEF Analysed
<1>10. CASE buffer = End
  <2>1. d # 0 /\ ItemAt(d) # End /\ (kind = "loudness" /\ ~Album => d + 1 = Len(setup.feed))
    BY <1>2, <1>10 DEF Plain
  <2>2. info_head # Null
    BY <1>6, <2>1
  <2>3. Put(<<Track(info_head)>> \o <<TheEnd>>) /\ info_head' = Null
        /\ cur' = CASE kind = "fingerprinter" -> cur
                    [] kind = "loudness"      -> IF Album THEN Null ELSE cur
                    [] kind = "waveform"      -> Null
    BY <1>7, <1>10, <2>2 DEF Analyse, AnalyseEnd
  <2>4. reported' = Append(Begun(d), End)
    BY <1>8, <2>2, <2>3 DEF Analysed
  <2>5. Begun(d + 1) = reported'
    BY <1>3, <1>4, <1>10, <2>1, <2>4
  <2>6. reported' \in Seq(T)
    BY <1>1, <2>5, BegunType
  <2>7. TracksNamed'
    BY <1>1, <1>6, <2>2, <2>3, PutNamed
  <2>8. \/ cur' = Null
        \/ kind = "fingerprinter"
        \/ kind = "loudness" /\ d + 1 = Len(setup.feed)
    BY <1>1, <2>1, <2>3
  <2> QED
    BY <1>10, <2>3, <2>5, <2>6, <2>7, <2>8
<1>11. CASE buffer # End
  <2> DEFINE new == IF NewItem THEN Finished ELSE <<>>
  <2>1. Put(new) /\ info_head' = buffer /\ cur' = IF NewItem THEN buffer ELSE cur
    BY <1>11 DEF Analyse, AnalyseBuffer
  <2>2. cur' = buffer
    BY <1>5, <1>6, <2>1 DEF NewItem
  <2>3. new = IF info_head = Null \/ buffer = info_head THEN <<>> ELSE <<Track(info_head)>>
    BY <1>7 DEF NewItem
  <2> HIDE DEF new
  <2>4. TracksNamed'
    <3>1. CASE info_head = Null
      <4>1. info_queue' = info_queue
        BY <1>1, <1>5, <2>1, <2>3, <3>1, PutNothing DEF TypeOK
      <4> QED
        BY <4>1 DEF TracksNamed
    <3>2. CASE info_head # Null
      BY <1>1, <1>6, <2>1, <2>3, <3>2, PutNamed
    <3> QED
      BY <3>1, <3>2
  <2>5. Begun(d + 1) = Append(reported', buffer) /\ reported' \in Seq(T)
    <3>1. CASE info_head = Null
      <4>1. reported' = reported /\ Begun(d) = reported
        BY <1>1, <1>5, <2>1, <2>3, <3>1, PutNothing DEF Analysed, TypeOK
      <4> QED
        BY <1>3, <1>4, <1>5, <1>6, <1>11, <3>1, <4>1
    <3>2. CASE info_head # Null /\ buffer # info_head
      <4>1. reported' = Append(reported, info_head) /\ Begun(d) = Append(reported, info_head)
        BY <1>8, <2>1, <2>3, <3>2 DEF Analysed
      <4>2. Append(reported, info_head) \in Seq(T)
        BY <1>5, <1>6, <3>2, AppendProperties
      <4> QED
        BY <1>3, <1>4, <1>6, <3>2, <4>1, <4>2
    <3>3. CASE info_head # Null /\ buffer = info_head
      <4>1. reported' = reported /\ Begun(d) = Append(reported, info_head)
        BY <1>1, <1>5, <2>1, <2>3, <3>3, PutNothing DEF Analysed, TypeOK
      <4> QED
        BY <1>3, <1>4, <1>5, <1>6, <3>3, <4>1
    <3> QED
      BY <3>1, <3>2, <3>3
  <2> QED
    BY <1>11, <2>1, <2>2, <2>4, <2>5
<1> QED
  BY <1>10, <1>11

LEMMA ReportInit ==
  ASSUME Init
  PROVE  ReportInv
<1> DEFINE len == Len(setup.feed)
<1>1. setup.feed \in Seq(Item \cup {End})
  BY FeedAssumption DEF Init, FeedInit
<1>2. len \in Nat /\ DOMAIN setup.feed = 1 .. len
  BY <1>1, LenProperties
<1> HIDE DEF len
<1>3. todo = Span(0, len) /\ audioq = Span(0, 0)
  <2>1. len - 0 = len /\ \A p \in 1 .. len : 0 + p = p
    BY <1>2
  <2>2. Span(0, 0) = <<>>
    BY SpanIs
  <2> QED
    BY <1>2, <2>1, <2>2 DEF Init, FeedInit, Span
<1>4. Analysed(0)
  BY BegunNone DEF Analysed, Init
<1>5. Untouched /\ TracksNamed
  BY DEF Untouched, TracksNamed, Init, FeedInit
<1>6. 0 \in 0 .. len /\ 0 \in 0 .. 0 /\ buffer = Null
  BY <1>2 DEF Init
<1>7. todo = Span(0, Len(setup.feed)) /\ 0 \in 0 .. Len(setup.feed)
  BY <1>3, <1>6 DEF len
<1> QED
  BY <1>3, <1>4, <1>5, <1>6, <1>7 DEF ReportInv

LEMMA ReportStep ==
  ASSUME BoundInv, LeftAlone, Plain, ReportInv, Next \/ UNCHANGED vars
  PROVE  ReportInv'
<1> DEFINE len == Len(setup.feed)
<1>1. setup.feed \in Seq(Item \cup {End}) /\ TypeOK
  BY FeedAssumption DEF BoundInv, TypeOK, FeedTypeOK
<1>2. len \in Nat /\ DOMAIN setup.feed = 1 .. len
  BY <1>1, LenProperties
<1>3. PICK m \in 0 .. len : \E n \in 0 .. m :
       /\ todo = Span(m, len) /\ audioq = Span(n, m)
       /\ IF buffer = Null THEN Analysed(n) ELSE n # 0 /\ buffer = ItemAt(n) /\ Analysed(n - 1)
  BY DEF ReportInv
<1>4. PICK n \in 0 .. m :
       /\ todo = Span(m, len) /\ audioq = Span(n, m)
       /\ IF buffer = Null THEN Analysed(n) ELSE n # 0 /\ buffer = ItemAt(n) /\ Analysed(n - 1)
  BY <1>3
<1> HIDE DEF len
<1>5. n \in Nat /\ m \in Nat /\ n <= m /\ m <= len
  BY <1>2, <1>3, <1>4
<1>6. Untouched' /\ setup' = setup /\ kind' = kind
  <2>1. Untouched
    BY DEF ReportInv
  <2>2. CASE Next
    BY <2>1, <2>2, AloneNext
  <2>3. CASE UNCHANGED vars
    BY <2>1, <2>3 DEF vars, feed, Untouched
  <2> QED
    BY <2>2, <2>3
\* The same places with what is analysed as it was, or one more of them.
<1>7. ASSUME NEW k \in Nat, NEW j \in Nat, k <= j, j <= len,
             todo' = Span(j, len), audioq' = Span(k, j), TracksNamed',
             IF buffer' = Null THEN Analysed(k)' ELSE k # 0 /\ buffer' = ItemAt(k) /\ Analysed(k - 1)'
      PROVE  ReportInv'
  <2>1. j \in 0 .. len /\ k \in 0 .. j
    BY <1>2, <1>7
  <2>2. ItemAt(k)' = ItemAt(k) /\ Len(setup'.feed) = len
    BY <1>6 DEF ItemAt, len
  <2> QED
    BY <1>6, <1>7, <2>1, <2>2 DEF ReportInv
<1>8. ASSUME UNCHANGED <<analysis, reported>>, NEW k \in Nat, Analysed(k) PROVE Analysed(k)'
  <2>1. Begun(k)' = Begun(k)
    BY <1>6, BegunSame
  <2>2. ItemAt(k)' = ItemAt(k) /\ setup' = setup /\ kind' = kind
    BY <1>6 DEF ItemAt
  <2> QED
    BY <1>8, <2>1, <2>2 DEF Analysed, analysis
<1>9. ASSUME UNCHANGED <<analysis, reported, todo, audioq, buffer>>, TracksNamed' PROVE ReportInv'
  <2>1. CASE buffer = Null
    BY <1>4, <1>5, <1>7, <1>8, <1>9, <2>1
  <2>2. CASE buffer # Null
    <3>1. n - 1 \in Nat
      BY <1>4, <1>5, <2>2
    <3> QED
      BY <1>4, <1>5, <1>7, <1>8, <1>9, <2>2, <3>1
  <2> QED
    BY <2>1, <2>2
<1>10. ASSUME UNCHANGED infos PROVE TracksNamed'
  BY <1>10 DEF infos, TracksNamed, ReportInv
<1>11. CASE UNCHANGED vars
  BY <1>9, <1>10, <1>11 DEF vars, feed, thread, history
<1>12. CASE \/ ThreadStart \/ Check \/ Lock \/ Loop \/ Sleep \/ Woken \/ GetAborted \/ SpuriousWake
  BY <1>9, <1>10, <1>12
     DEF ThreadStart, Check, Lock, Loop, Sleep, Woken, GetAborted, SpuriousWake, feed, history
<1>13. CASE GetBuffer
  <2>1. /\ audioq # <<>> /\ audioq' = Tail(audioq) /\ buffer' = ItemAt(Head(audioq))
        /\ UNCHANGED <<analysis, reported, todo>> /\ buffer = Null
    BY <1>13 DEF GetBuffer, TakeBuffer, history, BoundInv
  <2>2. n < m /\ n + 1 \in Nat /\ n + 1 <= m /\ n + 1 # 0 /\ n + 1 - 1 = n
    BY <1>4, <1>5, <2>1, SpanIs
  <2>3. audioq' = Span(n + 1, m) /\ buffer' = ItemAt(n + 1)
    BY <1>4, <1>5, <2>1, <2>2, SpanFirst
  <2>4. Analysed(n)'
    BY <1>4, <1>5, <1>8, <2>1
  <2>5. buffer' # Null
    <3>1. n + 1 \in 1 .. len
      BY <1>2, <1>5, <2>2
    <3>2. ItemAt(n + 1) \in Item \cup {End}
      BY <1>1, <1>2, <3>1 DEF ItemAt
    <3> QED
      BY <2>3, <3>2, NullAssumption
  <2>6. TracksNamed'
    BY <1>10, <1>13 DEF GetBuffer
  <2> QED
    BY <1>4, <1>5, <1>7, <2>1, <2>2, <2>3, <2>4, <2>5, <2>6
<1>14. CASE Analyse
  <2>1. buffer # Null /\ buffer' = Null /\ UNCHANGED <<todo, audioq>>
    BY <1>14, NullAssumption DEF Analyse, feed, BoundInv
  <2>2. PICK d \in Nat : n = d + 1
    <3>1. n - 1 \in Nat /\ n = (n - 1) + 1
      BY <1>4, <1>5, <2>1
    <3> QED
      BY <3>1
  <2>3. d + 1 \in DOMAIN setup.feed /\ n - 1 = d
    BY <1>2, <1>5, <2>2
  <2>4. buffer = ItemAt(d + 1) /\ Analysed(d)
    BY <1>4, <2>1, <2>2, <2>3
  <2>5. Analysed(d + 1)' /\ TracksNamed'
    BY <1>6, <1>14, <2>3, <2>4, AnalyseStep DEF ReportInv
  <2> QED
    BY <1>4, <1>5, <1>7, <2>1, <2>2, <2>5
<1>15. CASE InfoGet
  <2>1. info_queue # <<>> /\ info_queue' = Tail(info_queue)
        /\ UNCHANGED <<analysis, reported, todo, audioq, buffer>>
    BY <1>15 DEF InfoGet, feed, history
  <2>2. Range(Tail(info_queue)) \subseteq Range(info_queue)
    BY <1>1, <2>1, HeadTailRange DEF TypeOK
  <2>3. TracksNamed'
    BY <2>1, <2>2 DEF TracksNamed, Range, ReportInv
  <2> QED
    BY <1>9, <2>1, <2>3
<1>16. CASE Deliver
  <2>1. /\ todo # <<>> /\ todo' = Tail(todo) /\ audioq' = Append(audioq, Head(todo))
        /\ UNCHANGED <<analysis, reported, buffer>>
    BY <1>16 DEF Deliver, DeliverBuffer, history, thread
  <2>2. m < len /\ m + 1 \in Nat /\ m + 1 <= len /\ n <= m + 1
    BY <1>2, <1>4, <1>5, <2>1, SpanIs
  <2>3. todo' = Span(m + 1, len) /\ audioq' = Span(n, m + 1)
    BY <1>2, <1>4, <1>5, <2>1, <2>2, SpanFirst, SpanLast
  <2>4. TracksNamed'
    BY <1>10, <1>16 DEF Deliver
  <2>5. IF buffer' = Null THEN Analysed(n)' ELSE n # 0 /\ buffer' = ItemAt(n) /\ Analysed(n - 1)'
    <3>1. n # 0 => n - 1 \in Nat
      BY <1>5
    <3> QED
      BY <1>4, <1>5, <1>8, <2>1, <3>1
  <2> QED
    BY <1>5, <1>7, <2>2, <2>3, <2>4, <2>5
<1> QED
  BY <1>11, <1>12, <1>13, <1>14, <1>15, <1>16, AloneNext DEF Thread, ReportInv

ReportsInv == BoundInv /\ (LeftAlone /\ Plain => ReportInv)

(***************************************************************************)
(* Left alone, the sink reports the items of the playlist as they begin,    *)
(* none twice and none left out, with the end after the last one, and every *)
(* info it has for the application is of the item it is about: however      *)
(* long the playlist, and whatever the sizes of the queues.                *)
(***************************************************************************)
THEOREM ReportedInOrder == Spec => []ReportsInOrder
<1>1. Init => ReportsInv
  BY BoundInit, ReportInit DEF ReportsInv
<1>2. ReportsInv /\ [Next]_vars => ReportsInv'
  <2> SUFFICES ASSUME ReportsInv, [Next]_vars PROVE ReportsInv'
    OBVIOUS
  <2>1. BoundInv'
    BY BoundStep DEF ReportsInv
  <2>2. ASSUME LeftAlone', Plain' PROVE ReportInv'
    <3>1. setup' = setup /\ kind' = kind
      BY SetupKept
    <3>2. LeftAlone /\ Plain
      BY <2>2, <3>1 DEF LeftAlone, Plain, ItemAt, Album
    <3> QED
      BY <3>2, ReportStep DEF ReportsInv
  <2> QED
    BY <2>1, <2>2 DEF ReportsInv
<1>3. ReportsInv => ReportsInOrder
  <2> SUFFICES ASSUME ReportsInv, LeftAlone, Plain PROVE IsPrefix(reported, Expected) /\ TracksNamed
    BY DEF ReportsInOrder
  <2>1. TypeOK /\ ReportInv
    BY DEF ReportsInv, BoundInv
  <2>2. Len(setup.feed) \in Nat
    <3>1. setup.feed \in Seq(Item \cup {End})
      BY <2>1, FeedAssumption DEF TypeOK, FeedTypeOK
    <3> QED
      BY <3>1, LenProperties
  <2>3. PICK d \in 0 .. Len(setup.feed) : Analysed(d)
    <3>1. PICK m \in 0 .. Len(setup.feed) : \E n \in 0 .. m :
             IF buffer = Null THEN Analysed(n) ELSE n # 0 /\ Analysed(n - 1)
      BY <2>1 DEF ReportInv
    <3>2. PICK n \in 0 .. m : IF buffer = Null THEN Analysed(n) ELSE n # 0 /\ Analysed(n - 1)
      BY <3>1
    <3>3. n \in 0 .. Len(setup.feed) /\ (n # 0 => n - 1 \in 0 .. Len(setup.feed))
      BY <2>2, <3>1, <3>2
    <3> QED
      BY <3>2, <3>3
  <2> QED
    BY <2>1, <2>3, AnalysedPrefix DEF ReportInv
<1> QED
  BY <1>1, <1>2, <1>3, PTL DEF Spec, SafeSpec
================================================================================
