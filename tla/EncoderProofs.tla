------------------------------ MODULE EncoderProofs ------------------------------
(***************************************************************************)
(* The encoder of Encoder, whatever the playlist, the size of its queue,    *)
(* what the codec and the muxer keep back and what the application calls:   *)
(* audioq_size is what the queue holds, an attached encoder has a thread    *)
(* that runs, no item is referred to after it is freed, the stream that is  *)
(* read is the playlist's audio, in order and without a gap, and the format *)
(* of it is the closest to what was asked for that the codec takes.        *)
(***************************************************************************)
EXTENDS Encoder, KeepSeqProofs

--------------------------------------------------------------------------------
(* How many bytes a sequence of chunks comes to.                           *)

BytesStep(f, s, n) == IF n = 0 THEN 0 ELSE f[n - 1] + Len(s[n].data)

LEMMA BytesDef ==
  ASSUME NEW T, NEW s \in Seq(T)
  PROVE  \A n \in 0 .. Len(s) : BytesUpto(s)[n] = BytesStep(BytesUpto(s), s, n)
<1> DEFINE Upto(n, f) == f = [m \in 0 .. n |-> BytesStep(f, s, m)]
           L == {n \in Nat : \E f : Upto(n, f)}
<1>1. 0 \in L
  <2> DEFINE f == [m \in 0 .. 0 |-> 0]
  <2>1. Upto(0, f)
    BY DEF BytesStep
  <2> QED
    BY <2>1
<1>2. ASSUME NEW n \in L PROVE n + 1 \in L
  <2>1. PICK f : Upto(n, f)
    BY <1>2
  <2> DEFINE g == [m \in 0 .. n + 1 |-> IF m = n + 1 THEN BytesStep(f, s, m) ELSE f[m]]
  <2>2. ASSUME NEW m \in 0 .. n + 1 PROVE g[m] = BytesStep(g, s, m)
    <3>1. CASE m = n + 1
      BY <3>1, <2>1 DEF BytesStep
    <3>2. CASE m # n + 1
      <4>1. m \in 0 .. n /\ g[m] = f[m] /\ f[m] = BytesStep(f, s, m)
        BY <3>2, <2>1
      <4>2. m # 0 => m - 1 \in 0 .. n + 1 /\ m - 1 # n + 1
        BY <4>1
      <4>3. m # 0 => g[m - 1] = f[m - 1]
        BY <4>2
      <4> HIDE DEF g
      <4> QED
        BY <4>1, <4>3 DEF BytesStep
    <3> QED
      BY <3>1, <3>2
  <2>3. Upto(n + 1, g)
    BY <2>2
  <2> HIDE DEF g
  <2>4. \E h : Upto(n + 1, h)
    BY <2>3
  <2> QED
    BY <2>4
<1>3. L = Nat
  <2>1. L \in SUBSET Nat
    OBVIOUS
  <2> HIDE DEF L
  <2> QED
    BY <1>1, <1>2, <2>1, NatInd
<1>4. PICK f : Upto(Len(s), f)
  BY <1>3
<1>5. BytesUpto(s) = CHOOSE g : g = [m \in 0 .. Len(s) |-> BytesStep(g, s, m)]
  BY DEF BytesUpto, BytesStep
<1>6. Upto(Len(s), BytesUpto(s))
  BY <1>4, <1>5
<1> QED
  BY <1>6

LEMMA BytesEmpty == Bytes(<<>>) = 0
<1>1. <<>> \in Seq({}) /\ Len(<<>>) = 0 /\ 0 \in 0 .. 0
  OBVIOUS
<1>2. BytesUpto(<<>>)[0] = BytesStep(BytesUpto(<<>>), <<>>, 0)
  BY <1>1, BytesDef
<1> QED
  BY <1>1, <1>2 DEF Bytes, BytesStep

LEMMA BytesAppend ==
  ASSUME NEW T, NEW s \in Seq(T), NEW x \in T
  PROVE  Bytes(Append(s, x)) = Bytes(s) + Len(x.data)
<1> DEFINE t == Append(s, x)
<1>1. t \in Seq(T) /\ Len(t) = Len(s) + 1 /\ t[Len(t)] = x /\ \A n \in 1 .. Len(s) : t[n] = s[n]
  BY AppendProperties
<1>2. \A n \in 0 .. Len(s) : BytesUpto(s)[n] = BytesStep(BytesUpto(s), s, n)
  BY BytesDef
<1>3. \A n \in 0 .. Len(t) : BytesUpto(t)[n] = BytesStep(BytesUpto(t), t, n)
  BY <1>1, BytesDef
<1> HIDE DEF t
<1> DEFINE L == {n \in Nat : n <= Len(s) => BytesUpto(t)[n] = BytesUpto(s)[n]}
<1>4. 0 \in L
  BY <1>1, <1>2, <1>3 DEF BytesStep
<1>5. ASSUME NEW n \in L PROVE n + 1 \in L
  <2>1. SUFFICES ASSUME n + 1 <= Len(s) PROVE BytesUpto(t)[n + 1] = BytesUpto(s)[n + 1]
    OBVIOUS
  <2>2. BytesUpto(t)[n] = BytesUpto(s)[n] /\ t[n + 1] = s[n + 1]
    BY <2>1, <1>1
  <2>3. n + 1 \in 0 .. Len(s) /\ n + 1 \in 0 .. Len(t) /\ n + 1 # 0 /\ (n + 1) - 1 = n
    BY <2>1, <1>1
  <2> QED
    BY <2>2, <2>3, <1>2, <1>3 DEF BytesStep
<1>6. L = Nat
  <2>1. L \in SUBSET Nat
    OBVIOUS
  <2> HIDE DEF L
  <2> QED
    BY <1>4, <1>5, <2>1, NatInd
<1>7. BytesUpto(t)[Len(s)] = BytesUpto(s)[Len(s)]
  BY <1>6
<1>8. BytesUpto(t)[Len(t)] = BytesUpto(t)[Len(s)] + Len(x.data)
  BY <1>1, <1>3 DEF BytesStep
<1> QED
  BY <1>7, <1>8 DEF Bytes, t

LEMMA BytesNat ==
  ASSUME NEW T, \A x \in T : Len(x.data) \in Nat, NEW s \in Seq(T)
  PROVE  Bytes(s) \in Nat
<1> DEFINE P == {u \in Seq(T) : Bytes(u) \in Nat}
<1>1. <<>> \in P
  BY BytesEmpty
<1>2. ASSUME NEW u \in P, NEW x \in T PROVE Append(u, x) \in P
  <2>1. Append(u, x) \in Seq(T)
    BY AppendProperties
  <2>2. Bytes(Append(u, x)) = Bytes(u) + Len(x.data)
    BY BytesAppend
  <2>3. Bytes(u) \in Nat /\ Len(x.data) \in Nat
    OBVIOUS
  <2> QED
    BY <2>1, <2>2, <2>3
<1>3. P = Seq(T)
  <2>1. P \in SUBSET Seq(T)
    OBVIOUS
  <2> HIDE DEF P
  <2> QED
    BY <1>1, <1>2, <2>1, SeqInd
<1> QED
  BY <1>3

LEMMA BytesConcat ==
  ASSUME NEW T, \A x \in T : Len(x.data) \in Nat, NEW r \in Seq(T), NEW s \in Seq(T)
  PROVE  Bytes(r \o s) = Bytes(r) + Bytes(s)
<1> DEFINE P == {u \in Seq(T) : Bytes(r \o u) = Bytes(r) + Bytes(u)}
<1>1. <<>> \in P
  <2>1. r \o <<>> = r /\ Bytes(r) \in Nat
    BY ConcatEmptySeq, BytesNat
  <2>2. <<>> \in Seq(T)
    OBVIOUS
  <2> QED
    BY <2>1, <2>2, BytesEmpty
<1>2. ASSUME NEW u \in P, NEW x \in T PROVE Append(u, x) \in P
  <2>1. u \in Seq(T) /\ Bytes(r \o u) = Bytes(r) + Bytes(u)
    OBVIOUS
  <2> HIDE DEF P
  <2>2. Bytes(r) \in Nat
    BY BytesNat
  <2>3. Bytes(u) \in Nat
    BY <2>1, BytesNat
  <2>4. r \o u \in Seq(T)
    BY <2>1, ConcatProperties
  <2>5. Append(u, x) \in Seq(T)
    BY <2>1, AppendProperties
  <2>6. \A a, b \in Seq(T) : a \o Append(b, x) = Append(a \o b, x)
    OBVIOUS
  <2>7. r \o Append(u, x) = Append(r \o u, x)
    BY <2>1, <2>6
  <2>8. Bytes(Append(r \o u, x)) = Bytes(r \o u) + Len(x.data)
    BY <2>4, BytesAppend
  <2>9. Bytes(Append(u, x)) = Bytes(u) + Len(x.data)
    BY <2>1, BytesAppend
  <2>10. Len(x.data) \in Nat
    OBVIOUS
  <2>11. Bytes(r \o Append(u, x)) = Bytes(r) + Bytes(Append(u, x))
    BY <2>1, <2>2, <2>3, <2>7, <2>8, <2>9, <2>10
  <2> QED
    BY <2>5, <2>11 DEF P
<1>3. P = Seq(T)
  <2>1. P \in SUBSET Seq(T)
    OBVIOUS
  <2> HIDE DEF P
  <2> QED
    BY <1>1, <1>2, <2>1, SeqInd
<1> QED
  BY <1>3

LEMMA BytesHeadTail ==
  ASSUME NEW T, \A x \in T : Len(x.data) \in Nat, NEW s \in Seq(T), s # <<>>
  PROVE  Bytes(s) = Len(Head(s).data) + Bytes(Tail(s))
<1>1. Head(s) \in T /\ Tail(s) \in Seq(T)
  BY HeadTailProperties
<1>2. <<Head(s)>> \in Seq(T) /\ <<>> \in Seq(T)
  BY <1>1
<1>3. Bytes(<<Head(s)>>) = Len(Head(s).data)
  <2>1. Append(<<>>, Head(s)) = <<Head(s)>>
    OBVIOUS
  <2>2. Bytes(Append(<<>>, Head(s))) = Bytes(<<>>) + Len(Head(s).data)
    BY <1>1, <1>2, BytesAppend
  <2>3. Len(Head(s).data) \in Nat
    BY <1>1
  <2> QED
    BY <2>1, <2>2, <2>3, BytesEmpty
<1>4. s = <<Head(s)>> \o Tail(s)
  <2>1. Len(<<Head(s)>> \o Tail(s)) = Len(s) /\ <<Head(s)>> \o Tail(s) \in Seq(T)
    BY <1>1, <1>2
  <2>2. \A n \in 1 .. Len(s) : (<<Head(s)>> \o Tail(s))[n] = s[n]
    BY <1>1, <1>2
  <2> QED
    BY <2>1, <2>2, SeqEqual
<1>5. Bytes(<<Head(s)>> \o Tail(s)) = Bytes(<<Head(s)>>) + Bytes(Tail(s))
  BY <1>1, <1>2, BytesConcat
<1> QED
  BY <1>3, <1>4, <1>5

\* What goes and what is kept are the whole of it, in bytes too.
LEMMA BytesKeep ==
  ASSUME NEW T, NEW S, NEW R, \A x \in T : x \in S <=> x \notin R,
         \A x \in T : Len(x.data) \in Nat, NEW s \in Seq(T)
  PROVE  Bytes(Keep(s, S)) + Bytes(Keep(s, R)) = Bytes(s)
<1> DEFINE P == {u \in Seq(T) : Bytes(Keep(u, S)) + Bytes(Keep(u, R)) = Bytes(u)}
<1>1. <<>> \in P
  BY KeepEmpty, BytesEmpty
<1>2. ASSUME NEW u \in P, NEW x \in T PROVE Append(u, x) \in P
  <2>1. u \in Seq(T) /\ Bytes(Keep(u, S)) + Bytes(Keep(u, R)) = Bytes(u)
    OBVIOUS
  <2> HIDE DEF P
  <2>2. Keep(u, S) \in Seq(T)
    BY <2>1, KeepType
  <2>3. Keep(u, R) \in Seq(T)
    BY <2>1, KeepType
  <2>4. Bytes(Keep(u, S)) \in Nat
    BY <2>2, BytesNat
  <2>5. Bytes(Keep(u, R)) \in Nat
    BY <2>3, BytesNat
  <2>6. Append(u, x) \in Seq(T)
    BY <2>1, AppendProperties
  <2>7. Keep(Append(u, x), S) = IF x \in S THEN Append(Keep(u, S), x) ELSE Keep(u, S)
    BY <2>1, KeepAppend
  <2>8. Keep(Append(u, x), R) = IF x \in R THEN Append(Keep(u, R), x) ELSE Keep(u, R)
    BY <2>1, KeepAppend
  <2>9. Bytes(Append(u, x)) = Bytes(u) + Len(x.data)
    BY <2>1, BytesAppend
  <2>10. Bytes(Append(Keep(u, S), x)) = Bytes(Keep(u, S)) + Len(x.data)
    BY <2>2, BytesAppend
  <2>11. Bytes(Append(Keep(u, R), x)) = Bytes(Keep(u, R)) + Len(x.data)
    BY <2>3, BytesAppend
  <2>12. Len(x.data) \in Nat
    OBVIOUS
  <2>13. Bytes(Keep(Append(u, x), S)) + Bytes(Keep(Append(u, x), R)) = Bytes(Append(u, x))
    <3>1. CASE x \in S
      <4>1. x \notin R
        BY <3>1
      <4> QED
        BY <3>1, <4>1, <2>1, <2>4, <2>5, <2>7, <2>8, <2>9, <2>10, <2>12
    <3>2. CASE x \notin S
      <4>1. x \in R
        BY <3>2
      <4> QED
        BY <3>2, <4>1, <2>1, <2>4, <2>5, <2>7, <2>8, <2>9, <2>11, <2>12
    <3> QED
      BY <3>1, <3>2
  <2> QED
    BY <2>6, <2>13 DEF P
<1>3. P = Seq(T)
  <2>1. P \in SUBSET Seq(T)
    OBVIOUS
  <2> HIDE DEF P
  <2> QED
    BY <1>1, <1>2, <2>1, SeqInd
<1> QED
  BY <1>3

--------------------------------------------------------------------------------
(* The call, the thread and what they hold.                                *)

CallPc   == {"idle", "purge_hook", "free", "sink_abort", "sink_map", "detached", "out_aborted", "join"}
ThreadPc == {"check", "lock", "sleep", "asleep", "woken", "get", "got", "done"}

\* Where the call is, and that the thread has ended when a detach is over.
CallInv ==
  /\ apc \in CallPc
  /\ arg # Null <=> apc \in {"purge_hook", "free"}
  /\ apc \in {"purge_hook", "sink_abort", "sink_map"} => attached
  /\ apc \in {"detached", "out_aborted", "join"} => ~attached
  /\ ~attached => ~flushing
  /\ ~attached /\ apc \in {"idle", "free"} => tpc = "done"

\* The flags that end the thread are down outside a detach, and that is why an
\* attach finds them down.
RunInv ==
  ~refused /\ apc \in {"idle", "purge_hook", "free"} =>
    /\ ~abort_request
    /\ attached => ~aborted /\ tpc # "done"

TypeInv ==
  /\ TypeOK
  /\ tpc \in ThreadPc
  /\ IF tpc = "got" THEN buffer \in DOMAIN setup.feed ELSE buffer = Null

AttachedInv == TypeInv /\ CallInv /\ RunInv

LEMMA FeedTypeStep ==
  ASSUME FeedTypeOK, Next \/ UNCHANGED vars
  PROVE  FeedTypeOK'
<1> USE DEF FeedTypeOK
<1> DEFINE Q == Seq(DOMAIN setup.feed)
<1>1. CASE UNCHANGED feed
  BY <1>1 DEF feed
<1>2. ASSUME NEW n, DeliverBuffer(n) PROVE FeedTypeOK'
  <2>1. todo # <<>>
    BY <1>2 DEF DeliverBuffer
  <2>2. Head(todo) \in DOMAIN setup.feed /\ Tail(todo) \in Q
    BY <2>1, HeadTailRange
  <2>3. Append(audioq, Head(todo)) \in Q
    BY <2>2, AppendProperties
  <2> QED
    BY <1>2, <2>2, <2>3 DEF DeliverBuffer
<1>3. CASE TakeBuffer
  <2>1. audioq # <<>>
    BY <1>3 DEF TakeBuffer
  <2>2. Tail(audioq) \in Q
    BY <2>1, HeadTailRange
  <2> QED
    BY <1>3, <2>2 DEF TakeBuffer
<1>4. ASSUME NEW i \in Item, RemoveBegin(i) \/ RemoveStraggling(i) PROVE FeedTypeOK'
  <2>1. Without(todo, i) \in Q
    BY KeepType DEF Without
  <2>2. Without(audioq, i) \in Q
    BY KeepType DEF Without
  <2>3. RemoveStraggling(i) => <<Head(todo)>> \o Without(Tail(todo), i) \in Q
    <3> SUFFICES ASSUME RemoveStraggling(i) PROVE <<Head(todo)>> \o Without(Tail(todo), i) \in Q
      OBVIOUS
    <3>1. todo # <<>>
      BY DEF RemoveStraggling
    <3>2. Head(todo) \in DOMAIN setup.feed /\ Tail(todo) \in Q
      BY <3>1, HeadTailRange
    <3>3. Without(Tail(todo), i) \in Q
      BY <3>2, KeepType DEF Without
    <3>4. ASSUME NEW T, NEW x \in T PROVE <<x>> \in Seq(T)
      OBVIOUS
    <3>5. <<Head(todo)>> \in Q
      BY <3>2, <3>4
    <3> QED
      BY <3>3, <3>5, ConcatProperties
  <2> QED
    BY <1>4, <2>1, <2>2, <2>3 DEF RemoveBegin, RemoveStraggling, RemoveCall
<1>5. CASE RemoveEnd
  BY <1>5 DEF RemoveEnd
<1>6. ASSUME NEW p \in setup.seekTo, SeekBegin(p) PROVE FeedTypeOK'
  <2> DEFINE rest == [k \in 1 .. Len(setup.feed) - p + 1 |-> p + k - 1]
  <2>1. setup.feed \in Seq(Item \cup {End}) /\ p \in DOMAIN setup.feed
    BY FeedAssumption
  <2>2. DOMAIN setup.feed = 1 .. Len(setup.feed) /\ Len(setup.feed) \in Nat
    BY <2>1
  <2>3. rest \in Q
    <3>1. p \in 1 .. Len(setup.feed) /\ Len(setup.feed) - p + 1 \in Nat
      BY <2>1, <2>2
    <3>2. \A k \in 1 .. Len(setup.feed) - p + 1 : p + k - 1 \in 1 .. Len(setup.feed)
      BY <3>1, <2>2
    <3> QED
      BY <3>1, <3>2, <2>2, IsASeq
  <2>4. Keep(rest, Listed) \in Q
    BY <2>3, KeepType
  <2>5. <<>> \in Q
    OBVIOUS
  <2> HIDE DEF rest
  <2> QED
    BY <1>6, <2>4, <2>5 DEF SeekBegin, rest
<1>7. CASE SeekEnd
  BY <1>7 DEF SeekEnd
<1>8. CASE DetachCall("sink_abort")
  BY <1>8 DEF DetachCall
<1>9. CASE SinkAbort \/ SinkUnmap
  <2>1. <<>> \in Q
    OBVIOUS
  <2> QED
    BY <1>9, <2>1 DEF SinkAbort, SinkUnmap
<1>10. CASE AttachCall("idle")
  BY <1>10 DEF AttachCall
<1>11. ASSUME NEW from, NEW to, Proceed(from, to) PROVE FeedTypeOK'
  BY <1>11 DEF Proceed
<1> HIDE DEF FeedTypeOK
<1>12. CASE UNCHANGED vars
  BY <1>12, <1>1 DEF vars
<1>13. CASE Thread \/ SpuriousWake \/ BufferGet
  BY <1>13, <1>1, <1>3
     DEF Thread, Check, Lock, Sleep, Woken, GetBuffer, GetAborted, Encode, SpuriousWake, BufferGet
<1>14. CASE Deliver \/ Continue
  BY <1>14, <1>2, <1>5, <1>7, <1>9, <1>11
     DEF Deliver, Continue, PurgeHook, RemoveFree, FlushHook, DetachSink, DetachOutput,
         DetachSignal, Joined
<1>15. CASE (\E i \in Item : RemoveItem(i)) \/ \E p \in setup.seekTo : Seek(p)
  BY <1>15, <1>4, <1>6 DEF RemoveItem, Seek
<1>16. CASE DetachBegin
  BY <1>16, <1>8 DEF DetachBegin
<1>17. ASSUME NEW c \in setup.codecs, Attach(c) \/ AttachRefused(c) PROVE FeedTypeOK'
  <2>1. CASE Attach(c)
    BY <2>1, <1>10 DEF Attach
  <2>2. CASE AttachRefused(c)
    BY <2>2 DEF AttachRefused, FeedTypeOK
  <2> QED
    BY <1>17, <2>1, <2>2
<1> QED
  BY <1>12, <1>13, <1>14, <1>15, <1>16, <1>17 DEF Next

LEMMA CallStep ==
  ASSUME CallInv, Next \/ UNCHANGED vars
  PROVE  CallInv'
<1> USE DEF CallInv, CallPc
<1>1. CASE UNCHANGED vars
  BY <1>1 DEF vars, feed, thread
<1>2. CASE Thread
  <2>1. tpc # "done"
    BY <1>2 DEF Thread, Check, Lock, Sleep, Woken, GetBuffer, GetAborted, Encode
  <2>2. UNCHANGED <<apc, arg, attached, flushing>>
    BY <1>2 DEF Thread, Check, Lock, Sleep, Woken, GetBuffer, GetAborted, Encode, TakeBuffer, feed
  <2> QED
    BY <2>1, <2>2
<1>3. CASE SpuriousWake
  BY <1>3 DEF SpuriousWake, SignalDrain, feed
<1>4. CASE BufferGet
  <2>1. UNCHANGED feed /\ tpc' \in {tpc, "woken"} /\ (tpc = "done" => tpc' = "done")
    BY <1>4 DEF BufferGet, ReadChunk, ReadEnd, SignalDrain
  <2> QED
    BY <2>1 DEF feed
<1>5. CASE Deliver \/ DetachSink
  BY <1>5 DEF Deliver, DeliverBuffer, DetachSink, SinkAbort, SinkUnmap, DecoderFree, thread
<1>6. ASSUME NEW i \in Item, RemoveItem(i) PROVE CallInv'
  BY <1>6, NullAssumption DEF RemoveItem, RemoveBegin, RemoveStraggling, RemoveCall, May, thread
<1>7. CASE PurgeHook \/ RemoveFree
  BY <1>7 DEF PurgeHook, RemoveFree, RemoveEnd, Proceed, SignalDrain, thread
<1>8. ASSUME NEW p \in setup.seekTo, Seek(p) PROVE CallInv'
  BY <1>8 DEF Seek, SeekBegin, thread
<1>9. CASE FlushHook
  BY <1>9 DEF FlushHook, SeekEnd, SignalDrain
<1>10. CASE DetachBegin
  BY <1>10 DEF DetachBegin, DetachCall, May, thread
<1>11. ASSUME NEW c \in setup.codecs, Attach(c) \/ AttachRefused(c) PROVE CallInv'
  BY <1>11 DEF Attach, AttachCall, AttachRefused, May, thread
<1>12. CASE DetachOutput \/ DetachSignal \/ Joined
  BY <1>12 DEF DetachOutput, DetachSignal, Joined, Proceed, SignalDrain, thread
<1> QED
  BY <1>1, <1>2, <1>3, <1>4, <1>5, <1>6, <1>7, <1>8, <1>9, <1>10, <1>11, <1>12 DEF Next, Continue

LEMMA RunStep ==
  ASSUME CallInv, RunInv, Next \/ UNCHANGED vars
  PROVE  RunInv'
<1> USE DEF RunInv, CallInv, CallPc
<1>1. CASE UNCHANGED vars
  BY <1>1 DEF vars, feed, thread, history
<1>2. CASE Thread
  <2>1. UNCHANGED <<apc, attached, aborted, abort_request, refused>>
    BY <1>2 DEF Thread, Check, Lock, Sleep, Woken, GetBuffer, GetAborted, Encode, TakeBuffer, feed, history
  <2>2. tpc' = "done" => abort_request \/ aborted
    BY <1>2 DEF Thread, Check, Lock, Sleep, Woken, GetBuffer, GetAborted, Encode
  <2>3. apc \in {"idle", "purge_hook", "free"} /\ ~attached => tpc = "done"
    OBVIOUS
  <2> QED
    BY <2>1, <2>2
<1>3. CASE SpuriousWake
  BY <1>3 DEF SpuriousWake, SignalDrain, feed, history
<1>4. CASE BufferGet
  <2>1. UNCHANGED <<feed, abort_request, refused>> /\ tpc' \in {tpc, "woken"}
    BY <1>4 DEF BufferGet, ReadChunk, ReadEnd, SignalDrain
  <2> QED
    BY <2>1 DEF feed
<1>5. CASE Deliver \/ DetachSink
  BY <1>5 DEF Deliver, DeliverBuffer, DetachSink, SinkAbort, SinkUnmap, thread, history
<1>6. ASSUME NEW i \in Item, RemoveItem(i) PROVE RunInv'
  BY <1>6 DEF RemoveItem, RemoveBegin, RemoveStraggling, RemoveCall, May, thread
<1>7. CASE PurgeHook \/ RemoveFree
  BY <1>7 DEF PurgeHook, RemoveFree, RemoveEnd, Proceed, SignalDrain, thread, history
<1>8. ASSUME NEW p \in setup.seekTo, Seek(p) PROVE RunInv'
  BY <1>8 DEF Seek, SeekBegin, thread, history
<1>9. CASE FlushHook
  BY <1>9 DEF FlushHook, SeekEnd, SignalDrain
<1>10. CASE DetachBegin
  BY <1>10 DEF DetachBegin, DetachCall, May
<1>11. ASSUME NEW c \in setup.codecs, Attach(c) \/ AttachRefused(c) PROVE RunInv'
  BY <1>11 DEF Attach, AttachCall, AttachRefused, May, history
<1>12. CASE DetachOutput \/ DetachSignal
  BY <1>12 DEF DetachOutput, DetachSignal, Proceed
<1>13. CASE Joined
  <2>1. ~attached
    BY <1>13 DEF Joined, Proceed
  <2> QED
    BY <1>13, <2>1 DEF Joined, Proceed, history
<1> QED
  BY <1>1, <1>2, <1>3, <1>4, <1>5, <1>6, <1>7, <1>8, <1>9, <1>10, <1>11, <1>12, <1>13
     DEF Next, Continue

--------------------------------------------------------------------------------
(* The types, and the bytes in the queue.                                  *)

LEMMA ChunkLen == \A c \in Chunks : Len(c.data) \in Nat
<1> SUFFICES ASSUME NEW c \in Chunks PROVE Len(c.data) \in Nat
  OBVIOUS
<1>1. c.data \in Seq(Unit)
  BY DEF Chunks, IsSentinel
<1> QED
  BY <1>1, LenProperties

LEMMA ChunkType ==
  ASSUME NEW item \in Item \cup {Null}, NEW data \in Seq(Unit)
  PROVE  Chunk(item, data) \in Seq(Chunks) /\ \A c \in Range(Chunk(item, data)) : c.item = item
<1> DEFINE c == [item |-> item, data |-> data, cut |-> FALSE]
<1>1. ASSUME data # <<>> PROVE c \in Chunks /\ c.item = item
  BY <1>1 DEF Chunks, IsSentinel
<1>2. ASSUME c \in Chunks
      PROVE  <<c>> \in Seq(Chunks) /\ <<>> \in Seq(Chunks) /\ Range(<<c>>) = {c}
  <2> HIDE DEF c
  <2> QED
    BY <1>2 DEF Range
<1>3. CASE data = <<>>
  <2>1. <<>> \in Seq(Chunks) /\ Range(<<>>) = {}
    BY DEF Range
  <2>2. Chunk(item, data) = <<>>
    BY <1>3 DEF Chunk
  <2> QED
    BY <2>1, <2>2
<1>4. CASE data # <<>>
  <2>1. Chunk(item, data) = <<c>>
    BY <1>4 DEF Chunk
  <2> HIDE DEF c
  <2> QED
    BY <1>1, <1>2, <1>4, <2>1
<1> QED
  BY <1>3, <1>4

LEMMA SentinelType ==
  ASSUME NEW cut \in BOOLEAN
  PROVE  Sentinel(cut) \in Seq(Chunks) /\ Bytes(Sentinel(cut)) = 0
         /\ \A c \in Range(Sentinel(cut)) : c.item = Null
<1> DEFINE c == [item |-> Null, data |-> <<>>, cut |-> cut]
<1>1. c \in Chunks /\ c.item = Null /\ Len(c.data) = 0
  <2>1. <<>> \in Seq(Unit) /\ Len(<<>>) = 0
    OBVIOUS
  <2> QED
    BY <2>1 DEF Chunks, IsSentinel
<1>2. Sentinel(cut) = <<c>>
  BY DEF Sentinel
<1> HIDE DEF c
<1>3. <<c>> \in Seq(Chunks) /\ Range(<<c>>) = {c} /\ <<>> \in Seq(Chunks) /\ <<c>> = Append(<<>>, c)
  BY <1>1 DEF Range
<1>4. Bytes(Append(<<>>, c)) = Bytes(<<>>) + Len(c.data)
  BY <1>1, <1>3, BytesAppend
<1>5. Bytes(<<c>>) = 0
  BY <1>1, <1>3, <1>4, BytesEmpty
<1> QED
  BY <1>1, <1>2, <1>3, <1>5

LEMMA PutGrows ==
  ASSUME outq \in Seq(Chunks), audioq_size = Bytes(outq), NEW put \in Seq(Chunks), Put(put)
  PROVE  /\ outq' \in Seq(Chunks) /\ audioq_size' = Bytes(outq')
         /\ Range(outq') = Range(outq) \cup Range(put)
<1>1. outq \o put \in Seq(Chunks)
  BY ConcatProperties
<1>2. Range(outq \o put) = Range(outq) \cup Range(put)
  BY RangeConcatenation
<1>3. Bytes(outq \o put) = Bytes(outq) + Bytes(put)
  BY ChunkLen, BytesConcat
<1> QED
  BY <1>1, <1>2, <1>3 DEF Put

\* What comes out of the first k of a sequence and what stays in.
LEMMA SplitType ==
  ASSUME NEW T, NEW s \in Seq(T), NEW k \in 0 .. Len(s)
  PROVE  SubSeq(s, 1, k) \in Seq(T) /\ SubSeq(s, k + 1, Len(s)) \in Seq(T)
<1>1. Len(s) \in Nat /\ \A n \in 1 .. Len(s) : s[n] \in T
  OBVIOUS
<1>2. 1 \in Int /\ k \in Int /\ k + 1 \in Int /\ Len(s) \in Int
  BY <1>1
<1>3. (\A n \in 1 .. k : s[n] \in T) /\ \A n \in k + 1 .. Len(s) : s[n] \in T
  BY <1>1
<1>4. SubSeq(s, 1, k) \in Seq(T)
  BY <1>2, <1>3, SubSeqProperties
<1>5. SubSeq(s, k + 1, Len(s)) \in Seq(T)
  BY <1>2, <1>3, SubSeqProperties
<1> QED
  BY <1>4, <1>5

LEMMA EncodeBufferType ==
  ASSUME TypeOK, buffer \in DOMAIN setup.feed, ItemAt(buffer) \in Item, EncodeBuffer
  PROVE  /\ codec_queue' \in Seq(DOMAIN setup.feed) /\ avio' \in Seq(Unit)
         /\ outq' \in Seq(Chunks) /\ audioq_size' = Bytes(outq')
         /\ \A c \in Range(outq') : c \in Range(outq) \/ c.item \in {encode_head, ItemAt(buffer)}
<1>1. /\ codec_queue \in Seq(DOMAIN setup.feed) /\ avio \in Seq(Unit)
      /\ outq \in Seq(Chunks) /\ audioq_size = Bytes(outq) /\ encode_head \in Item \cup {Null}
  BY DEF TypeOK
<1>2. <<>> \in Seq(Unit) /\ <<Header>> \in Seq(Unit) /\ <<>> \in Seq(Chunks) /\ Range(<<>>) = {}
  BY DEF Unit, Range
<1> DEFINE frames == Append(codec_queue, buffer)
<1>3. frames \in Seq(DOMAIN setup.feed) /\ Len(frames) = Len(codec_queue) + 1
  BY <1>1, AppendProperties
<1>4. frames \in Seq(Unit)
  <2>1. DOMAIN setup.feed \subseteq Unit
    BY DEF Unit
  <2> QED
    BY <1>3, <2>1, SeqMonotonic
<1> DEFINE written(coded) == (IF sent_header THEN avio ELSE <<>>) \o SubSeq(frames, 1, coded)
<1>5. PICK coded \in 0 .. Len(codec_queue) + 1 :
        /\ codec_queue' = SubSeq(frames, coded + 1, Len(frames))
        /\ \E full \in 0 .. Len(written(coded)) :
             /\ avio' = SubSeq(written(coded), full + 1, Len(written(coded)))
             /\ Put(NewHeader \o Chunk(ItemAt(buffer), SubSeq(written(coded), 1, full)))
  BY DEF EncodeBuffer
<1> HIDE DEF frames
<1>6. codec_queue' \in Seq(DOMAIN setup.feed)
  BY <1>3, <1>5, SplitType
<1> DEFINE w == written(coded)
<1>7. w \in Seq(Unit)
  <2>1. SubSeq(frames, 1, coded) \in Seq(Unit)
    BY <1>3, <1>4, SplitType
  <2>2. (IF sent_header THEN avio ELSE <<>>) \in Seq(Unit)
    BY <1>1, <1>2
  <2> QED
    BY <2>1, <2>2, ConcatProperties
<1>8. PICK full \in 0 .. Len(w) :
        /\ avio' = SubSeq(w, full + 1, Len(w))
        /\ Put(NewHeader \o Chunk(ItemAt(buffer), SubSeq(w, 1, full)))
  BY <1>5
<1> HIDE DEF w
<1>9. avio' \in Seq(Unit) /\ SubSeq(w, 1, full) \in Seq(Unit)
  BY <1>7, <1>8, SplitType
<1> DEFINE chunk == Chunk(ItemAt(buffer), SubSeq(w, 1, full))
<1>10. chunk \in Seq(Chunks) /\ \A c \in Range(chunk) : c.item = ItemAt(buffer)
  BY <1>9, ChunkType
<1>11. NewHeader \in Seq(Chunks) /\ \A c \in Range(NewHeader) : c.item = encode_head
  <2>1. Chunk(encode_head, avio) \in Seq(Chunks)
        /\ \A c \in Range(Chunk(encode_head, avio)) : c.item = encode_head
    BY <1>1, ChunkType
  <2>2. Chunk(encode_head, <<Header>>) \in Seq(Chunks)
        /\ \A c \in Range(Chunk(encode_head, <<Header>>)) : c.item = encode_head
    BY <1>1, <1>2, ChunkType
  <2>3. Chunk(encode_head, avio) \o Chunk(encode_head, <<Header>>) \in Seq(Chunks)
    BY <2>1, <2>2, ConcatProperties
  <2>4. Range(Chunk(encode_head, avio) \o Chunk(encode_head, <<Header>>))
          = Range(Chunk(encode_head, avio)) \cup Range(Chunk(encode_head, <<Header>>))
    BY <2>1, <2>2, RangeConcatenation
  <2> QED
    BY <1>2, <2>1, <2>2, <2>3, <2>4 DEF NewHeader
<1> DEFINE put == NewHeader \o chunk
<1>12. Put(put)
  BY <1>8
<1> HIDE DEF chunk
<1>13. put \in Seq(Chunks) /\ Range(put) = Range(NewHeader) \cup Range(chunk)
  BY <1>10, <1>11, ConcatProperties, RangeConcatenation
<1> HIDE DEF put
<1>14. /\ outq' \in Seq(Chunks) /\ audioq_size' = Bytes(outq')
       /\ Range(outq') = Range(outq) \cup Range(put)
  BY <1>1, <1>12, <1>13, PutGrows
<1> QED
  BY <1>6, <1>9, <1>10, <1>11, <1>13, <1>14

LEMMA EncodeEndType ==
  ASSUME TypeOK, EncodeEnd
  PROVE  /\ codec_queue' = <<>> /\ avio' = <<>>
         /\ outq' \in Seq(Chunks) /\ audioq_size' = Bytes(outq')
         /\ \A c \in Range(outq') : c \in Range(outq) \/ c.item \in {encode_head, Null}
<1>1. /\ codec_queue \in Seq(DOMAIN setup.feed) /\ avio \in Seq(Unit)
      /\ outq \in Seq(Chunks) /\ audioq_size = Bytes(outq) /\ encode_head \in Item \cup {Null}
  BY DEF TypeOK
<1>2. <<Trailer>> \in Seq(Unit) /\ codec_queue \in Seq(Unit)
  <2>1. DOMAIN setup.feed \subseteq Unit
    BY DEF Unit
  <2>2. codec_queue \in Seq(Unit)
    BY <1>1, <2>1, SeqMonotonic
  <2> QED
    BY <2>2 DEF Unit
<1>3. avio \o codec_queue \in Seq(Unit)
  BY <1>1, <1>2, ConcatProperties
<1> DEFINE a == Chunk(encode_head, avio \o codec_queue)
           b == Chunk(encode_head, <<Trailer>>)
           e == Sentinel(FALSE)
           put == (a \o b) \o e
<1>4. Put(put) /\ codec_queue' = <<>> /\ avio' = <<>>
  BY DEF EncodeEnd, CleanupContext
<1>5. a \in Seq(Chunks) /\ \A c \in Range(a) : c.item = encode_head
  BY <1>1, <1>3, ChunkType
<1>6. b \in Seq(Chunks) /\ \A c \in Range(b) : c.item = encode_head
  BY <1>1, <1>2, ChunkType
<1>7. e \in Seq(Chunks) /\ \A c \in Range(e) : c.item = Null
  BY SentinelType
<1> HIDE DEF a, b, e
<1>8. a \o b \in Seq(Chunks) /\ Range(a \o b) = Range(a) \cup Range(b)
  BY <1>5, <1>6, ConcatProperties, RangeConcatenation
<1>9. put \in Seq(Chunks) /\ Range(put) = Range(a \o b) \cup Range(e)
  <2> DEFINE ab == a \o b
  <2>1. ab \in Seq(Chunks)
    BY <1>8
  <2> HIDE DEF ab
  <2>2. ab \o e \in Seq(Chunks)
    BY <1>7, <2>1, ConcatProperties
  <2>3. Range(ab \o e) = Range(ab) \cup Range(e)
    BY <1>7, <2>1, RangeConcatenation
  <2> QED
    BY <2>2, <2>3 DEF ab
<1> HIDE DEF put
<1>10. /\ outq' \in Seq(Chunks) /\ audioq_size' = Bytes(outq')
       /\ Range(outq') = Range(outq) \cup Range(put)
  BY <1>1, <1>4, <1>9, PutGrows
<1> QED
  BY <1>4, <1>5, <1>6, <1>7, <1>8, <1>9, <1>10

LEMMA TypeInit ==
  ASSUME Init
  PROVE  TypeInv /\ CallInv /\ RunInv
<1> USE DEF Init, FeedInit
<1>1. setup.feed \in Seq(Item \cup {End}) /\ setup \in Setups
  BY FeedAssumption
<1>2. DOMAIN setup.feed = 1 .. Len(setup.feed) /\ Len(setup.feed) \in Nat
  BY <1>1
<1>3. [p \in DOMAIN setup.feed |-> p] \in Seq(DOMAIN setup.feed)
  <2>1. \A n \in Nat : [p \in 1 .. n |-> p] \in Seq(1 .. n)
    BY IsASeq
  <2> QED
    BY <1>2, <2>1
<1>4. <<>> \in Seq(DOMAIN setup.feed) /\ <<>> \in Seq(Unit) /\ <<>> \in Seq(Chunks)
  OBVIOUS
<1>5. Range(setup.feed) \ {End} \subseteq Item
  BY <1>1 DEF Range
<1>6. FeedTypeOK
  BY <1>1, <1>3, <1>4, <1>5 DEF FeedTypeOK
<1>7. TypeOK
  BY <1>4, <1>6, BytesEmpty DEF TypeOK
<1>8. tpc = "check" /\ buffer = Null
  OBVIOUS
<1> QED
  BY <1>7, <1>8 DEF TypeInv, ThreadPc, CallInv, CallPc, RunInv

LEMMA TypeStep ==
  ASSUME TypeInv, CallInv, Next \/ UNCHANGED vars
  PROVE  TypeInv'
<1>1. FeedTypeOK'
  BY FeedTypeStep DEF TypeInv, TypeOK
<1>2. setup' = setup
  BY DEF Next, vars, feed, Thread, Check, Lock, Sleep, Woken, GetBuffer, GetAborted, Encode,
         SpuriousWake, BufferGet, Deliver, Continue, PurgeHook, RemoveFree, FlushHook, DetachSink,
         DetachOutput, DetachSignal, Joined, RemoveItem, Seek, DetachBegin, Attach, AttachRefused,
         DeliverBuffer, TakeBuffer, RemoveBegin, RemoveStraggling, RemoveCall, RemoveEnd, SeekBegin,
         SeekEnd, DetachCall,
         SinkAbort, SinkUnmap, AttachCall, Proceed
<1> DEFINE D == DOMAIN setup.feed
           Muxer == /\ codec_queue \in Seq(D) /\ avio \in Seq(Unit)
                    /\ encode_head \in Item \cup {Null}
           Output == outq \in Seq(Chunks) /\ audioq_size = Bytes(outq)
           Others == mutex \in {"free", "thread"} /\ fault \in {"none", "trailer without header"}
           InHand == /\ tpc \in ThreadPc
                     /\ IF tpc = "got" THEN buffer \in D ELSE buffer = Null
<1>3. Muxer /\ Output /\ Others /\ InHand
  BY DEF TypeInv, TypeOK
<1>4. SUFFICES Muxer' /\ Output' /\ Others' /\ InHand'
  BY <1>1, <1>2 DEF TypeInv, TypeOK
<1>5. Unit' = Unit /\ Chunks' = Chunks
  BY <1>2 DEF Unit, Chunks, IsSentinel
<1>6. <<>> \in Seq(D) /\ <<>> \in Seq(Chunks) /\ Bytes(<<>>) = 0
  BY BytesEmpty
<1>28. outq \in Seq(Chunks) /\ audioq_size = Bytes(outq)
  BY <1>3
<1>29. ASSUME outq' \in Seq(Chunks), audioq_size' = Bytes(outq') PROVE Output'
  BY <1>5, <1>29
<1>7. Bytes(outq) \in Nat
  BY <1>3, ChunkLen, BytesNat
<1>8. ASSUME UNCHANGED muxer PROVE Muxer'
  BY <1>2, <1>3, <1>5, <1>8 DEF muxer
<1>9. ASSUME CleanupContext, UNCHANGED avio PROVE Muxer'
  BY <1>2, <1>3, <1>5, <1>6, <1>9 DEF CleanupContext
<1>10. ASSUME UNCHANGED <<outq, audioq_size>> PROVE Output'
  BY <1>3, <1>5, <1>10
<1>11. ASSUME UNCHANGED buffer, tpc' = tpc \/ tpc \in {"asleep", "sleep", "woken", "check", "lock", "done"},
              tpc' = tpc \/ tpc' \in {"asleep", "sleep", "woken", "check", "lock", "get", "done"}
       PROVE  InHand'
  BY <1>2, <1>3, <1>11 DEF ThreadPc
<1>12. CASE UNCHANGED vars
  BY <1>3, <1>8, <1>10, <1>11, <1>12 DEF vars, thread, output
<1>13. CASE Check \/ Lock \/ Sleep \/ Woken
  BY <1>3, <1>8, <1>10, <1>11, <1>13 DEF Check, Lock, Sleep, Woken, output
<1>14. CASE GetAborted
  BY <1>2, <1>3, <1>8, <1>10, <1>14 DEF GetAborted, output, ThreadPc
<1>15. CASE GetBuffer
  <2>1. audioq # <<>> /\ audioq \in Seq(D)
    BY <1>15 DEF GetBuffer, TakeBuffer, TypeInv, TypeOK, FeedTypeOK
  <2>2. Head(audioq) \in D
    BY <2>1, HeadTailRange
  <2>3. InHand'
    BY <1>2, <1>15, <2>2 DEF GetBuffer, ThreadPc
  <2> QED
    BY <1>3, <1>8, <1>10, <1>15, <2>3 DEF GetBuffer, output
<1>16. CASE Encode
  <2>1. buffer \in D /\ ItemAt(buffer) \in Item \cup {End}
    <3>1. setup.feed \in Seq(Item \cup {End})
      BY FeedAssumption DEF TypeInv, TypeOK, FeedTypeOK
    <3>2. buffer \in D
      BY <1>3, <1>16 DEF Encode
    <3> QED
      BY <3>1, <3>2 DEF ItemAt
  <2>2. InHand' /\ mutex' = mutex
    BY <1>16 DEF Encode, ThreadPc
  <2>3. CASE EncodeBuffer
    <3>1. ItemAt(buffer) \in Item
      BY <2>1, <2>3 DEF EncodeBuffer
    <3>2. /\ codec_queue' \in Seq(D) /\ avio' \in Seq(Unit)
          /\ outq' \in Seq(Chunks) /\ audioq_size' = Bytes(outq')
      BY <2>1, <2>3, <3>1, EncodeBufferType DEF TypeInv
    <3>3. encode_head' \in Item \cup {Null} /\ fault' = fault
      BY <2>3, <3>1 DEF EncodeBuffer
    <3> QED
      BY <1>2, <1>3, <1>5, <2>2, <3>2, <3>3
  <2>4. CASE EncodeEnd
    <3>1. /\ codec_queue' = <<>> /\ avio' = <<>>
          /\ outq' \in Seq(Chunks) /\ audioq_size' = Bytes(outq')
      BY <2>4, EncodeEndType DEF TypeInv
    <3>2. encode_head' = Null /\ fault' \in {fault, "trailer without header"}
      BY <2>4 DEF EncodeEnd, CleanupContext
    <3>3. <<>> \in Seq(Unit)
      OBVIOUS
    <3> QED
      BY <1>2, <1>3, <1>5, <1>6, <2>2, <3>1, <3>2, <3>3
  <2> QED
    BY <1>16, <2>3, <2>4 DEF Encode
<1>17. CASE SpuriousWake
  BY <1>3, <1>8, <1>10, <1>11, <1>17 DEF SpuriousWake, SignalDrain, output
<1>18. CASE BufferGet
  <2>1. outq # <<>> /\ outq' = Tail(outq)
    BY <1>18 DEF BufferGet
  <2>2. Tail(outq) \in Seq(Chunks) /\ Head(outq) \in Chunks
    BY <1>3, <2>1, HeadTailRange
  <2>3. Bytes(outq) = Len(Head(outq).data) + Bytes(Tail(outq))
    BY <1>3, <2>1, ChunkLen, BytesHeadTail
  <2>4. Len(Head(outq).data) \in Nat
    BY <2>2, ChunkLen
  <2>5. Bytes(Tail(outq)) \in Nat
    BY <2>2, ChunkLen, BytesNat
  <2>6. audioq_size' = audioq_size - Len(Head(outq).data)
    <3>1. CASE ReadChunk
      BY <3>1 DEF ReadChunk
    <3>2. CASE ReadEnd
      <4>1. Head(outq).data = <<>> /\ audioq_size' = audioq_size
        BY <3>2 DEF ReadEnd, IsSentinel
      <4>2. Len(Head(outq).data) = 0
        BY <4>1
      <4> QED
        BY <1>7, <1>28, <4>1, <4>2
    <3> QED
      BY <1>18, <3>1, <3>2 DEF BufferGet
  <2>7. Output'
    <3>1. audioq_size' = Bytes(Tail(outq))
      BY <1>28, <2>3, <2>4, <2>5, <2>6
    <3> QED
      BY <1>29, <2>1, <2>2, <3>1
  <2>8. UNCHANGED <<muxer, mutex, buffer, fault>> /\ tpc' \in {tpc, "woken"} /\ (tpc' # tpc => tpc = "asleep")
    BY <1>18 DEF BufferGet, ReadChunk, ReadEnd, SignalDrain
  <2> QED
    BY <1>3, <1>8, <1>11, <2>7, <2>8
<1>19. CASE Deliver \/ RemoveFree \/ DetachSink
  BY <1>3, <1>8, <1>10, <1>11, <1>19 DEF Deliver, RemoveFree, DetachSink, thread, output
<1>20. ASSUME NEW i \in Item, RemoveItem(i) PROVE Muxer' /\ Output' /\ Others' /\ InHand'
  BY <1>3, <1>8, <1>10, <1>11, <1>20 DEF RemoveItem, thread, output
<1>21. ASSUME NEW p \in setup.seekTo, Seek(p) PROVE Muxer' /\ Output' /\ Others' /\ InHand'
  BY <1>3, <1>8, <1>10, <1>11, <1>21 DEF Seek, thread, output
<1>22. CASE PurgeHook
  <2> DEFINE victims == {c \in Chunks : ~IsSentinel(c) /\ c.item = arg}
             kept    == Chunks \ victims
  <2>1. outq' = Keep(outq, kept) /\ audioq_size' = audioq_size - Bytes(Keep(outq, victims))
    BY <1>22 DEF PurgeHook, Drop
  <2>2. \A c \in Chunks : c \in kept <=> c \notin victims
    OBVIOUS
  <2> HIDE DEF kept, victims
  <2>3. Keep(outq, kept) \in Seq(Chunks)
    BY <1>3, KeepType
  <2>4. Keep(outq, victims) \in Seq(Chunks)
    BY <1>3, KeepType
  <2>5. Bytes(Keep(outq, kept)) + Bytes(Keep(outq, victims)) = Bytes(outq)
    BY <1>28, <2>2, ChunkLen, BytesKeep
  <2>6. Bytes(Keep(outq, kept)) \in Nat
    BY <2>3, ChunkLen, BytesNat
  <2>7. Bytes(Keep(outq, victims)) \in Nat
    BY <2>4, ChunkLen, BytesNat
  <2>8. Output'
    <3>1. audioq_size' = Bytes(Keep(outq, kept))
      BY <1>28, <2>1, <2>5, <2>6, <2>7
    <3> QED
      BY <1>29, <2>1, <2>3, <3>1
  <2>9. Muxer' /\ Others' /\ InHand'
    BY <1>2, <1>3, <1>5, <1>11, <1>22 DEF PurgeHook, SignalDrain
  <2> QED
    BY <2>8, <2>9
<1>23. CASE FlushHook
  <2>1. outq' = Sentinel(TRUE) /\ audioq_size' = audioq_size - Bytes(outq)
    BY <1>23 DEF FlushHook
  <2>2. Sentinel(TRUE) \in Seq(Chunks) /\ Bytes(Sentinel(TRUE)) = 0
    BY SentinelType
  <2>3. Output'
    <3>1. audioq_size' = 0
      BY <1>7, <1>28, <2>1
    <3> QED
      BY <1>29, <2>1, <2>2, <3>1
  <2>4. Muxer'
    BY <1>9, <1>23 DEF FlushHook
  <2> QED
    BY <1>3, <1>11, <1>23, <2>3, <2>4 DEF FlushHook, SignalDrain
<1>24. CASE DetachOutput
  <2>1. Output'
    <3>1. outq' = <<>> /\ audioq_size' = audioq_size - Bytes(outq)
      BY <1>24 DEF DetachOutput
    <3>2. audioq_size' = 0
      BY <1>7, <1>28, <3>1
    <3> QED
      BY <1>6, <1>29, <3>1, <3>2
  <2> QED
    BY <1>3, <1>8, <1>11, <1>24, <2>1 DEF DetachOutput, thread
<1>25. CASE DetachBegin \/ DetachSignal
  BY <1>3, <1>8, <1>10, <1>11, <1>25 DEF DetachBegin, DetachSignal, SignalDrain, thread, output
<1>26. CASE Joined
  <2>1. Muxer'
    BY <1>9, <1>26 DEF Joined
  <2> QED
    BY <1>3, <1>10, <1>11, <1>26, <2>1 DEF Joined, thread, output
<1>27. ASSUME NEW c \in setup.codecs, Attach(c) \/ AttachRefused(c)
       PROVE  Muxer' /\ Output' /\ Others' /\ InHand'
  <2>1. tpc = "done" /\ tpc' \in {tpc, "check"} /\ buffer' = buffer
    BY <1>27 DEF Attach, AttachCall, AttachRefused, May, CallInv, thread
  <2>2. UNCHANGED <<muxer, outq, audioq_size, mutex, fault>>
    BY <1>27 DEF Attach, AttachRefused, thread
  <2> QED
    BY <1>3, <1>8, <1>10, <1>11, <2>1, <2>2
<1> QED
  BY <1>12, <1>13, <1>14, <1>15, <1>16, <1>17, <1>18, <1>19, <1>20, <1>21, <1>22, <1>23, <1>24, <1>25,
     <1>26, <1>27 DEF Next, Thread, Continue

(***************************************************************************)
(* An attached encoder has a thread that runs, however often it was         *)
(* detached before, unless an attach failed; and audioq_size, by which the  *)
(* thread and the reader stop and go, is what the chunks of the queue come  *)
(* to.                                                                     *)
(***************************************************************************)
THEOREM EncoderRuns == Spec => []AttachedRuns
<1>1. Init => AttachedInv
  BY TypeInit DEF AttachedInv
<1>2. AttachedInv /\ [Next]_vars => AttachedInv'
  BY CallStep, RunStep, TypeStep DEF AttachedInv
<1>3. AttachedInv => AttachedRuns
  BY DEF AttachedInv, TypeInv, RunInv, AttachedRuns
<1> QED
  BY <1>1, <1>2, <1>3, PTL DEF Spec

--------------------------------------------------------------------------------
(* What refers to an item.                                                 *)

\* The items that no part of the encoder may refer to: those that are freed,
\* and the one that is about to be, once the hook is done with it.
Gone == {i \in Item : i \notin alive \/ (i = arg /\ apc = "free")}

PlacesInv == Range(todo) \cup Range(audioq) \subseteq Listed

RefsInv ==
  /\ buffer # Null => ItemAt(buffer) \notin Gone
  /\ encode_head \notin Gone
  /\ \A c \in Range(outq) : c.item \notin Gone

HeadInv == ~attached /\ apc \in {"idle", "free"} => encode_head = Null

PurgeInv ==
  /\ AttachedInv /\ HeadInv
  /\ ~late => PlacesInv /\ RefsInv

LEMMA PurgeInit ==
  ASSUME Init
  PROVE  PurgeInv
<1> USE DEF Init, FeedInit
<1>1. setup.feed \in Seq(Item \cup {End})
  BY FeedAssumption
<1>2. Range(todo) \subseteq DOMAIN setup.feed /\ Range(audioq) = {} /\ Range(outq) = {}
  BY DEF Range
<1>3. \A p \in DOMAIN setup.feed : p \in Listed
  BY <1>1, NullAssumption DEF Listed, ItemAt, Range
<1>4. Null \notin Gone
  BY NullAssumption DEF Gone
<1> QED
  BY <1>2, <1>3, <1>4, TypeInit DEF PurgeInv, AttachedInv, HeadInv, PlacesInv, RefsInv

LEMMA PlacesStep ==
  ASSUME AttachedInv, PlacesInv, Next \/ UNCHANGED vars, ~late'
  PROVE  PlacesInv'
<1> DEFINE T == DOMAIN setup.feed
<1>1. /\ todo \in Seq(T) /\ audioq \in Seq(T)
      /\ alive \subseteq Item
      /\ setup.feed \in Seq(Item \cup {End}) /\ setup.seekTo \subseteq T
  BY FeedAssumption DEF AttachedInv, TypeInv, TypeOK, FeedTypeOK
<1>2. \A p \in T : ItemAt(p) \in Item \cup {End}
  BY <1>1 DEF ItemAt
<1>3. ASSUME UNCHANGED <<setup, todo, audioq, alive, arg>> PROVE PlacesInv'
  BY <1>3 DEF PlacesInv, Listed, ItemAt
<1>4. CASE UNCHANGED vars
  BY <1>3, <1>4 DEF vars, feed
<1>5. CASE Deliver
  <2>1. todo # <<>> /\ todo' = Tail(todo) /\ audioq' = Append(audioq, Head(todo))
        /\ UNCHANGED <<setup, alive, arg>>
    BY <1>5 DEF Deliver, DeliverBuffer
  <2>2. Head(todo) \in T /\ Range(todo) = {Head(todo)} \cup Range(Tail(todo))
    BY <1>1, <2>1, HeadTailRange
  <2>3. Range(Append(audioq, Head(todo))) = Range(audioq) \cup {Head(todo)}
    BY <1>1, <2>2, RangeAppend
  <2>4. Range(todo') \cup Range(audioq') = Range(todo) \cup Range(audioq)
    BY <2>1, <2>2, <2>3
  <2> QED
    BY <2>1, <2>4 DEF PlacesInv, Listed, ItemAt
<1>6. CASE GetBuffer
  <2>1. audioq # <<>> /\ audioq' = Tail(audioq) /\ UNCHANGED <<setup, todo, alive, arg>>
    BY <1>6 DEF GetBuffer, TakeBuffer
  <2>2. Range(Tail(audioq)) \subseteq Range(audioq)
    BY <1>1, <2>1, HeadTailRange
  <2> QED
    BY <2>1, <2>2 DEF PlacesInv, Listed, ItemAt
<1>7. ASSUME NEW i \in Item, RemoveItem(i) PROVE PlacesInv'
  <2> DEFINE others == {p \in T : ItemAt(p) # i}
  <2>1. /\ todo' = Keep(todo, others)
        /\ audioq' = IF attached THEN Keep(audioq, others) ELSE audioq
        /\ attached \/ ~LeftBehind(i)
        /\ arg = Null /\ arg' = i
        /\ UNCHANGED <<setup, alive>>
    BY <1>7 DEF RemoveItem, RemoveBegin, RemoveStraggling, RemoveCall, Without, May, AttachedInv, CallInv
  <2>2. Range(Keep(todo, others)) = Range(todo) \cap others
    BY <1>1, KeepRange
  <2>3. Range(Keep(audioq, others)) = Range(audioq) \cap others
    BY <1>1, KeepRange
  <2>4. Range(audioq) \subseteq T
    BY <1>1 DEF Range
  <2>5. Range(audioq') \subseteq Range(audioq) \cap others
    BY <2>1, <2>3, <2>4 DEF LeftBehind
  <2>6. Listed \cap others \subseteq Listed'
    BY <2>1 DEF Listed, ItemAt
  <2> HIDE DEF others
  <2> QED
    BY <2>1, <2>2, <2>5, <2>6 DEF PlacesInv
<1>8. CASE RemoveFree
  <2>1. Listed \subseteq Listed' /\ UNCHANGED <<todo, audioq>>
    BY <1>1, <1>8, NullAssumption DEF RemoveFree, RemoveEnd, Listed, ItemAt
  <2> QED
    BY <2>1 DEF PlacesInv
<1>9. ASSUME NEW p \in setup.seekTo, Seek(p) PROVE PlacesInv'
  <2> DEFINE rest == [k \in 1 .. Len(setup.feed) - p + 1 |-> p + k - 1]
  <2>1. todo' = Keep(rest, Listed) /\ audioq' = <<>> /\ UNCHANGED <<setup, alive, arg>>
    BY <1>9 DEF Seek, SeekBegin
  <2>2. rest \in Seq(Int)
    <3>1. p \in 1 .. Len(setup.feed) /\ Len(setup.feed) - p + 1 \in Nat
      BY <1>1
    <3>2. \A k \in 1 .. Len(setup.feed) - p + 1 : p + k - 1 \in Int
      BY <3>1
    <3> QED
      BY <3>1, <3>2, IsASeq
  <2> HIDE DEF rest
  <2>3. Range(Keep(rest, Listed)) \subseteq Listed
    BY <2>2, KeepRange
  <2>4. Range(audioq') = {}
    BY <2>1 DEF Range
  <2> QED
    BY <2>1, <2>3, <2>4 DEF PlacesInv, Listed, ItemAt
<1>10. CASE DetachSink
  <2>1. audioq' \in {audioq, <<>>} /\ UNCHANGED <<setup, todo, alive, arg>>
    BY <1>10 DEF DetachSink, SinkAbort, SinkUnmap
  <2>2. Range(audioq') \subseteq Range(audioq)
    BY <2>1 DEF Range
  <2> QED
    BY <2>1, <2>2 DEF PlacesInv, Listed, ItemAt
<1>11. CASE Check \/ Lock \/ Sleep \/ Woken \/ GetAborted \/ Encode \/ SpuriousWake \/ BufferGet
  BY <1>3, <1>11 DEF Check, Lock, Sleep, Woken, GetAborted, Encode, SpuriousWake, BufferGet, feed
<1>12. CASE PurgeHook \/ FlushHook \/ DetachBegin \/ DetachOutput \/ DetachSignal \/ Joined
  BY <1>3, <1>12 DEF PurgeHook, FlushHook, SeekEnd, DetachBegin, DetachCall, DetachOutput,
                     DetachSignal, Joined, Proceed
<1>13. ASSUME NEW c \in setup.codecs, Attach(c) \/ AttachRefused(c) PROVE PlacesInv'
  BY <1>3, <1>13 DEF Attach, AttachCall, AttachRefused
<1> QED
  BY <1>4, <1>5, <1>6, <1>7, <1>8, <1>9, <1>10, <1>11, <1>12, <1>13 DEF Next, Thread, Continue

LEMMA RefsStep ==
  ASSUME AttachedInv, HeadInv, PlacesInv, RefsInv, Next \/ UNCHANGED vars, ~late'
  PROVE  RefsInv'
<1>1. /\ audioq \in Seq(DOMAIN setup.feed) /\ outq \in Seq(Chunks)
      /\ alive \subseteq Item
      /\ buffer \in DOMAIN setup.feed \cup {Null} /\ encode_head \in Item \cup {Null}
  BY DEF AttachedInv, TypeInv, TypeOK, FeedTypeOK
<1>2. Null \notin Gone
  BY NullAssumption DEF Gone
<1>3. setup' = setup
  BY DEF Next, vars, feed, Thread, Check, Lock, Sleep, Woken, GetBuffer, GetAborted, Encode,
         SpuriousWake, BufferGet, Deliver, Continue, PurgeHook, RemoveFree, FlushHook, DetachSink,
         DetachOutput, DetachSignal, Joined, RemoveItem, Seek, DetachBegin, Attach, AttachRefused,
         DeliverBuffer, TakeBuffer, RemoveBegin, RemoveStraggling, RemoveCall, RemoveEnd, SeekBegin,
         SeekEnd, DetachCall,
         SinkAbort, SinkUnmap, AttachCall, Proceed
\* Without a step of a removal the gone items stay the same ones.
<1>4. ASSUME alive' = alive, arg' = arg, apc' = "free" <=> apc = "free" PROVE Gone' = Gone
  BY <1>4 DEF Gone
<1>5. ASSUME Gone' = Gone, buffer' \in {buffer, Null}, encode_head' \in {encode_head, Null},
             Range(outq') \subseteq Range(outq)
      PROVE  RefsInv'
  BY <1>2, <1>3, <1>5 DEF RefsInv, ItemAt
<1>6. CASE UNCHANGED vars
  <2>1. UNCHANGED <<alive, arg, apc, buffer, encode_head, outq>>
    BY <1>6 DEF vars, feed, thread, muxer, output
  <2> QED
    BY <1>4, <1>5, <2>1
<1>7. CASE Check \/ Lock \/ Sleep \/ Woken \/ GetAborted \/ SpuriousWake
  <2>1. UNCHANGED <<alive, arg, apc, buffer, encode_head, outq>>
    BY <1>7 DEF Check, Lock, Sleep, Woken, GetAborted, SpuriousWake, feed, muxer, output
  <2> QED
    BY <1>4, <1>5, <2>1
<1>8. CASE GetBuffer
  <2>1. audioq # <<>> /\ buffer' = Head(audioq) /\ UNCHANGED <<alive, arg, apc, encode_head, outq>>
    BY <1>8 DEF GetBuffer, TakeBuffer, muxer, output
  <2>2. Head(audioq) \in Range(audioq)
    BY <1>1, <2>1, HeadTailRange
  <2>3. ItemAt(Head(audioq)) \in (alive \ {arg}) \cup {End}
    BY <2>2 DEF PlacesInv, Listed
  <2>4. ItemAt(Head(audioq)) \notin Gone
    BY <2>3, NullAssumption DEF Gone
  <2>5. Gone' = Gone
    BY <1>4, <2>1
  <2> QED
    BY <1>3, <2>1, <2>4, <2>5 DEF RefsInv, ItemAt
<1>9. CASE Encode
  <2>1. Gone' = Gone /\ buffer' = Null /\ buffer \in DOMAIN setup.feed /\ buffer # Null
    <3>1. UNCHANGED <<alive, arg, apc>> /\ buffer' = Null /\ tpc = "got"
      BY <1>9 DEF Encode, feed
    <3>2. buffer \in DOMAIN setup.feed
      BY <3>1 DEF AttachedInv, TypeInv
    <3>3. setup.feed \in Seq(Item \cup {End})
      BY FeedAssumption DEF AttachedInv, TypeInv, TypeOK, FeedTypeOK
    <3>4. buffer \in Nat
      BY <3>2, <3>3
    <3> QED
      BY <1>4, <3>1, <3>2, <3>4, NullAssumption
  <2>2. ItemAt(buffer) \in Item \cup {End}
    <3>1. setup.feed \in Seq(Item \cup {End})
      BY FeedAssumption DEF AttachedInv, TypeInv, TypeOK, FeedTypeOK
    <3> QED
      BY <2>1, <3>1 DEF ItemAt
  <2>3. CASE EncodeBuffer
    <3>1. ItemAt(buffer) \in Item /\ encode_head' = ItemAt(buffer)
      BY <2>2, <2>3 DEF EncodeBuffer
    <3>2. \A c \in Range(outq') : c \in Range(outq) \/ c.item \in {encode_head, ItemAt(buffer)}
      BY <2>1, <2>3, <3>1, EncodeBufferType DEF AttachedInv, TypeInv
    <3> QED
      BY <2>1, <3>1, <3>2 DEF RefsInv
  <2>4. CASE EncodeEnd
    <3>1. encode_head' = Null
      BY <2>4 DEF EncodeEnd, CleanupContext
    <3>2. \A c \in Range(outq') : c \in Range(outq) \/ c.item \in {encode_head, Null}
      BY <2>4, EncodeEndType DEF AttachedInv, TypeInv
    <3> QED
      BY <1>2, <2>1, <3>1, <3>2 DEF RefsInv
  <2> QED
    BY <1>9, <2>3, <2>4 DEF Encode
<1>10. CASE BufferGet
  <2>1. outq # <<>> /\ outq' = Tail(outq) /\ UNCHANGED <<alive, arg, apc, buffer, encode_head>>
    BY <1>10 DEF BufferGet, feed, muxer
  <2>2. Range(Tail(outq)) \subseteq Range(outq)
    BY <1>1, <2>1, HeadTailRange
  <2> QED
    BY <1>4, <1>5, <2>1, <2>2
<1>11. CASE Deliver \/ DetachSink
  <2>1. UNCHANGED <<alive, arg, buffer, encode_head, outq>> /\ (apc' = "free" <=> apc = "free")
    BY <1>11 DEF Deliver, DeliverBuffer, DetachSink, SinkAbort, SinkUnmap, thread, muxer, output
  <2> QED
    BY <1>4, <1>5, <2>1
<1>12. ASSUME NEW i \in Item, RemoveItem(i) PROVE RefsInv'
  <2>1. /\ UNCHANGED <<alive, attached, buffer, encode_head, outq>>
        /\ apc = "idle" /\ apc' = IF attached THEN "purge_hook" ELSE "free"
        /\ arg' = i
        /\ attached \/ ~LeftBehind(i)
    BY <1>12 DEF RemoveItem, RemoveBegin, RemoveStraggling, RemoveCall, May, thread, muxer, output
  <2>2. CASE attached
    <3>1. Gone' = Gone
      BY <2>1, <2>2 DEF Gone
    <3> QED
      BY <1>5, <2>1, <3>1
  <2>3. CASE ~attached
    <3>1. Gone' = Gone \cup {i}
      BY <2>1, <2>3 DEF Gone
    <3>2. buffer = Null /\ encode_head = Null
      BY <2>1, <2>3 DEF AttachedInv, TypeInv, CallInv, HeadInv
    <3>3. \A c \in Range(outq) : c.item # i
      BY <2>1, <2>3 DEF LeftBehind, Range
    <3> QED
      BY <1>2, <2>1, <3>1, <3>2, <3>3, NullAssumption DEF RefsInv
  <2> QED
    BY <2>2, <2>3
<1>13. CASE PurgeHook
  <2> DEFINE victims == {c \in Chunks : ~IsSentinel(c) /\ c.item = arg}
             kept    == Chunks \ victims
  <2>1. /\ UNCHANGED <<alive, arg, buffer>>
        /\ apc = "purge_hook" /\ apc' = "free"
        /\ outq' = Keep(outq, kept)
        /\ encode_head' = IF encode_head = arg THEN Null ELSE encode_head
        /\ buffer # Null => ItemAt(buffer) # arg
    BY <1>13 DEF PurgeHook, Drop, Proceed
  <2>2. Range(Keep(outq, kept)) = Range(outq) \cap kept
    BY <1>1, KeepRange
  <2>3. Gone' \subseteq Gone \cup {arg}
    BY <2>1 DEF Gone
  <2>4. arg # Null
    BY <2>1 DEF AttachedInv, CallInv
  <2>5. \A c \in kept : IsSentinel(c) \/ c.item # arg
    OBVIOUS
  <2>6. \A c \in Range(outq) : IsSentinel(c) => c.item # arg
    <3>1. \A c \in Range(outq) : c \in Chunks
      BY <1>1 DEF Range
    <3> QED
      BY <2>4, <3>1 DEF Chunks
  <2> HIDE DEF kept, victims
  <2> QED
    BY <1>2, <1>3, <2>1, <2>2, <2>3, <2>4, <2>5, <2>6 DEF RefsInv, ItemAt
<1>14. CASE RemoveFree
  <2>1. /\ UNCHANGED <<buffer, encode_head, outq>>
        /\ apc = "free" /\ apc' = "idle" /\ alive' = alive \ {arg}
    BY <1>14 DEF RemoveFree, RemoveEnd, thread, muxer, output
  <2>2. Gone' = Gone
    BY <2>1 DEF Gone
  <2> QED
    BY <1>5, <2>1, <2>2
<1>15. ASSUME NEW p \in setup.seekTo, Seek(p) PROVE RefsInv'
  <2>1. UNCHANGED <<alive, arg, apc, buffer, encode_head, outq>>
    BY <1>15 DEF Seek, SeekBegin, thread, muxer, output
  <2> QED
    BY <1>4, <1>5, <2>1
<1>16. CASE FlushHook
  <2>1. UNCHANGED <<alive, arg, apc, buffer>> /\ outq' = Sentinel(TRUE) /\ encode_head' = Null
    BY <1>16 DEF FlushHook, SeekEnd, CleanupContext
  <2>2. \A c \in Range(Sentinel(TRUE)) : c.item = Null
    BY SentinelType
  <2>3. Gone' = Gone
    BY <1>4, <2>1
  <2> QED
    BY <1>2, <1>3, <2>1, <2>2, <2>3 DEF RefsInv, ItemAt
<1>17. CASE DetachOutput
  <2>1. UNCHANGED <<alive, arg, buffer, encode_head>> /\ (apc' = "free" <=> apc = "free") /\ outq' = <<>>
    BY <1>17 DEF DetachOutput, Proceed, thread, muxer
  <2>2. Range(outq') \subseteq Range(outq)
    BY <2>1 DEF Range
  <2> QED
    BY <1>4, <1>5, <2>1, <2>2
<1>18. CASE DetachBegin \/ DetachSignal \/ Joined
  <2>1. UNCHANGED <<alive, arg, buffer, outq>> /\ (apc' = "free" <=> apc = "free")
        /\ encode_head' \in {encode_head, Null}
    BY <1>18 DEF DetachBegin, DetachCall, May, DetachSignal, Joined, CleanupContext, Proceed, thread,
                 muxer, output
  <2> QED
    BY <1>4, <1>5, <2>1
<1>19. ASSUME NEW c \in setup.codecs, Attach(c) \/ AttachRefused(c) PROVE RefsInv'
  <2>1. UNCHANGED <<alive, arg, apc, buffer, encode_head, outq>>
    BY <1>19 DEF Attach, AttachCall, AttachRefused, May, thread, muxer
  <2> QED
    BY <1>4, <1>5, <2>1
<1> QED
  BY <1>6, <1>7, <1>8, <1>9, <1>10, <1>11, <1>12, <1>13, <1>14, <1>15, <1>16, <1>17, <1>18, <1>19
     DEF Next, Thread, Continue

LEMMA HeadStep ==
  ASSUME CallInv, HeadInv, Next \/ UNCHANGED vars
  PROVE  HeadInv'
<1> USE DEF HeadInv, CallInv, CallPc
<1>1. CASE UNCHANGED vars
  BY <1>1 DEF vars, feed, muxer
<1>2. CASE Thread
  <2>1. tpc # "done" /\ UNCHANGED <<apc, attached>>
    BY <1>2 DEF Thread, Check, Lock, Sleep, Woken, GetBuffer, GetAborted, Encode, TakeBuffer, feed
  <2> QED
    BY <2>1
<1>3. CASE SpuriousWake \/ BufferGet \/ Deliver
  BY <1>3 DEF SpuriousWake, BufferGet, Deliver, DeliverBuffer, feed, muxer
<1>4. CASE PurgeHook \/ RemoveFree \/ FlushHook
  BY <1>4 DEF PurgeHook, Proceed, RemoveFree, RemoveEnd, FlushHook, SeekEnd, CleanupContext, muxer
<1>5. CASE DetachSink \/ DetachOutput \/ DetachSignal \/ Joined
  BY <1>5 DEF DetachSink, SinkAbort, SinkUnmap, DetachOutput, DetachSignal, Joined, CleanupContext,
              Proceed, muxer
<1>6. ASSUME NEW i \in Item, RemoveItem(i) PROVE HeadInv'
  BY <1>6 DEF RemoveItem, RemoveBegin, RemoveStraggling, RemoveCall, May, muxer
<1>7. ASSUME NEW p \in setup.seekTo, Seek(p) PROVE HeadInv'
  BY <1>7 DEF Seek, SeekBegin, muxer
<1>8. CASE DetachBegin
  BY <1>8 DEF DetachBegin, DetachCall, muxer
<1>9. ASSUME NEW c \in setup.codecs, Attach(c) \/ AttachRefused(c) PROVE HeadInv'
  BY <1>9 DEF Attach, AttachCall, AttachRefused, muxer
<1> QED
  BY <1>1, <1>2, <1>3, <1>4, <1>5, <1>6, <1>7, <1>8, <1>9 DEF Next, Continue

LEMMA PurgeStep ==
  ASSUME PurgeInv, Next \/ UNCHANGED vars
  PROVE  PurgeInv'
<1>1. AttachedInv' /\ HeadInv'
  BY CallStep, RunStep, TypeStep, HeadStep DEF PurgeInv, AttachedInv
<1>2. SUFFICES ASSUME ~late' PROVE PlacesInv' /\ RefsInv'
  BY <1>1 DEF PurgeInv
<1>3. ~late
  BY <1>2 DEF Next, vars, history, Thread, Check, Lock, Sleep, Woken, GetBuffer, GetAborted, Encode,
         SpuriousWake, BufferGet, Deliver, Continue, PurgeHook, RemoveFree, FlushHook, DetachSink,
         DetachOutput, DetachSignal, Joined, RemoveItem, Seek, DetachBegin, Attach, AttachRefused
<1> QED
  BY <1>2, <1>3, PlacesStep, RefsStep DEF PurgeInv

(***************************************************************************)
(* Neither a chunk nor encode_head refers to an item after it was freed,    *)
(* unless a buffer of it was out of the reach of the purge hook.            *)
(***************************************************************************)
THEOREM EncoderPurgedInTime == Spec => []PurgedInTime
<1>1. Init => PurgeInv
  BY PurgeInit
<1>2. PurgeInv /\ [Next]_vars => PurgeInv'
  BY PurgeStep
<1>3. PurgeInv => PurgedInTime
  <2>1. Item \ alive \subseteq Gone
    BY DEF Gone
  <2>2. ASSUME PurgeInv, ~late, NEW i \in Item \ alive
        PROVE  encode_head # i /\ \A k \in DOMAIN outq : outq[k].item # i
    BY <2>1, <2>2 DEF PurgeInv, RefsInv, Range
  <2> QED
    BY <2>2 DEF PurgedInTime
<1> QED
  BY <1>1, <1>2, <1>3, PTL DEF Spec

--------------------------------------------------------------------------------
(* The stream that comes out.  A sequence of units is all right (Ok) when    *)
(* each unit may follow the one before it; what has been read, each stream  *)
(* that is in the queue (Comes), and what is still in the codec and in the  *)
(* muxer are parts of such sequences.                                      *)

Units(f) == DOMAIN f \cup {Header, Trailer}

\* What may come after what in a stream of the feed f, if not at its start.
Follows(f, u, v) ==
  \/ v = Header
  \/ v \in DOMAIN f /\ (u = Header \/ (u \in DOMAIN f /\ v = u + 1))
  \/ v = Trailer /\ u \in DOMAIN f /\ u + 1 \in DOMAIN f /\ f[u + 1] = End

Ok(f, s)  == \A k \in 1 .. Len(s) - 1 : Follows(f, s[k], s[k + 1])
Ended(s)  == s # <<>> /\ Header \in Range(s) /\ s[Len(s)] = Trailer

LEMMA OkShort ==
  ASSUME NEW f, NEW s, Len(s) \in {0, 1}
  PROVE  Ok(f, s)
  BY DEF Ok

LEMMA OkAppend ==
  ASSUME NEW f, NEW T, NEW s \in Seq(T), NEW v \in T, Ok(f, s),
         s = <<>> \/ Follows(f, s[Len(s)], v)
  PROVE  Ok(f, Append(s, v))
<1> DEFINE t == Append(s, v)
<1>1. PICK n \in Nat : n = Len(s)
  BY LenProperties
<1>2. Len(t) = n + 1 /\ t[n + 1] = v /\ \A k \in 1 .. n : t[k] = s[k]
  BY <1>1, AppendProperties
<1>3. n # 0 => s # <<>>
  BY <1>1
<1> HIDE DEF t
<1>4. ASSUME NEW k \in 1 .. n PROVE Follows(f, t[k], t[k + 1])
  <2>1. CASE k = n
    BY <1>1, <1>2, <1>3, <1>4, <2>1
  <2>2. CASE k # n
    <3>1. k \in 1 .. n - 1 /\ k + 1 \in 1 .. n
      BY <1>4, <2>2
    <3> QED
      BY <1>1, <1>2, <3>1 DEF Ok
  <2> QED
    BY <2>1, <2>2
<1>5. Len(t) - 1 = n
  BY <1>2
<1> QED
  BY <1>4, <1>5 DEF Ok, t

LEMMA OkParts ==
  ASSUME NEW f, NEW T, NEW r \in Seq(T), NEW s \in Seq(T), Ok(f, Cat(r, s))
  PROVE  Ok(f, r) /\ Ok(f, s)
<1> DEFINE t == r \o s
<1>1. PICK m \in Nat, n \in Nat : m = Len(r) /\ n = Len(s)
  BY LenProperties
<1>2. Len(t) = m + n /\ (\A k \in 1 .. m : t[k] = r[k]) /\ \A k \in 1 .. n : t[m + k] = s[k]
  <2>1. Len(t) = Len(r) + Len(s) /\ \A k \in 1 .. Len(r) + Len(s) : t[k] = IF k <= Len(r) THEN r[k] ELSE s[k - Len(r)]
    BY ConcatProperties
  <2> HIDE DEF t
  <2>2. Len(t) = m + n /\ \A k \in 1 .. m + n : t[k] = IF k <= m THEN r[k] ELSE s[k - m]
    BY <1>1, <2>1
  <2>3. \A k \in 1 .. m : k \in 1 .. m + n /\ k <= m
    BY <1>1
  <2>4. \A k \in 1 .. n : m + k \in 1 .. m + n /\ ~(m + k <= m) /\ m + k - m = k
    BY <1>1
  <2>5. ASSUME NEW k \in 1 .. m PROVE t[k] = r[k]
    BY <2>2, <2>3
  <2>6. ASSUME NEW k \in 1 .. n PROVE t[m + k] = s[k]
    <3>1. t[m + k] = IF m + k <= m THEN r[m + k] ELSE s[m + k - m]
      BY <2>2, <2>4
    <3> QED
      BY <2>4, <3>1
  <2> QED
    BY <2>2, <2>5, <2>6
<1> HIDE DEF t
<1>3. \A k \in 1 .. m + n - 1 : Follows(f, t[k], t[k + 1])
  BY <1>2 DEF Ok, t, Cat
<1>4. ASSUME NEW k \in 1 .. m - 1 PROVE Follows(f, r[k], r[k + 1])
  <2>1. k \in 1 .. m /\ k + 1 \in 1 .. m /\ k \in 1 .. m + n - 1
    BY <1>1, <1>4
  <2> QED
    BY <1>2, <1>3, <2>1
<1>5. ASSUME NEW k \in 1 .. n - 1 PROVE Follows(f, s[k], s[k + 1])
  <2>1. k \in 1 .. n /\ k + 1 \in 1 .. n /\ m + k \in 1 .. m + n - 1 /\ (m + k) + 1 = m + (k + 1)
    BY <1>1, <1>5
  <2>2. t[m + k] = s[k] /\ t[m + (k + 1)] = s[k + 1]
    BY <1>2, <2>1
  <2> QED
    BY <1>3, <2>1, <2>2
<1> QED
  BY <1>1, <1>4, <1>5 DEF Ok

\* The greatest place that is one of S.
LEMMA GreatestExists ==
  ASSUME NEW n \in Nat, NEW S \in SUBSET (1 .. n), S # {}
  PROVE  \E x \in S : \A y \in S : x >= y
<1> DEFINE Q == {k \in Nat : \A P \in SUBSET (1 .. k) : P # {} => \E x \in P : \A y \in P : x >= y}
<1>1. 0 \in Q
  <2>1. \A P \in SUBSET (1 .. 0) : P = {}
    OBVIOUS
  <2> QED
    BY <2>1
<1>2. ASSUME NEW k \in Q PROVE k + 1 \in Q
  <2>1. SUFFICES ASSUME NEW P \in SUBSET (1 .. k + 1), P # {} PROVE \E x \in P : \A y \in P : x >= y
    OBVIOUS
  <2>2. CASE k + 1 \in P
    <3>1. \A y \in P : k + 1 >= y
      BY <2>1
    <3> QED
      BY <2>2, <3>1
  <2>3. CASE k + 1 \notin P
    <3>1. \A y \in P : y \in 1 .. k
      BY <2>1, <2>3
    <3>2. P \in SUBSET (1 .. k)
      BY <3>1
    <3> QED
      BY <2>1, <3>2
  <2> QED
    BY <2>2, <2>3
<1>3. Q = Nat
  <2>1. Q \in SUBSET Nat
    OBVIOUS
  <2> HIDE DEF Q
  <2> QED
    BY <1>1, <1>2, <2>1, NatInd
<1> QED
  BY <1>3

LEMMA LastHeaderIs ==
  ASSUME NEW T, NEW s \in Seq(T)
  PROVE  /\ LastHeader(s) \in 0 .. Len(s)
         /\ \A k \in 1 .. Len(s) : k > LastHeader(s) => s[k] # Header
         /\ LastHeader(s) # 0 => s[LastHeader(s)] = Header
         /\ LastHeader(s) = 0 => Header \notin Range(s)
<1> DEFINE S == {k \in 1 .. Len(s) : s[k] = Header}
<1>1. PICK n \in Nat : n = Len(s) /\ DOMAIN s = 1 .. n
  BY LenProperties
<1>2. LastHeader(s) = IF S # {} THEN CHOOSE x \in S : \A y \in S : x >= y ELSE 0
  BY DEF LastHeader, SelectLastInSeq, Max
<1>3. Header \in Range(s) <=> S # {}
  BY <1>1 DEF Range
<1>4. CASE S = {}
  BY <1>1, <1>2, <1>3, <1>4
<1>5. CASE S # {}
  <2>1. S \in SUBSET (1 .. n)
    BY <1>1
  <2>2. \A k \in 1 .. n : s[k] = Header => k \in S
    BY <1>1
  <2>3. \A k \in S : s[k] = Header
    OBVIOUS
  <2> HIDE DEF S
  <2>4. \E x \in S : \A y \in S : x >= y
    BY <1>5, <2>1, GreatestExists
  <2>5. LastHeader(s) \in S /\ \A y \in S : LastHeader(s) >= y
    BY <1>2, <1>5, <2>4
  <2>6. LastHeader(s) \in 1 .. n
    BY <2>1, <2>5
  <2>7. ASSUME NEW k \in 1 .. n, k > LastHeader(s) PROVE s[k] # Header
    BY <2>1, <2>2, <2>5, <2>6, <2>7
  <2> QED
    BY <1>1, <2>3, <2>5, <2>6, <2>7
<1> QED
  BY <1>4, <1>5

LEMMA OkInOrder ==
  ASSUME setup.feed \in Seq(Item \cup {End}),
         NEW s \in Seq(Units(setup.feed)), Ok(setup.feed, s), LastHeader(s) # 0
  PROVE  InOrder(Stream(s))
<1> DEFINE h == LastHeader(s)
           t == Stream(s)
<1>1. PICK n \in Nat, len \in Nat : n = Len(s) /\ len = Len(setup.feed) /\ DOMAIN setup.feed = 1 .. len
  BY LenProperties
<1>2. h \in 1 .. n /\ s[h] = Header /\ \A k \in 1 .. n : k > h => s[k] # Header
  BY <1>1, LastHeaderIs
<1>3. \A k \in 1 .. n : s[k] \in (1 .. len) \cup {Header, Trailer}
  BY <1>1, ElementOfSeq DEF Units
<1>4. Len(t) = n - h /\ \A k \in 1 .. n - h : t[k] = s[h + k]
  <2>1. t = SubSeq(s, h + 1, n)
    BY <1>1 DEF Stream
  <2> HIDE DEF h
  <2>2. h + 1 \in Int /\ n \in Int /\ \A k \in h + 1 .. n : s[k] \in Units(setup.feed)
    <3>1. \A k \in h + 1 .. n : k \in 1 .. n
      BY <1>2
    <3> QED
      BY <1>1, <1>2, <3>1, ElementOfSeq
  <2> DEFINE a == h + 1
  <2>3. Len(SubSeq(s, a, n)) = (IF a <= n THEN n - a + 1 ELSE 0)
        /\ \A k \in 1 .. n - a + 1 : SubSeq(s, a, n)[k] = s[a + k - 1]
    <3> HIDE DEF a
    <3>1. a \in Int /\ n \in Int /\ \A k \in a .. n : s[k] \in Units(setup.feed)
      BY <2>2 DEF a
    <3> QED
      BY <3>1, SubSeqProperties
  <2>4. n - a + 1 = n - h /\ (~(a <= n) => n - h = 0) /\ \A k \in 1 .. n - h : a + k - 1 = h + k
    BY <1>2
  <2> HIDE DEF a
  <2> QED
    BY <2>1, <2>3, <2>4 DEF a
<1>5. DOMAIN t = 1 .. n - h
  <2>1. t \in Seq(Units(setup.feed)) 
    <3>1. \A k \in h + 1 .. n : s[k] \in Units(setup.feed)
      <4>1. \A k \in h + 1 .. n : k \in 1 .. n
        BY <1>2
      <4> QED
        BY <1>1, <4>1, ElementOfSeq
    <3>2. t = SubSeq(s, h + 1, n) /\ h + 1 \in Int
      BY <1>1, <1>2 DEF Stream
    <3> HIDE DEF h, t
    <3> QED
      BY <3>1, <3>2, SubSeqProperties
  <2> HIDE DEF t
  <2> QED
    BY <1>4, <2>1, LenProperties
<1> HIDE DEF t, h
<1>6. \A k \in 1 .. n - 1 : Follows(setup.feed, s[k], s[k + 1])
  BY <1>1 DEF Ok
\* The unit before each, the header before the first.
<1>7. ASSUME NEW k \in 1 .. n - h
      PROVE  /\ Follows(setup.feed, s[h + k - 1], t[k])
             /\ t[k] # Header
             /\ (k = 1 => s[h + k - 1] = Header)
             /\ k > 1 => s[h + k - 1] = t[k - 1]
  <2>1. h + k - 1 \in 1 .. n - 1 /\ h + k - 1 + 1 = h + k /\ h + k \in 1 .. n /\ h + k > h
    BY <1>2, <1>7
  <2>2. k = 1 => h + k - 1 = h
    BY <1>2
  <2>3. k > 1 => k - 1 \in 1 .. n - h /\ h + k - 1 = h + (k - 1)
    BY <1>2, <1>7
  <2> QED
    BY <1>2, <1>4, <1>6, <1>7, <2>1, <2>2, <2>3
<1>8. Header \notin 1 .. len /\ Trailer \notin 1 .. len /\ Header # Trailer
  BY UnitAssumption
<1>9. \A k \in 1 .. n - h : k > 1 => k - 1 \in 1 .. n - h
  BY <1>2
<1>10. ASSUME NEW k \in 1 .. n - h, t[k] = Trailer
       PROVE  k = n - h /\ k > 1 /\ ItemAt(t[k - 1] + 1) = End
  <2>1. s[h + k - 1] \in 1 .. len /\ setup.feed[s[h + k - 1] + 1] = End
    BY <1>1, <1>7, <1>8, <1>10 DEF Follows
  <2>2. k > 1
    BY <1>7, <1>8, <1>10, <2>1
  <2>3. ItemAt(t[k - 1] + 1) = End
    BY <1>7, <1>10, <2>1, <2>2 DEF ItemAt
  <2>4. ASSUME k # n - h PROVE FALSE
    <3>1. k + 1 \in 1 .. n - h /\ k + 1 > 1 /\ h + (k + 1) - 1 = h + k /\ k + 1 - 1 = k
      BY <1>2, <1>10, <2>4
    <3>2. Follows(setup.feed, t[k], t[k + 1]) /\ t[k + 1] # Header
      BY <1>7, <3>1
    <3> QED
      BY <1>1, <1>8, <1>10, <3>2 DEF Follows
  <2> QED
    BY <2>2, <2>3, <2>4
<1>11. ASSUME NEW k \in 1 .. n - h, t[k] # Trailer, k > 1 PROVE t[k] = t[k - 1] + 1
  <2>1. Follows(setup.feed, t[k - 1], t[k]) /\ t[k] # Header /\ t[k - 1] # Header
    BY <1>7, <1>9, <1>11
  <2> QED
    BY <1>11, <2>1 DEF Follows
<1>12. Len(t) = n - h
  BY <1>4
<1> QED
  BY <1>5, <1>10, <1>11, <1>12 DEF InOrder, t

\* What is left of the stream, once a chunk has been read, of what there was.
Brings(chunk, before, after) ==
  IF IsSentinel(chunk)
  THEN after = <<>> /\ (chunk.cut \/ Ended(before))
  ELSE after = Cat(before, chunk.data)

\* The streams of a reader that has read "before" and goes through a queue.
Flow(f, chunks, streams) ==
  /\ streams \in Seq(Seq(Units(f))) /\ Len(streams) = Len(chunks) + 1
  /\ \A k \in 1 .. Len(chunks) + 1 : Ok(f, streams[k])
  /\ \A k \in 1 .. Len(chunks) : Brings(chunks[k], streams[k], streams[k + 1])

Comes(f, chunks, before, after) ==
  \E streams : /\ Flow(f, chunks, streams)
               /\ streams[1] = before /\ streams[Len(chunks) + 1] = after

LEMMA ComesOk ==
  ASSUME NEW f, NEW C, NEW q \in Seq(C), NEW r, NEW s, Comes(f, q, r, s)
  PROVE  r \in Seq(Units(f)) /\ Ok(f, r) /\ s \in Seq(Units(f)) /\ Ok(f, s)
<1>1. PICK st : Flow(f, q, st) /\ st[1] = r /\ st[Len(q) + 1] = s
  BY DEF Comes
<1>2. PICK n \in Nat : n = Len(q)
  BY LenProperties
<1>3. 1 \in 1 .. n + 1 /\ n + 1 \in 1 .. n + 1 /\ st \in Seq(Seq(Units(f))) /\ Len(st) = n + 1
  BY <1>1, <1>2 DEF Flow
<1>4. st[1] \in Seq(Units(f)) /\ st[n + 1] \in Seq(Units(f))
  BY <1>3, ElementOfSeq
<1> QED
  BY <1>1, <1>2, <1>3, <1>4 DEF Flow

LEMMA ComesNone ==
  ASSUME NEW f, NEW r \in Seq(Units(f)), Ok(f, r)
  PROVE  Comes(f, <<>>, r, r)
<1> DEFINE T == Seq(Units(f))
           st == <<r>>
<1>1. r \in T
  OBVIOUS
<1> HIDE DEF T
<1>2. st \in Seq(T) /\ Len(st) = 0 + 1 /\ st[1] = r /\ st[0 + 1] = r
  BY <1>1
<1>3. Len(<<>>) = 0 /\ \A k \in 1 .. 0 + 1 : k = 1
  OBVIOUS
<1> HIDE DEF st
<1>4. \A k \in 1 .. 0 + 1 : Ok(f, st[k])
  BY <1>2, <1>3
<1>5. \A k \in 1 .. 0 : Brings(<<>>[k], st[k], st[k + 1])
  OBVIOUS
<1>6. Flow(f, <<>>, st)
  BY <1>2, <1>3, <1>4, <1>5 DEF Flow, T
<1> QED
  BY <1>2, <1>3, <1>6 DEF Comes

LEMMA ComesPut ==
  ASSUME NEW f, NEW C, NEW q \in Seq(C), NEW c \in C, NEW r, NEW s, NEW t \in Seq(Units(f)),
         Comes(f, q, r, s), Brings(c, s, t), Ok(f, t)
  PROVE  Comes(f, Append(q, c), r, t)
<1> DEFINE T == Seq(Units(f))
           p == Append(q, c)
<1>1. PICK st : Flow(f, q, st) /\ st[1] = r /\ st[Len(q) + 1] = s
  BY DEF Comes
<1>2. PICK n \in Nat : n = Len(q)
  BY LenProperties
<1>3. /\ st \in Seq(T) /\ Len(st) = n + 1 /\ st[n + 1] = s /\ t \in T
      /\ \A k \in 1 .. n + 1 : Ok(f, st[k])
      /\ \A k \in 1 .. n : Brings(q[k], st[k], st[k + 1])
  BY <1>1, <1>2 DEF Flow
<1>4. Len(p) = n + 1 /\ p[n + 1] = c /\ \A k \in 1 .. n : p[k] = q[k]
  BY <1>2, AppendProperties
<1> HIDE DEF T, p
<1> DEFINE u == Append(st, t)
<1>5. /\ u \in Seq(T) /\ Len(u) = (n + 1) + 1 /\ u[(n + 1) + 1] = t
      /\ \A k \in 1 .. n + 1 : u[k] = st[k]
  BY <1>3, AppendProperties
<1> HIDE DEF u
<1>6. ASSUME NEW k \in 1 .. (n + 1) + 1 PROVE Ok(f, u[k])
  <2>1. k = (n + 1) + 1 \/ k \in 1 .. n + 1
    BY <1>6
  <2> QED
    BY <1>3, <1>5, <2>1
<1>7. ASSUME NEW k \in 1 .. n + 1 PROVE Brings(p[k], u[k], u[k + 1])
  <2>1. CASE k = n + 1
    BY <1>3, <1>4, <1>5, <1>7, <2>1
  <2>2. CASE k # n + 1
    <3>1. k \in 1 .. n /\ k + 1 \in 1 .. n + 1
      BY <1>7, <2>2
    <3> QED
      BY <1>3, <1>4, <1>5, <1>7, <3>1
  <2> QED
    BY <2>1, <2>2
<1>8. Flow(f, p, u)
  BY <1>4, <1>5, <1>6, <1>7 DEF Flow, T
<1>9. u[1] = r /\ u[Len(p) + 1] = t
  <2>1. 1 \in 1 .. n + 1
    OBVIOUS
  <2> QED
    BY <1>1, <1>4, <1>5, <2>1
<1> QED
  BY <1>8, <1>9 DEF Comes, p

LEMMA ComesGet ==
  ASSUME NEW f, NEW C, NEW q \in Seq(C), q # <<>>, NEW r, NEW s, Comes(f, q, r, s)
  PROVE  \E t \in Seq(Units(f)) : Brings(Head(q), r, t) /\ Comes(f, Tail(q), t, s)
<1> DEFINE T == Seq(Units(f))
           p == Tail(q)
<1>1. PICK st : Flow(f, q, st) /\ st[1] = r /\ st[Len(q) + 1] = s
  BY DEF Comes
<1>2. PICK n \in Nat : Len(q) = n + 1
  <2>1. Len(q) \in Nat /\ Len(q) # 0
    BY LenProperties, EmptySeq
  <2>2. Len(q) - 1 \in Nat /\ Len(q) = (Len(q) - 1) + 1
    BY <2>1
  <2> QED
    BY <2>2
<1>3. Len(p) = n /\ Head(q) = q[1] /\ \A k \in 1 .. n : p[k] = q[k + 1]
  <2>1. Len(p) = Len(q) - 1 /\ Head(q) = q[1] /\ \A k \in 1 .. Len(q) - 1 : p[k] = q[k + 1]
    BY HeadTailProperties
  <2> HIDE DEF p
  <2> QED
    BY <1>2, <2>1
<1>4. /\ st \in Seq(T) /\ Len(st) = (n + 1) + 1 /\ st[(n + 1) + 1] = s
      /\ \A k \in 1 .. (n + 1) + 1 : Ok(f, st[k])
      /\ \A k \in 1 .. n + 1 : Brings(q[k], st[k], st[k + 1])
  BY <1>1, <1>2 DEF Flow
<1> HIDE DEF T, p
<1> DEFINE u == Tail(st)
<1>5. u \in Seq(T) /\ Len(u) = n + 1 /\ \A k \in 1 .. n + 1 : u[k] = st[k + 1]
  <2>1. st # <<>>
    BY <1>4, EmptySeq
  <2>2. u \in Seq(T) /\ Len(u) = Len(st) - 1 /\ \A k \in 1 .. Len(st) - 1 : u[k] = st[k + 1]
    BY <1>4, <2>1, HeadTailProperties
  <2>3. Len(st) - 1 = n + 1
    BY <1>4
  <2> HIDE DEF u
  <2> QED
    BY <2>2, <2>3
<1> HIDE DEF u
<1>6. ASSUME NEW k \in 1 .. n + 1 PROVE Ok(f, u[k])
  <2>1. k + 1 \in 1 .. (n + 1) + 1
    BY <1>6
  <2> QED
    BY <1>4, <1>5, <1>6, <2>1
<1>7. ASSUME NEW k \in 1 .. n PROVE Brings(p[k], u[k], u[k + 1])
  <2>1. k + 1 \in 1 .. n + 1 /\ k \in 1 .. n + 1
    BY <1>7
  <2> QED
    BY <1>3, <1>4, <1>5, <1>7, <2>1
<1>8. Flow(f, p, u)
  BY <1>3, <1>5, <1>6, <1>7 DEF Flow, T
<1>9. 1 \in 1 .. n + 1 /\ n + 1 \in 1 .. n + 1
  OBVIOUS
<1>10. u[1] \in T
  BY <1>5, <1>9, ElementOfSeq
<1>11. Comes(f, p, u[1], s)
  BY <1>3, <1>4, <1>5, <1>8, <1>9 DEF Comes
<1>12. Brings(Head(q), r, u[1])
  BY <1>1, <1>3, <1>4, <1>5, <1>9
<1> QED
  BY <1>10, <1>11, <1>12 DEF T, p

LEMMA ComesChunk ==
  ASSUME NEW f, NEW item, NEW data \in Seq(Units(f)), NEW C, NEW q \in Seq(C),
         Chunk(item, data) \in Seq(C), NEW r, NEW s, Comes(f, q, r, s), Ok(f, Cat(s, data))
  PROVE  /\ Cat(q, Chunk(item, data)) \in Seq(C)
         /\ Comes(f, Cat(q, Chunk(item, data)), r, Cat(s, data))
<1> DEFINE c == [item |-> item, data |-> data, cut |-> FALSE]
<1>1. s \in Seq(Units(f))
  BY ComesOk
<1>2. CASE data = <<>>
  <2>1. Chunk(item, data) = <<>>
    BY <1>2 DEF Chunk
  <2>2. Cat(q, <<>>) = q /\ Cat(s, <<>>) = s
    BY <1>1, CatIs
  <2> QED
    BY <1>2, <2>1, <2>2
<1>3. CASE data # <<>>
  <2>1. Chunk(item, data) = <<c>> /\ c.data = data /\ ~IsSentinel(c)
    BY <1>3 DEF Chunk, IsSentinel
  <2>2. Brings(c, s, Cat(s, data))
    BY <2>1 DEF Brings
  <2> HIDE DEF c
  <2>3. c \in C
    BY <2>1
  <2>4. Cat(s, data) \in Seq(Units(f))
    BY <1>1, CatIs
  <2>5. Comes(f, Append(q, c), r, Cat(s, data))
    <3> DEFINE t == Cat(s, data)
    <3>1. t \in Seq(Units(f)) /\ Brings(c, s, t) /\ Ok(f, t)
      BY <2>2, <2>4
    <3> HIDE DEF t
    <3>2. Comes(f, Append(q, c), r, t)
      BY <2>3, <3>1, ComesPut
    <3> QED
      BY <3>2 DEF t
  <2>6. Append(q, c) = Cat(q, <<c>>) /\ Append(q, c) \in Seq(C)
    BY <2>3, CatAppend, AppendProperties
  <2> QED
    BY <2>1, <2>5, <2>6
<1> QED
  BY <1>2, <1>3

LEMMA ComesEnd ==
  ASSUME NEW f, NEW cut \in BOOLEAN, NEW C, NEW q \in Seq(C),
         Sentinel(cut) \in Seq(C), NEW r, NEW s, Comes(f, q, r, s), cut \/ Ended(s)
  PROVE  Comes(f, Cat(q, Sentinel(cut)), r, <<>>)
<1> DEFINE c == [item |-> Null, data |-> <<>>, cut |-> cut]
<1>1. Sentinel(cut) = <<c>> /\ IsSentinel(c) /\ c.cut = cut
  BY DEF Sentinel, IsSentinel
<1> HIDE DEF c
<1>2. c \in C /\ Brings(c, s, <<>>)
  BY <1>1 DEF Brings
<1>3. <<>> \in Seq(Units(f)) /\ Ok(f, <<>>)
  BY OkShort
<1>4. Comes(f, Append(q, c), r, <<>>)
  BY <1>2, <1>3, ComesPut
<1>5. Append(q, c) = Cat(q, <<c>>)
  BY <1>2, CatAppend
<1> QED
  BY <1>1, <1>4, <1>5

--------------------------------------------------------------------------------
(* What one buffer adds: the header, what falls out of the codec and of the *)
(* muxer, and at the end the rest and the trailer.                         *)

LEMMA UnitsIs == Units(setup.feed) = Unit
  BY DEF Units, Unit

LEMMA SplitWhole ==
  ASSUME NEW T, NEW s \in Seq(T), NEW k \in 0 .. Len(s)
  PROVE  Cat(SubSeq(s, 1, k), SubSeq(s, k + 1, Len(s))) = s
<1>1. 1 \in 1 .. Len(s) + 1 /\ k \in 1 - 1 .. Len(s) /\ Len(s) \in k .. Len(s)
  OBVIOUS
<1>2. SubSeq(s, 1, k) \o SubSeq(s, k + 1, Len(s)) = SubSeq(s, 1, Len(s))
  BY <1>1, ConcatAdjacentSubSeq
<1> QED
  BY <1>2, SubSeqFull DEF Cat

\* What the muxer holds of the stream under way; and that stream with all that
\* is still to leave the encoder.
Rest       == IF sent_header THEN avio ELSE <<>>
Made(base) == Cat(base, Cat(Rest, codec_queue))

\* The queue with the header that the next buffer makes.
WithHeader == Cat(outq, NewHeader)

LEMMA HeldType ==
  ASSUME TypeOK
  PROVE  /\ codec_queue \in Seq(Unit) /\ avio \in Seq(Unit) /\ Rest \in Seq(Unit)
         /\ outq \in Seq(Chunks) /\ encode_head \in Item \cup {Null}
         /\ DOMAIN setup.feed \subseteq Unit /\ Header \in Unit /\ Trailer \in Unit
<1>1. DOMAIN setup.feed \subseteq Unit
  BY DEF Unit
<1>2. codec_queue \in Seq(Unit)
  BY <1>1, SeqMonotonic DEF TypeOK
<1>3. avio \in Seq(Unit)
  BY DEF TypeOK
<1>4. Rest \in Seq(Unit)
  <2>1. <<>> \in Seq(Unit)
    OBVIOUS
  <2> QED
    BY <1>3, <2>1 DEF Rest
<1> QED
  BY <1>1, <1>2, <1>3, <1>4 DEF TypeOK, Unit

LEMMA MadeType ==
  ASSUME TypeOK, NEW base \in Seq(Unit)
  PROVE  Made(base) \in Seq(Unit)
<1>1. Cat(Rest, codec_queue) \in Seq(Unit)
  BY HeldType, CatIs
<1> QED
  BY <1>1, CatIs DEF Made

\* What comes out of the codec (c) and out of the muxer (a), and what stays in
\* them (d and b).
LEMMA Pieces ==
  ASSUME TypeOK, buffer \in DOMAIN setup.feed, EncodeBuffer
  PROVE  \E c \in Seq(Unit) : \E d \in Seq(Unit) : \E a \in Seq(Unit) : \E b \in Seq(Unit) :
           /\ Cat(c, d) = Append(codec_queue, buffer) /\ codec_queue' = d
           /\ Cat(a, b) = Cat(Rest, c) /\ avio' = b
           /\ outq' = Cat(outq, Cat(NewHeader, Chunk(ItemAt(buffer), a)))
<1> DEFINE frames == Append(codec_queue, buffer)
<1>1. frames \in Seq(Unit) /\ Len(frames) = Len(codec_queue) + 1 /\ Rest \in Seq(Unit)
  <2>1. codec_queue \in Seq(Unit) /\ buffer \in Unit /\ Rest \in Seq(Unit)
    BY HeldType
  <2> QED
    BY <2>1, AppendProperties
<1>2. PICK coded \in 0 .. Len(codec_queue) + 1 :
        /\ codec_queue' = SubSeq(frames, coded + 1, Len(frames))
        /\ \E full \in 0 .. Len(Cat(Rest, SubSeq(frames, 1, coded))) :
             /\ avio' = SubSeq(Cat(Rest, SubSeq(frames, 1, coded)), full + 1,
                               Len(Cat(Rest, SubSeq(frames, 1, coded))))
             /\ Put(NewHeader \o Chunk(ItemAt(buffer), SubSeq(Cat(Rest, SubSeq(frames, 1, coded)), 1, full)))
  BY DEF EncodeBuffer, Rest, Cat
<1> DEFINE c == SubSeq(frames, 1, coded)
           d == SubSeq(frames, coded + 1, Len(frames))
           w == Cat(Rest, c)
<1>3. PICK full \in 0 .. Len(w) :
             /\ avio' = SubSeq(w, full + 1, Len(w))
             /\ Put(NewHeader \o Chunk(ItemAt(buffer), SubSeq(w, 1, full)))
  BY <1>2
<1> DEFINE a == SubSeq(w, 1, full)
           b == SubSeq(w, full + 1, Len(w))
<1>4. c \in Seq(Unit) /\ d \in Seq(Unit) /\ Cat(c, d) = frames
  <2>1. coded \in 0 .. Len(frames)
    BY <1>1, <1>2
  <2> HIDE DEF frames
  <2> QED
    BY <1>1, <2>1, SplitType, SplitWhole
<1>5. codec_queue' = d
  BY <1>2
<1> HIDE DEF c, d, frames
<1>6. w \in Seq(Unit)
  BY <1>1, <1>4, CatIs
<1>7. a \in Seq(Unit) /\ b \in Seq(Unit) /\ Cat(a, b) = w
  <2> HIDE DEF w
  <2> QED
    BY <1>3, <1>6, SplitType, SplitWhole
<1>8. avio' = b /\ outq' = Cat(outq, Cat(NewHeader, Chunk(ItemAt(buffer), a)))
  BY <1>3 DEF Put, Cat
<1>9. Cat(a, b) = Cat(Rest, c)
  BY <1>7
<1> HIDE DEF a, b, w
<1> QED
  BY <1>4, <1>5, <1>7, <1>8, <1>9 DEF frames

\* Where the stream goes on: after the header that the next buffer makes, if
\* there was none.
LEMMA HeaderOut ==
  ASSUME TypeOK, buffer \in DOMAIN setup.feed, Ok(setup.feed, avio),
         ~sent_header => codec_queue = <<>>, NEW cur, NEW l,
         Comes(setup.feed, outq, read, cur),
         IF sent_header
         THEN /\ Header \in Range(cur) /\ Ok(setup.feed, Made(cur))
              /\ Made(cur) # <<>> /\ Made(cur)[Len(Made(cur))] = l
              /\ l \in DOMAIN setup.feed /\ buffer = l + 1
         ELSE cur = <<>>
  PROVE  \E base \in Seq(Unit) :
           /\ WithHeader \in Seq(Chunks) /\ NewHeader \in Seq(Chunks)
           /\ Comes(setup.feed, WithHeader, read, base)
           /\ Header \in Range(base)
           /\ Ok(setup.feed, Made(base))
           /\ Made(base) # <<>> /\ Follows(setup.feed, Made(base)[Len(Made(base))], buffer)
<1> DEFINE f == setup.feed
<1>1. /\ codec_queue \in Seq(Unit) /\ avio \in Seq(Unit)
      /\ outq \in Seq(Chunks) /\ encode_head \in Item \cup {Null} /\ Header \in Unit
  BY HeldType
<1>2. cur \in Seq(Unit)
  BY ComesOk, UnitsIs, <1>1
<1>3. CASE sent_header
  <2>1. NewHeader = <<>> /\ <<>> \in Seq(Chunks) /\ WithHeader = outq
    <3>1. NewHeader = <<>> /\ <<>> \in Seq(Chunks)
      BY <1>3 DEF NewHeader
    <3>2. Cat(outq, <<>>) = outq
      BY <1>1, CatIs
    <3> QED
      BY <3>1, <3>2 DEF WithHeader
  <2>2. Follows(f, l, buffer)
    BY <1>3 DEF Follows
  <2> QED
    BY <1>1, <1>2, <1>3, <2>1, <2>2
<1>4. CASE ~sent_header
  <2> DEFINE a    == Chunk(encode_head, avio)
             b    == Chunk(encode_head, <<Header>>)
             base == Cat(avio, <<Header>>)
             q    == Cat(outq, a)
  <2>1. base = Append(avio, Header) /\ <<Header>> \in Seq(Unit) /\ base \in Seq(Unit)
    BY <1>1, CatAppend, AppendProperties
  <2>2. a \in Seq(Chunks) /\ b \in Seq(Chunks)
    BY <1>1, <2>1, ChunkType
  <2>3. Cat(<<>>, avio) = avio
    BY <1>1, CatIs
  <2>4. q \in Seq(Chunks) /\ Comes(f, q, read, avio)
    <3>1. Ok(f, Cat(<<>>, avio)) /\ Comes(f, outq, read, <<>>)
      BY <1>4, <2>3
    <3>2. Cat(outq, a) \in Seq(Chunks) /\ Comes(f, Cat(outq, a), read, Cat(<<>>, avio))
      BY <1>1, <2>2, <3>1, UnitsIs, ComesChunk
    <3> QED
      BY <2>3, <3>2
  <2>5. Ok(f, base)
    <3>1. avio = <<>> \/ Follows(f, avio[Len(avio)], Header)
      BY DEF Follows
    <3>2. Ok(f, Append(avio, Header))
      BY <1>1, <3>1, OkAppend
    <3> QED
      BY <2>1, <3>2
  <2>6. base # <<>> /\ base[Len(base)] = Header /\ Header \in Range(base)
    <3>1. Len(Append(avio, Header)) = Len(avio) + 1 /\ Append(avio, Header)[Len(avio) + 1] = Header
          /\ Append(avio, Header) # <<>>
      BY <1>1, AppendProperties
    <3>2. Range(Append(avio, Header)) = Range(avio) \cup {Header}
      BY <1>1, RangeAppend
    <3> QED
      BY <2>1, <3>1, <3>2
  <2>7. WithHeader = Cat(q, b) /\ NewHeader \in Seq(Chunks)
    <3>1. NewHeader = Cat(a, b)
      BY <1>4 DEF NewHeader, Cat
    <3> HIDE DEF a, b
    <3>2. Cat(Cat(outq, a), b) = Cat(outq, Cat(a, b)) /\ Cat(a, b) \in Seq(Chunks)
      BY <1>1, <2>2, CatAgain, CatIs
    <3> QED
      BY <3>1, <3>2 DEF WithHeader
  <2> HIDE DEF q
  <2>8. Cat(q, b) \in Seq(Chunks) /\ Comes(f, Cat(q, b), read, base)
    BY <2>1, <2>2, <2>4, <2>5, UnitsIs, ComesChunk
  <2>9. Made(base) = base
    <3>1. codec_queue = <<>> /\ Rest = <<>>
      BY <1>4 DEF Rest
    <3>2. Cat(<<>>, <<>>) = <<>>
      <4>1. <<>> \in Seq(Unit)
        OBVIOUS
      <4> QED
        BY <4>1, CatIs
    <3>3. Cat(base, <<>>) = base
      BY <2>1, CatIs
    <3> QED
      BY <3>1, <3>2, <3>3 DEF Made
  <2>10. Follows(f, Header, buffer)
    BY DEF Follows
  <2> HIDE DEF b, base
  <2> QED
    BY <2>1, <2>5, <2>6, <2>7, <2>8, <2>9, <2>10
<1> QED
  BY <1>3, <1>4

\* The thread takes the next buffer to the codec.
LEMMA BufferOut ==
  ASSUME TypeOK, buffer \in DOMAIN setup.feed, ItemAt(buffer) \in Item, EncodeBuffer,
         NEW base \in Seq(Unit), WithHeader \in Seq(Chunks), NewHeader \in Seq(Chunks),
         Comes(setup.feed, WithHeader, read, base), Header \in Range(base),
         Ok(setup.feed, Made(base)), Made(base) # <<>>,
         Follows(setup.feed, Made(base)[Len(Made(base))], buffer)
  PROVE  \E next \in Seq(Unit) :
           /\ Comes(setup.feed, outq', read, next)
           /\ Header \in Range(next)
           /\ Ok(setup.feed, avio')
           /\ Cat(next, Cat(avio', codec_queue')) = Append(Made(base), buffer)
           /\ Ok(setup.feed, Append(Made(base), buffer)) /\ Made(base) \in Seq(Unit)
<1> DEFINE f == setup.feed
           made == Made(base)
           e == Cat(Rest, codec_queue)
           one == <<buffer>>
<1>1. /\ codec_queue \in Seq(Unit) /\ Rest \in Seq(Unit) /\ outq \in Seq(Chunks) /\ buffer \in Unit
  BY HeldType
<1>2. PICK c \in Seq(Unit), d \in Seq(Unit), a \in Seq(Unit), b \in Seq(Unit) :
           /\ Cat(c, d) = Append(codec_queue, buffer) /\ codec_queue' = d
           /\ Cat(a, b) = Cat(Rest, c) /\ avio' = b
           /\ outq' = Cat(outq, Cat(NewHeader, Chunk(ItemAt(buffer), a)))
  BY Pieces
<1> DEFINE chunk == Chunk(ItemAt(buffer), a)
           next  == Cat(base, a)
           y     == Cat(b, d)
<1>3. e \in Seq(Unit) /\ one \in Seq(Unit)
  BY <1>1, CatIs
<1>4. made = Cat(base, e)
  BY DEF Made
<1>5. made \in Seq(Unit)
  BY MadeType
<1>6. next \in Seq(Unit) /\ y \in Seq(Unit) /\ Range(next) = Range(base) \cup Range(a)
  BY CatIs
<1>7. Ok(f, Append(made, buffer))
  <2>1. Ok(f, made) /\ (made = <<>> \/ Follows(f, made[Len(made)], buffer))
    OBVIOUS
  <2> HIDE DEF made
  <2> QED
    BY <1>1, <1>5, <2>1, OkAppend
<1>8. Cat(next, y) = Append(made, buffer)
  <2>1. Cat(Cat(base, a), y) = Cat(base, Cat(a, y))
    <3> HIDE DEF y
    <3> QED
      BY <1>6, CatAgain
  <2>2. Cat(a, y) = Cat(Cat(a, b), d)
    BY CatAgain
  <2>3. Cat(Cat(Rest, c), d) = Cat(Rest, Cat(c, d))
    BY <1>1, CatAgain
  <2>5. Append(codec_queue, buffer) = Cat(codec_queue, one)
    BY <1>1, CatAppend
  <2>7. Append(made, buffer) = Cat(made, one)
    <3> HIDE DEF made
    <3> QED
      BY <1>1, <1>5, CatAppend
  <2> HIDE DEF e, made, one
  <2>4. Cat(Cat(Rest, codec_queue), one) = Cat(Rest, Cat(codec_queue, one))
    BY <1>1, <1>3, CatAgain
  <2>6. Cat(Cat(base, e), one) = Cat(base, Cat(e, one))
    BY <1>3, CatAgain
  <2> QED
    BY <1>2, <1>4, <2>1, <2>2, <2>3, <2>4, <2>5, <2>6, <2>7 DEF e
<1> HIDE DEF made, e
<1>9. Ok(f, next) /\ Ok(f, b)
  <2> HIDE DEF y, next
  <2>1. Ok(f, next) /\ Ok(f, y)
    <3>1. Ok(f, Cat(next, y))
      BY <1>7, <1>8
    <3> QED
      BY <1>6, <3>1, OkParts
  <2> QED
    BY <2>1, OkParts DEF y
<1>10. chunk \in Seq(Chunks)
  BY ChunkType
<1>11. outq' = Cat(WithHeader, chunk)
  <2>1. outq' = Cat(outq, Cat(NewHeader, chunk))
    BY <1>2
  <2> HIDE DEF chunk
  <2>2. Cat(Cat(outq, NewHeader), chunk) = Cat(outq, Cat(NewHeader, chunk))
    BY <1>1, <1>10, CatAgain
  <2> QED
    BY <2>1, <2>2 DEF WithHeader
<1>12. Comes(f, Cat(WithHeader, chunk), read, next)
  BY <1>9, <1>10, UnitsIs, ComesChunk
<1>13. avio' = b /\ codec_queue' = d
  BY <1>2
<1>14. Header \in Range(next)
  BY <1>6
<1>15. Cat(next, Cat(avio', codec_queue')) = Append(made, buffer)
  BY <1>8, <1>13
<1> HIDE DEF next, chunk, y
<1>16. Comes(f, outq', read, next)
  BY <1>11, <1>12
<1>17. Ok(f, avio')
  BY <1>9, <1>13
<1> QED
  BY <1>5, <1>6, <1>7, <1>14, <1>15, <1>16, <1>17 DEF made

\* The end drains the codec and the muxer and ends the stream.
LEMMA EndOut ==
  ASSUME TypeOK, EncodeEnd, sent_header, buffer \in DOMAIN setup.feed,
         NEW cur, Comes(setup.feed, outq, read, cur), Header \in Range(cur),
         NEW l \in DOMAIN setup.feed, buffer = l + 1, Ok(setup.feed, Made(cur)),
         Made(cur) # <<>>, Made(cur)[Len(Made(cur))] = l
  PROVE  Comes(setup.feed, outq', read, <<>>)
<1> DEFINE f == setup.feed
           rest == Cat(avio, codec_queue)
           made == Made(cur)
           all  == Cat(made, <<Trailer>>)
           a == Chunk(encode_head, rest)
           b == Chunk(encode_head, <<Trailer>>)
           e == Sentinel(FALSE)
           p == Cat(outq, a)
           q == Cat(p, b)
<1>1. /\ codec_queue \in Seq(Unit) /\ avio \in Seq(Unit) /\ outq \in Seq(Chunks)
      /\ encode_head \in Item \cup {Null} /\ Trailer \in Unit
  BY HeldType
<1>2. cur \in Seq(Unit)
  BY <1>1, ComesOk, UnitsIs
<1>3. rest \in Seq(Unit)
  BY <1>1, CatIs
<1>4. outq' = Cat(outq, Cat(Cat(a, b), e)) /\ ItemAt(buffer) = End
  BY DEF EncodeEnd, Put, Cat
<1>5. made = Cat(cur, rest) /\ made \in Seq(Unit) /\ Range(made) = Range(cur) \cup Range(rest)
  <2>1. made = Cat(cur, rest)
    BY DEF Made, Rest
  <2> HIDE DEF rest, made
  <2> QED
    BY <1>2, <1>3, <2>1, CatIs
<1>6. Ok(f, made) /\ made # <<>> /\ made[Len(made)] = l
  OBVIOUS
<1> HIDE DEF rest, made
<1>7. all = Append(made, Trailer) /\ all \in Seq(Unit) /\ <<Trailer>> \in Seq(Unit)
  BY <1>1, <1>5, CatAppend, AppendProperties
<1>8. a \in Seq(Chunks) /\ b \in Seq(Chunks) /\ e \in Seq(Chunks)
  BY <1>1, <1>3, <1>7, ChunkType, SentinelType
<1>9. p \in Seq(Chunks) /\ Comes(f, p, read, made)
  <2>1. Ok(f, Cat(cur, rest))
    BY <1>5, <1>6
  <2>2. Cat(outq, a) \in Seq(Chunks) /\ Comes(f, Cat(outq, a), read, Cat(cur, rest))
    BY <1>1, <1>3, <1>8, <2>1, UnitsIs, ComesChunk
  <2> QED
    BY <1>5, <2>2
<1>10. Ok(f, all)
  <2>1. Follows(f, l, Trailer)
    BY <1>4 DEF Follows, ItemAt
  <2>2. Ok(f, Append(made, Trailer))
    BY <1>1, <1>5, <1>6, <2>1, OkAppend
  <2> QED
    BY <1>7, <2>2
<1>11. Ended(all)
  <2>1. Len(Append(made, Trailer)) = Len(made) + 1 /\ Append(made, Trailer)[Len(made) + 1] = Trailer
        /\ Append(made, Trailer) # <<>>
    BY <1>1, <1>5, AppendProperties
  <2>2. Range(Append(made, Trailer)) = Range(made) \cup {Trailer}
    BY <1>1, <1>5, RangeAppend
  <2> QED
    BY <1>5, <1>7, <2>1, <2>2 DEF Ended
<1>12. Cat(q, e) = Cat(outq, Cat(Cat(a, b), e))
  <2> HIDE DEF a, b, e
  <2>1. Cat(a, b) \in Seq(Chunks)
    BY <1>8, CatIs
  <2>2. Cat(Cat(outq, a), b) = Cat(outq, Cat(a, b))
    BY <1>1, <1>8, CatAgain
  <2>3. Cat(Cat(outq, Cat(a, b)), e) = Cat(outq, Cat(Cat(a, b), e))
    BY <1>1, <1>8, <2>1, CatAgain
  <2> QED
    BY <2>2, <2>3
<1> HIDE DEF a, e, p, all
<1>13. q \in Seq(Chunks) /\ Comes(f, q, read, all)
  <2>1. Cat(p, b) \in Seq(Chunks) /\ Comes(f, Cat(p, b), read, Cat(made, <<Trailer>>))
    BY <1>7, <1>8, <1>9, <1>10, UnitsIs, ComesChunk DEF all
  <2> QED
    BY <2>1 DEF all
<1> HIDE DEF b, q
<1>14. Comes(f, Cat(q, e), read, <<>>)
  BY <1>8, <1>11, <1>13, ComesEnd DEF e
<1> QED
  BY <1>4, <1>12, <1>14

--------------------------------------------------------------------------------
(* Between the playlist and the stream no place is lost: what the decoder    *)
(* has yet to deliver and what is queued are spans of the feed (Coming),    *)
(* and the queue begins where the stream stops (Going), unless a flush or   *)
(* an abort has yet to take effect (Still).                                *)

\* The thread may still take what comes; what the application has read and the
\* queue are gone and the codec is about to go.
Still   == ~flushing /\ ~aborted
Closing == apc \in {"out_aborted", "join"}

WayInv ==
  /\ apc \notin {"purge_hook", "free"} /\ Listed = DOMAIN setup.feed
  /\ apc \in {"sink_map", "detached"} \/ Closing => aborted
  /\ Closing => buffer = Null
  /\ ~attached /\ apc = "idle" => ~sent_header
  /\ flushing => audioq = <<>>
  /\ ~sent_header => codec_queue = <<>>

\* The thread took the n-th place last, and if there is a stream under way l
\* was the last one that went into it.
Coming(l) ==
  \E m \in 0 .. Len(setup.feed) : \E n \in 0 .. m :
    /\ todo = Span(m, Len(setup.feed)) /\ audioq = Span(n, m)
    /\ Still => IF buffer # Null THEN n = buffer ELSE (sent_header => n = l)

Going(l) ==
  \E cur :
    /\ Comes(setup.feed, outq, read, cur)
    /\ IF sent_header /\ ~Closing
       THEN /\ Header \in Range(cur) /\ Ok(setup.feed, Made(cur))
            /\ Made(cur) # <<>> /\ Made(cur)[Len(Made(cur))] = l
            /\ l \in DOMAIN setup.feed /\ (buffer # Null => buffer = l + 1)
       ELSE cur = <<>>

GoesOn    == \E l \in Nat : Coming(l) /\ Going(l)
StreamInv == WayInv /\ Ok(setup.feed, avio) /\ GoesOn

ReadInv ==
  /\ read \in Seq(Unit) /\ Ok(setup.feed, read)
  /\ finished # <<>> => finished \in Seq(Unit) /\ Ok(setup.feed, finished) /\ Ended(finished)

LEMMA SetupStep ==
  ASSUME Next \/ UNCHANGED vars
  PROVE  setup' = setup
  BY DEF Next, vars, feed, Thread, Check, Lock, Sleep, Woken, GetBuffer, GetAborted, Encode,
         SpuriousWake, BufferGet, Deliver, Continue, PurgeHook, RemoveFree, FlushHook, DetachSink,
         DetachOutput, DetachSignal, Joined, RemoveItem, Seek, DetachBegin, Attach, AttachRefused,
         DeliverBuffer, TakeBuffer, RemoveBegin, RemoveStraggling, RemoveCall, RemoveEnd, SeekBegin,
         SeekEnd, DetachCall,
         SinkAbort, SinkUnmap, AttachCall, Proceed

LEMMA WayStep ==
  ASSUME AttachedInv, WayInv, "remove" \notin setup.calls, Next \/ UNCHANGED vars, ~late'
  PROVE  WayInv'
<1>1. setup' = setup
  BY SetupStep
<1>2. CallInv /\ (buffer # Null => tpc = "got")
  BY DEF AttachedInv, TypeInv
<1>3. ASSUME UNCHANGED <<apc, alive, arg, aborted, attached>>,
             buffer' = Null \/ buffer' = buffer \/ ~Closing,
             sent_header' => sent_header \/ ~(~attached /\ apc = "idle"),
             flushing' => audioq' = <<>>, ~sent_header' => codec_queue' = <<>>
      PROVE  WayInv'
  BY <1>1, <1>3 DEF WayInv, Closing, Listed, ItemAt
<1>4. CASE UNCHANGED vars
  BY <1>3, <1>4 DEF vars, feed, thread, muxer, WayInv
<1>5. CASE Check \/ Lock \/ Sleep \/ Woken \/ GetAborted \/ SpuriousWake
  BY <1>3, <1>5 DEF Check, Lock, Sleep, Woken, GetAborted, SpuriousWake, feed, muxer, WayInv
<1>6. CASE GetBuffer
  <2>1. ~aborted /\ audioq # <<>>
    BY <1>6 DEF GetBuffer, TakeBuffer
  <2>2. ~Closing /\ ~flushing
    BY <2>1 DEF WayInv
  <2> QED
    BY <1>3, <1>6, <2>2 DEF GetBuffer, TakeBuffer, muxer, WayInv
<1>7. CASE Encode
  <2>1. tpc = "got" /\ buffer' = Null /\ UNCHANGED feed
    BY <1>7 DEF Encode
  <2>2. ~(~attached /\ apc = "idle")
    BY <1>2, <2>1 DEF CallInv
  <2>3. ~sent_header' => codec_queue' = <<>>
    BY <1>7 DEF Encode, EncodeBuffer, EncodeEnd, CleanupContext
  <2> QED
    BY <1>3, <2>1, <2>2, <2>3 DEF feed, WayInv
<1>8. CASE BufferGet
  BY <1>3, <1>8 DEF BufferGet, feed, muxer, WayInv
<1>9. CASE Deliver
  BY <1>3, <1>9 DEF Deliver, DeliverBuffer, HeadFree, thread, muxer, WayInv
<1>10. ASSUME NEW p \in setup.seekTo, Seek(p) PROVE WayInv'
  BY <1>3, <1>10 DEF Seek, SeekBegin, thread, muxer, WayInv
<1>11. CASE FlushHook
  BY <1>3, <1>11 DEF FlushHook, SeekEnd, CleanupContext
<1>12. CASE DetachBegin
  BY <1>1, <1>12 DEF DetachBegin, DetachCall, May, thread, muxer, WayInv, Closing, Listed, ItemAt
<1>13. CASE DetachSink
  BY <1>1, <1>13 DEF DetachSink, SinkAbort, SinkUnmap, thread, muxer, WayInv, Closing, Listed, ItemAt
<1>14. CASE DetachOutput
  BY <1>1, <1>14 DEF DetachOutput, Proceed, thread, muxer, WayInv, Closing, Listed, ItemAt
<1>15. CASE DetachSignal
  BY <1>1, <1>15 DEF DetachSignal, Proceed, muxer, WayInv, Closing, Listed, ItemAt
<1>16. CASE Joined
  BY <1>1, <1>16 DEF Joined, Proceed, CleanupContext, thread, WayInv, Closing, Listed, ItemAt
<1>17. ASSUME NEW c \in setup.codecs, Attach(c) \/ AttachRefused(c) PROVE WayInv'
  BY <1>1, <1>17 DEF Attach, AttachCall, AttachRefused, May, thread, muxer, WayInv, Closing, Listed, ItemAt
<1>18. ~PurgeHook /\ ~RemoveFree /\ \A i \in Item : ~RemoveItem(i)
  BY DEF PurgeHook, Proceed, RemoveFree, RemoveEnd, RemoveItem, RemoveBegin, RemoveStraggling,
         RemoveCall, May, WayInv
<1> QED
  BY <1>4, <1>5, <1>6, <1>7, <1>8, <1>9, <1>10, <1>11, <1>12, <1>13, <1>14, <1>15, <1>16, <1>17, <1>18
     DEF Next, Thread, Continue

LEMMA ComingKept ==
  ASSUME NEW l, Coming(l), UNCHANGED <<setup, todo, audioq, buffer>>,
         Still' => Still \/ (buffer = Null /\ ~sent_header'), sent_header' => sent_header
  PROVE  Coming(l)'
<1>1. PICK m \in 0 .. Len(setup.feed) : \E n \in 0 .. m :
        /\ todo = Span(m, Len(setup.feed)) /\ audioq = Span(n, m)
        /\ Still => IF buffer # Null THEN n = buffer ELSE (sent_header => n = l)
  BY DEF Coming
<1>2. PICK n \in 0 .. m :
        /\ todo = Span(m, Len(setup.feed)) /\ audioq = Span(n, m)
        /\ Still => IF buffer # Null THEN n = buffer ELSE (sent_header => n = l)
  BY <1>1
<1>3. Still' => IF buffer' # Null THEN n = buffer' ELSE (sent_header' => n = l)
  BY <1>2
<1> QED
  BY <1>2, <1>3 DEF Coming

LEMMA GoingKept ==
  ASSUME NEW l, Going(l),
         UNCHANGED <<setup, outq, read, avio, codec_queue, sent_header>>,
         buffer' \in {buffer, Null} \/ ~sent_header \/ Closing \/ buffer' = l + 1,
         Closing' <=> Closing
  PROVE  Going(l)'
<1>1. \A cur : Made(cur)' = Made(cur)
  BY DEF Made, Rest
<1> QED
  BY <1>1 DEF Going

\* What the thread makes of the buffer in its hands.
LEMMA EncodeGoes ==
  ASSUME AttachedInv, StreamInv, Encode, setup' = setup, fault = "none", fault' = "none"
  PROVE  Ok(setup.feed, avio)' /\ GoesOn'
<1>1. /\ TypeOK /\ buffer \in DOMAIN setup.feed /\ buffer \in Nat /\ buffer # Null
      /\ buffer' = Null /\ UNCHANGED <<feed, read>>
  <2>1. TypeOK /\ buffer \in DOMAIN setup.feed /\ buffer' = Null /\ UNCHANGED <<feed, read>>
    BY DEF Encode, AttachedInv, TypeInv, history
  <2>2. setup.feed \in Seq(Item \cup {End})
    BY <2>1, FeedAssumption DEF TypeOK, FeedTypeOK
  <2>3. buffer \in Nat
    BY <2>1, <2>2
  <2> QED
    BY <2>1, <2>3, NullAssumption
<1>2. ~Closing /\ ~Closing'
  BY <1>1 DEF StreamInv, WayInv, Closing, feed
<1>3. PICK l \in Nat : Coming(l) /\ Going(l)
  BY DEF StreamInv, GoesOn
<1>4. PICK cur :
    /\ Comes(setup.feed, outq, read, cur)
    /\ IF sent_header
       THEN /\ Header \in Range(cur) /\ Ok(setup.feed, Made(cur))
            /\ Made(cur) # <<>> /\ Made(cur)[Len(Made(cur))] = l
            /\ l \in DOMAIN setup.feed /\ buffer = l + 1
       ELSE cur = <<>>
  BY <1>1, <1>2, <1>3 DEF Going
<1>6. PICK m \in 0 .. Len(setup.feed) : \E n \in 0 .. m :
        /\ todo = Span(m, Len(setup.feed)) /\ audioq = Span(n, m)
        /\ Still => n = buffer
  BY <1>1, <1>3 DEF Coming
<1>7. PICK n \in 0 .. m :
        /\ todo = Span(m, Len(setup.feed)) /\ audioq = Span(n, m)
        /\ Still => n = buffer
  BY <1>6
<1>8. ASSUME NEW k \in Nat, sent_header' => k = buffer PROVE Coming(k)'
  <2>1. Still' => IF buffer' # Null THEN n = buffer' ELSE (sent_header' => n = k)
    BY <1>1, <1>7, <1>8 DEF Still, feed
  <2>2. todo' = Span(m, Len(setup'.feed)) /\ audioq' = Span(n, m) /\ m \in 0 .. Len(setup'.feed)
    BY <1>1, <1>6, <1>7 DEF feed
  <2> QED
    BY <2>1, <2>2 DEF Coming
<1>9. CASE EncodeBuffer
  <2>1. ItemAt(buffer) \in Item
    <3>1. setup.feed \in Seq(Item \cup {End})
      BY <1>1, FeedAssumption DEF TypeOK, FeedTypeOK
    <3> QED
      BY <1>1, <1>9, <3>1 DEF ItemAt, EncodeBuffer
  <2>2. PICK base \in Seq(Unit) :
           /\ WithHeader \in Seq(Chunks) /\ NewHeader \in Seq(Chunks)
           /\ Comes(setup.feed, WithHeader, read, base)
           /\ Header \in Range(base)
           /\ Ok(setup.feed, Made(base))
           /\ Made(base) # <<>> /\ Follows(setup.feed, Made(base)[Len(Made(base))], buffer)
    <3>1. Ok(setup.feed, avio) /\ (~sent_header => codec_queue = <<>>)
      BY DEF StreamInv, WayInv
    <3> QED
      BY <1>1, <1>4, <3>1, HeaderOut
  <2>3. PICK next \in Seq(Unit) :
           /\ Comes(setup.feed, outq', read, next)
           /\ Header \in Range(next)
           /\ Ok(setup.feed, avio')
           /\ Cat(next, Cat(avio', codec_queue')) = Append(Made(base), buffer)
           /\ Ok(setup.feed, Append(Made(base), buffer)) /\ Made(base) \in Seq(Unit)
    BY <1>1, <1>9, <2>1, <2>2, BufferOut
  <2>4. sent_header' = TRUE
    BY <1>9 DEF EncodeBuffer
  <2>5. Made(next)' = Append(Made(base), buffer)
    BY <2>3, <2>4 DEF Made, Rest
  <2>6. /\ Append(Made(base), buffer) # <<>>
        /\ Append(Made(base), buffer)[Len(Append(Made(base), buffer))] = buffer
    <3> DEFINE made == Made(base)
    <3>1. made \in Seq(Unit) /\ buffer \in Unit
      BY <1>1, <2>3, HeldType
    <3> HIDE DEF made
    <3>2. Append(made, buffer) # <<>> /\ Len(Append(made, buffer)) = Len(made) + 1
          /\ Append(made, buffer)[Len(made) + 1] = buffer
      BY <3>1, AppendProperties
    <3> QED
      BY <3>2 DEF made
  <2>7. PICK b \in Nat : b = buffer
    BY <1>1
  <2>8. Going(b)'
    <3>1. b \in DOMAIN setup'.feed /\ buffer' = Null /\ sent_header' /\ ~Closing'
      BY <1>1, <1>2, <2>4, <2>7
    <3>2. PICK made : made = Made(next)'
      OBVIOUS
    <3>3. /\ Comes(setup'.feed, outq', read', next) /\ Header \in Range(next)
          /\ Ok(setup'.feed, made) /\ made # <<>> /\ made[Len(made)] = b
      BY <1>1, <2>3, <2>5, <2>6, <2>7, <3>2
    <3> QED
      BY <3>1, <3>2, <3>3 DEF Going
  <2>9. Coming(b)'
    BY <1>8, <2>7
  <2>10. Ok(setup.feed, avio)'
    BY <2>3
  <2> QED
    BY <2>8, <2>9, <2>10 DEF GoesOn
<1>10. CASE EncodeEnd
  <2>1. sent_header /\ ~sent_header' /\ avio' = <<>>
    BY <1>10 DEF EncodeEnd, CleanupContext
  <2>2. Comes(setup.feed, outq', read, <<>>)
    BY <1>1, <1>4, <1>10, <2>1, EndOut
  <2>3. Going(l)'
    BY <1>1, <2>1, <2>2 DEF Going
  <2>4. Ok(setup.feed, avio)'
    BY <2>1, OkShort
  <2> QED
    BY <1>3, <1>8, <2>1, <2>3, <2>4 DEF GoesOn
<1> QED
  BY <1>9, <1>10 DEF Encode

--------------------------------------------------------------------------------
(* A step of each actor keeps that.                                        *)

LEMMA KeptGoes ==
  ASSUME GoesOn,
         UNCHANGED <<setup, todo, audioq, buffer, outq, read, avio, codec_queue, sent_header>>,
         Still' => Still, Closing' <=> Closing
  PROVE  GoesOn'
<1>1. PICK l \in Nat : Coming(l) /\ Going(l)
  BY DEF GoesOn
<1>2. Coming(l)'
  BY <1>1, ComingKept
<1>3. Going(l)'
  BY <1>1, GoingKept
<1> QED
  BY <1>1, <1>2, <1>3 DEF GoesOn

LEMMA FeedIs ==
  ASSUME AttachedInv
  PROVE  /\ setup.feed \in Seq(Item \cup {End}) /\ Len(setup.feed) \in Nat
         /\ DOMAIN setup.feed = 1 .. Len(setup.feed)
         /\ outq \in Seq(Chunks)
<1>1. setup.feed \in Seq(Item \cup {End})
  BY FeedAssumption DEF AttachedInv, TypeInv, TypeOK, FeedTypeOK
<1>2. outq \in Seq(Chunks)
  BY DEF AttachedInv, TypeInv, TypeOK
<1> QED
  BY <1>1, <1>2, LenProperties

LEMMA TakeGoes ==
  ASSUME AttachedInv, StreamInv, GetBuffer
  PROVE  GoesOn'
<1>1. /\ buffer = Null /\ Still /\ Still' /\ ~Closing /\ ~Closing'
      /\ audioq # <<>> /\ buffer' = Head(audioq) /\ audioq' = Tail(audioq)
      /\ UNCHANGED <<setup, todo, outq, read, avio, codec_queue, sent_header>>
  BY DEF GetBuffer, TakeBuffer, AttachedInv, TypeInv, StreamInv, WayInv, Still, Closing, muxer, output, history
<1>2. PICK l \in Nat : Coming(l) /\ Going(l)
  BY DEF StreamInv, GoesOn
<1>3. PICK m \in 0 .. Len(setup.feed) : \E n \in 0 .. m :
        /\ todo = Span(m, Len(setup.feed)) /\ audioq = Span(n, m)
        /\ sent_header => n = l
  BY <1>1, <1>2 DEF Coming
<1>4. PICK n \in 0 .. m :
        /\ todo = Span(m, Len(setup.feed)) /\ audioq = Span(n, m)
        /\ sent_header => n = l
  BY <1>3
<1>5. m \in Nat /\ n \in Nat /\ n <= m
  BY <1>3, <1>4, FeedIs
<1>6. n < m
  <2>1. n # m
    BY <1>1, <1>4, <1>5, SpanIs
  <2> QED
    BY <1>5, <2>1
<1>7. buffer' = n + 1 /\ audioq' = Span(n + 1, m)
  BY <1>1, <1>4, <1>5, <1>6, SpanFirst
<1>8. n + 1 \in 0 .. m /\ n + 1 # Null
  BY <1>5, <1>6, NullAssumption
<1>9. Coming(l)'
  BY <1>1, <1>3, <1>4, <1>7, <1>8 DEF Coming
<1>10. Going(l)'
  <2>1. ~sent_header \/ buffer' = l + 1
    BY <1>4, <1>7
  <2> QED
    BY <1>1, <1>2, <2>1, GoingKept
<1> QED
  BY <1>2, <1>9, <1>10 DEF GoesOn

LEMMA DeliverGoes ==
  ASSUME AttachedInv, StreamInv, Deliver
  PROVE  GoesOn'
<1>1. /\ todo # <<>> /\ audioq' = Append(audioq, Head(todo)) /\ todo' = Tail(todo)
      /\ (Still' <=> Still) /\ (Closing' <=> Closing)
      /\ UNCHANGED <<setup, buffer, outq, read, avio, codec_queue, sent_header>>
  BY DEF Deliver, DeliverBuffer, Still, Closing, thread, muxer, output, history
<1>2. PICK l \in Nat : Coming(l) /\ Going(l)
  BY DEF StreamInv, GoesOn
<1> DEFINE len == Len(setup.feed)
<1>3. PICK m \in 0 .. len : \E n \in 0 .. m :
        /\ todo = Span(m, len) /\ audioq = Span(n, m)
        /\ Still => IF buffer # Null THEN n = buffer ELSE (sent_header => n = l)
  BY <1>2 DEF Coming
<1>4. PICK n \in 0 .. m :
        /\ todo = Span(m, len) /\ audioq = Span(n, m)
        /\ Still => IF buffer # Null THEN n = buffer ELSE (sent_header => n = l)
  BY <1>3
<1>5. m \in Nat /\ n \in Nat /\ n <= m /\ m <= len /\ len \in Nat
  BY <1>3, <1>4, FeedIs
<1>6. len' = len
  BY <1>1
<1> HIDE DEF len
<1>7. m < len
  <2>1. m # len
    BY <1>1, <1>4, <1>5, SpanIs
  <2> QED
    BY <1>5, <2>1
<1>8. Head(todo) = m + 1 /\ todo' = Span(m + 1, len)
  BY <1>1, <1>4, <1>5, <1>7, SpanFirst
<1>9. audioq' = Span(n, m + 1)
  BY <1>1, <1>4, <1>5, <1>8, SpanLast
<1>10. m + 1 \in 0 .. len' /\ n \in 0 .. m + 1
  BY <1>5, <1>6, <1>7
<1>11. Coming(l)'
  <2>1. todo' = Span(m + 1, len')
    BY <1>6, <1>8
  <2>2. Still' => IF buffer' # Null THEN n = buffer' ELSE (sent_header' => n = l)
    BY <1>1, <1>4
  <2> QED
    BY <1>9, <1>10, <2>1, <2>2 DEF Coming, len
<1>12. Going(l)'
  BY <1>1, <1>2, GoingKept
<1> QED
  BY <1>2, <1>11, <1>12 DEF GoesOn

LEMMA SeekGoes ==
  ASSUME AttachedInv, StreamInv, NEW p \in setup.seekTo, Seek(p)
  PROVE  GoesOn'
<1> DEFINE len == Len(setup.feed)
           rest == [k \in 1 .. len - p + 1 |-> p + k - 1]
<1>1. /\ p \in Listed /\ todo' = Keep(rest, Listed) /\ audioq' = <<>>
      /\ flushing' = TRUE /\ UNCHANGED <<setup, apc>>
  BY DEF Seek, SeekBegin
<1>2. UNCHANGED <<buffer, outq, read, avio, codec_queue, sent_header>>
  BY DEF Seek, thread, muxer, output, history
<1>3. Listed = 1 .. len /\ len \in Nat
  BY FeedIs DEF StreamInv, WayInv
<1>4. p \in 1 .. len
  BY <1>1, <1>3
<1> HIDE DEF len
<1>5. PICK m \in Nat : m = p - 1 /\ m <= len
  BY <1>3, <1>4
<1>6. rest = Span(m, len)
  <2>1. len - p + 1 = len - m /\ \A k \in 1 .. len - m : p + k - 1 = m + k
    BY <1>3, <1>4, <1>5
  <2> QED
    BY <2>1 DEF Span
<1>7. Keep(rest, Listed) = rest
  <2> HIDE DEF rest
  <2>1. rest \in Seq(Nat) /\ Len(rest) = len - m /\ \A k \in 1 .. len - m : rest[k] = m + k
    BY <1>3, <1>5, <1>6, SpanIs
  <2>2. \A k \in 1 .. len - m : rest[k] \in 1 .. len
    BY <1>3, <1>5, <2>1
  <2>3. DOMAIN rest = 1 .. len - m
    BY <2>1, LenProperties
  <2>4. Range(rest) \subseteq Listed
    BY <1>3, <2>2, <2>3 DEF Range
  <2> QED
    BY <2>1, <2>4, KeepAll
<1> HIDE DEF rest
<1>8. todo' = Span(m, len) /\ audioq' = Span(m, m)
  BY <1>1, <1>5, <1>6, <1>7, SpanIs
<1>9. PICK l \in Nat : Coming(l) /\ Going(l)
  BY DEF StreamInv, GoesOn
<1>10. Coming(l)'
  <2>1. m \in 0 .. Len(setup.feed)' /\ m \in 0 .. m /\ ~Still'
    BY <1>1, <1>3, <1>5 DEF Still, len
  <2>2. todo' = Span(m, Len(setup.feed)')
    BY <1>1, <1>8 DEF len
  <2> QED
    BY <1>8, <2>1, <2>2 DEF Coming
<1>11. Going(l)'
  BY <1>1, <1>2, <1>9, GoingKept DEF Closing
<1> QED
  BY <1>9, <1>10, <1>11 DEF GoesOn

LEMMA FlushGoes ==
  ASSUME AttachedInv, StreamInv, FlushHook, ~late'
  PROVE  GoesOn'
<1>1. /\ buffer = Null /\ outq' = Sentinel(TRUE) /\ ~sent_header'
      /\ UNCHANGED <<setup, todo, audioq, buffer, read>>
  BY DEF FlushHook, SeekEnd, CleanupContext
<1>2. PICK l \in Nat : Coming(l) /\ Going(l)
  BY DEF StreamInv, GoesOn
<1>3. Coming(l)'
  BY <1>1, <1>2, ComingKept
<1>4. Comes(setup.feed, Sentinel(TRUE), read, <<>>)
  <2>1. PICK cur : Comes(setup.feed, outq, read, cur)
    BY <1>2 DEF Going
  <2>2. read \in Seq(Units(setup.feed)) /\ Ok(setup.feed, read)
    BY <2>1, FeedIs, ComesOk
  <2>3. Comes(setup.feed, <<>>, read, read)
    BY <2>2, ComesNone
  <2>4. Sentinel(TRUE) \in Seq(Chunks) /\ <<>> \in Seq(Chunks)
    <3>1. TRUE \in BOOLEAN /\ <<>> \in Seq(Chunks)
      OBVIOUS
    <3> QED
      BY <3>1, SentinelType
  <2>5. Comes(setup.feed, Cat(<<>>, Sentinel(TRUE)), read, <<>>)
    BY <2>3, <2>4, ComesEnd
  <2>6. Cat(<<>>, Sentinel(TRUE)) = Sentinel(TRUE)
    BY <2>4, CatIs
  <2> QED
    BY <2>5, <2>6
<1>5. Going(l)'
  BY <1>1, <1>4 DEF Going
<1> QED
  BY <1>2, <1>3, <1>5 DEF GoesOn

\* What a chunk that is read adds to what was read.
LEMMA ReadBrings ==
  ASSUME AttachedInv, NEW cur, Comes(setup.feed, outq, read, cur), BufferGet
  PROVE  /\ Brings(Head(outq), read, read')
         /\ Comes(setup.feed, outq', read', cur)
<1>1. /\ outq # <<>> /\ outq' = Tail(outq)
      /\ IF IsSentinel(Head(outq)) THEN read' = <<>> ELSE read' = Cat(read, Head(outq).data)
  BY DEF BufferGet, ReadChunk, ReadEnd, Cat
<1>2. PICK t \in Seq(Units(setup.feed)) :
        Brings(Head(outq), read, t) /\ Comes(setup.feed, Tail(outq), t, cur)
  BY <1>1, FeedIs, ComesGet
<1>3. t = read'
  BY <1>1, <1>2 DEF Brings
<1> QED
  BY <1>1, <1>2, <1>3

LEMMA ReadGoes ==
  ASSUME AttachedInv, StreamInv, BufferGet
  PROVE  GoesOn'
<1>1. UNCHANGED <<feed, buffer, avio, codec_queue, sent_header>>
  BY DEF BufferGet, muxer
<1>2. PICK l \in Nat : Coming(l) /\ Going(l)
  BY DEF StreamInv, GoesOn
<1>3. Coming(l)'
  BY <1>1, <1>2, ComingKept DEF Still, feed
<1>4. PICK cur :
    /\ Comes(setup.feed, outq, read, cur)
    /\ IF sent_header /\ ~Closing
       THEN /\ Header \in Range(cur) /\ Ok(setup.feed, Made(cur))
            /\ Made(cur) # <<>> /\ Made(cur)[Len(Made(cur))] = l
            /\ l \in DOMAIN setup.feed /\ (buffer # Null => buffer = l + 1)
       ELSE cur = <<>>
  BY <1>2 DEF Going
<1>5. Comes(setup.feed, outq', read', cur)
  BY <1>4, ReadBrings
<1>6. Made(cur)' = Made(cur) /\ (Closing' <=> Closing) /\ setup' = setup
  BY <1>1 DEF Made, Rest, Closing, feed
<1>7. Going(l)'
  BY <1>1, <1>4, <1>5, <1>6 DEF Going
<1> QED
  BY <1>2, <1>3, <1>7 DEF GoesOn

LEMMA DetachGoes ==
  ASSUME AttachedInv, StreamInv, DetachSink \/ DetachOutput \/ DetachSignal \/ Joined, ~late'
  PROVE  GoesOn'
<1>1. PICK l \in Nat : Coming(l) /\ Going(l)
  BY DEF StreamInv, GoesOn
<1>2. CASE DetachSink
  <2>1. UNCHANGED <<setup, todo, buffer, outq, read, avio, codec_queue, sent_header>>
    BY <1>2 DEF DetachSink, SinkAbort, SinkUnmap, thread, muxer, output, history
  <2>2. CASE SinkAbort
    <3>1. audioq' = <<>> /\ ~Still' /\ ~Closing /\ ~Closing'
      BY <2>2 DEF SinkAbort, Still, Closing
    <3>2. PICK m \in 0 .. Len(setup.feed) : todo = Span(m, Len(setup.feed))
      BY <1>1 DEF Coming
    <3>3. m \in Nat
      BY <3>2, FeedIs
    <3>4. audioq' = Span(m, m) /\ m \in 0 .. m
      BY <3>1, <3>3, SpanIs
    <3>5. Coming(l)'
      BY <2>1, <3>1, <3>2, <3>4 DEF Coming
    <3>6. Going(l)'
      BY <1>1, <2>1, <3>1, GoingKept
    <3> QED
      BY <1>1, <3>5, <3>6 DEF GoesOn
  <2>3. CASE SinkUnmap
    <3>1. audioq' = audioq /\ (Still' <=> Still) /\ ~Closing /\ ~Closing'
      BY <2>3 DEF SinkUnmap, Still, Closing
    <3> QED
      BY <2>1, <3>1, KeptGoes DEF StreamInv
  <2> QED
    BY <1>2, <2>2, <2>3 DEF DetachSink
<1>3. CASE DetachOutput
  <2>1. /\ UNCHANGED <<setup, todo, audioq, buffer, sent_header>> /\ (Still' <=> Still)
        /\ outq' = <<>> /\ read' = <<>> /\ Closing'
    BY <1>3 DEF DetachOutput, Proceed, thread, muxer, Still, Closing
  <2>2. Comes(setup.feed, <<>>, <<>>, <<>>)
    <3>1. <<>> \in Seq(Units(setup.feed)) /\ Len(<<>>) = 0
      OBVIOUS
    <3>2. Ok(setup.feed, <<>>)
      BY <3>1, OkShort
    <3> QED
      BY <3>1, <3>2, ComesNone
  <2>3. Coming(l)'
    BY <1>1, <2>1, ComingKept
  <2>4. Going(l)'
    BY <2>1, <2>2 DEF Going
  <2> QED
    BY <1>1, <2>3, <2>4 DEF GoesOn
<1>4. CASE DetachSignal
  <2>1. UNCHANGED <<setup, todo, audioq, buffer, outq, read, avio, codec_queue, sent_header>>
    BY <1>4 DEF DetachSignal, Proceed, muxer, output, history
  <2>2. (Still' <=> Still) /\ Closing /\ Closing'
    BY <1>4 DEF DetachSignal, Proceed, Still, Closing
  <2> QED
    BY <2>1, <2>2, KeptGoes DEF StreamInv
<1>5. CASE Joined
  <2>1. /\ UNCHANGED <<setup, todo, audioq, buffer, outq, read>> /\ (Still' <=> Still)
        /\ ~sent_header' /\ Closing
    BY <1>5 DEF Joined, Proceed, CleanupContext, thread, output, history, Still, Closing
  <2>2. Coming(l)'
    BY <1>1, <2>1, ComingKept
  <2>3. Comes(setup.feed, outq, read, <<>>)
    BY <1>1, <2>1 DEF Going
  <2>4. Going(l)'
    BY <2>1, <2>3 DEF Going
  <2> QED
    BY <1>1, <2>2, <2>4 DEF GoesOn
<1> QED
  BY <1>2, <1>3, <1>4, <1>5

LEMMA AttachGoes ==
  ASSUME AttachedInv, StreamInv, NEW c \in setup.codecs, Attach(c) \/ AttachRefused(c)
  PROVE  GoesOn'
<1>1. /\ UNCHANGED <<setup, todo, audioq, buffer, outq, read, avio, codec_queue, sent_header, apc>>
      /\ apc = "idle" /\ ~attached
  BY DEF Attach, AttachCall, AttachRefused, May, thread, muxer, history
<1>2. buffer = Null /\ ~sent_header /\ ~Closing /\ ~Closing'
  BY <1>1 DEF AttachedInv, CallInv, TypeInv, StreamInv, WayInv, Closing
<1>3. PICK l \in Nat : Coming(l) /\ Going(l)
  BY DEF StreamInv, GoesOn
<1>4. Coming(l)'
  BY <1>1, <1>2, <1>3, ComingKept
<1>5. Going(l)'
  BY <1>1, <1>2, <1>3, GoingKept
<1> QED
  BY <1>3, <1>4, <1>5 DEF GoesOn

LEMMA StreamStep ==
  ASSUME AttachedInv, StreamInv, "remove" \notin setup.calls, Next \/ UNCHANGED vars,
         ~late', fault' = "none"
  PROVE  StreamInv'
<1>1. WayInv' /\ setup' = setup
  BY SetupStep, WayStep DEF StreamInv
<1>2. CASE Encode /\ fault = "none"
  BY <1>1, <1>2, EncodeGoes DEF StreamInv
<1>3. ASSUME GoesOn', UNCHANGED avio PROVE StreamInv'
  BY <1>1, <1>3 DEF StreamInv
<1>4. ASSUME UNCHANGED <<setup, todo, audioq, buffer, outq, read, avio, codec_queue, sent_header>>,
             Still' => Still, Closing' <=> Closing
      PROVE  StreamInv'
  BY <1>3, <1>4, KeptGoes DEF StreamInv
<1>5. CASE UNCHANGED vars
  BY <1>4, <1>5 DEF vars, feed, thread, muxer, output, history, Still, Closing
<1>6. CASE Check \/ Lock \/ Sleep \/ Woken \/ GetAborted \/ SpuriousWake
  BY <1>4, <1>6 DEF Check, Lock, Sleep, Woken, GetAborted, SpuriousWake, feed, muxer, output, history,
     Still, Closing
<1>7. CASE GetBuffer
  BY <1>3, <1>7, TakeGoes DEF GetBuffer, muxer
<1>8. CASE BufferGet
  BY <1>3, <1>8, ReadGoes DEF BufferGet, muxer
<1>9. CASE Deliver
  BY <1>3, <1>9, DeliverGoes DEF Deliver, muxer
<1>10. ASSUME NEW p \in setup.seekTo, Seek(p) PROVE StreamInv'
  BY <1>3, <1>10, SeekGoes DEF Seek, muxer
<1>11. CASE FlushHook
  BY <1>3, <1>11, FlushGoes DEF FlushHook
<1>12. CASE DetachBegin
  BY <1>4, <1>12 DEF DetachBegin, DetachCall, May, thread, muxer, output, history, Still, Closing
<1>13. CASE DetachSink \/ DetachOutput \/ DetachSignal \/ Joined
  BY <1>3, <1>13, DetachGoes DEF DetachSink, DetachOutput, DetachSignal, Joined, muxer
<1>14. ASSUME NEW c \in setup.codecs, Attach(c) \/ AttachRefused(c) PROVE StreamInv'
  BY <1>3, <1>14, AttachGoes DEF Attach, AttachRefused, muxer
<1>15. ~PurgeHook /\ ~RemoveFree /\ \A i \in Item : ~RemoveItem(i)
  BY DEF PurgeHook, Proceed, RemoveFree, RemoveEnd, RemoveItem, RemoveBegin, RemoveStraggling,
         RemoveCall, May, StreamInv, WayInv
<1> QED
  BY <1>2, <1>5, <1>6, <1>7, <1>8, <1>9, <1>10, <1>11, <1>12, <1>13, <1>14, <1>15
     DEF Next, Thread, Continue

LEMMA ReadStep ==
  ASSUME AttachedInv, StreamInv \/ fault # "none", ReadInv, Next \/ UNCHANGED vars
  PROVE  ReadInv'
<1>1. setup' = setup /\ (Unit' = Unit)
  BY SetupStep DEF Unit
<1>2. ASSUME UNCHANGED <<read, finished>> PROVE ReadInv'
  BY <1>1, <1>2 DEF ReadInv
<1>3. CASE BufferGet /\ fault = "none"
  <2>1. PICK cur : Comes(setup.feed, outq, read, cur)
    BY <1>3 DEF StreamInv, GoesOn, Going
  <2>2. Brings(Head(outq), read, read') /\ Comes(setup.feed, outq', read', cur)
    BY <1>3, <2>1, ReadBrings
  <2>3. outq' \in Seq(Chunks)
    BY <1>3, FeedIs DEF BufferGet
  <2>4. read' \in Seq(Unit) /\ Ok(setup.feed, read')
    BY <2>2, <2>3, ComesOk, UnitsIs
  <2>5. finished' = <<>> \/ (finished' = read /\ Ended(read))
    BY <1>3, <2>2 DEF BufferGet, ReadChunk, ReadEnd, Brings
  <2> QED
    BY <1>1, <2>4, <2>5 DEF ReadInv
<1>4. CASE DetachOutput
  <2>1. read' = <<>> /\ finished' = <<>> /\ <<>> \in Seq(Unit)
    BY <1>4 DEF DetachOutput
  <2> QED
    BY <1>1, <2>1, OkShort DEF ReadInv
<1>5. CASE UNCHANGED vars
  BY <1>2, <1>5 DEF vars, history
<1>6. CASE Check \/ Lock \/ Sleep \/ Woken \/ GetBuffer \/ GetAborted \/ Encode \/ SpuriousWake
  BY <1>2, <1>6 DEF Check, Lock, Sleep, Woken, GetBuffer, GetAborted, Encode, SpuriousWake, history
<1>7. CASE Deliver \/ DetachBegin \/ DetachSink \/ DetachSignal \/ Joined
  BY <1>2, <1>7 DEF Deliver, DetachBegin, DetachSink, DetachSignal, Joined, history
<1>8. CASE PurgeHook \/ RemoveFree \/ FlushHook \/ \E i \in Item : RemoveItem(i)
  BY <1>2, <1>8 DEF PurgeHook, RemoveFree, FlushHook, RemoveItem, history
<1>9. CASE \E p \in setup.seekTo : Seek(p)
  BY <1>2, <1>9 DEF Seek, history
<1>10. CASE \E c \in setup.codecs : Attach(c) \/ AttachRefused(c)
  BY <1>2, <1>10 DEF Attach, AttachRefused, history
<1> QED
  BY <1>3, <1>4, <1>5, <1>6, <1>7, <1>8, <1>9, <1>10 DEF Next, Thread, Continue

\* As long as there are no stragglers and no removals.
Whole     == ~late /\ "remove" \notin setup.calls
OrderInv  == AttachedInv /\ (Whole => ReadInv /\ (fault = "none" => StreamInv))

LEMMA OrderInit ==
  ASSUME Init
  PROVE  OrderInv
<1> DEFINE len == Len(setup.feed)
<1>1. AttachedInv
  BY TypeInit DEF AttachedInv
<1>2. len \in Nat /\ DOMAIN setup.feed = 1 .. len
  BY <1>1, FeedIs
<1>3. Listed = DOMAIN setup.feed
  <2>1. alive = Range(setup.feed) \ {End} /\ arg = Null
    BY DEF Init, FeedInit
  <2>2. \A p \in DOMAIN setup.feed : ItemAt(p) \in Item \cup {End} /\ ItemAt(p) \in Range(setup.feed)
    BY <1>1, FeedIs DEF ItemAt, Range
  <2> QED
    BY <2>1, <2>2, NullAssumption DEF Listed
<1>4. WayInv
  BY <1>3 DEF WayInv, Init, FeedInit, Closing
<1>5. avio = <<>> /\ read = <<>> /\ finished = <<>> /\ outq = <<>>
  BY DEF Init
<1>6. Ok(setup.feed, <<>>) /\ <<>> \in Seq(Unit) /\ <<>> \in Seq(Units(setup.feed))
  BY OkShort
<1>7. Coming(0)
  <2>1. todo = [p \in 1 .. len |-> p] /\ audioq = <<>> /\ buffer = Null /\ ~sent_header
    BY <1>2 DEF Init, FeedInit
  <2>2. todo = Span(0, len)
    <3>1. len - 0 = len /\ \A p \in 1 .. len : 0 + p = p
      BY <1>2
    <3> HIDE DEF len
    <3> QED
      BY <2>1, <3>1 DEF Span
  <2>3. audioq = Span(0, 0)
    BY <2>1, SpanIs
  <2>4. 0 \in 0 .. len /\ 0 \in 0 .. 0
    BY <1>2
  <2> QED
    BY <2>1, <2>2, <2>3, <2>4 DEF Coming
<1>8. Going(0)
  <2>1. Comes(setup.feed, <<>>, <<>>, <<>>)
    BY <1>6, ComesNone
  <2>2. ~sent_header
    BY DEF Init
  <2> QED
    BY <1>5, <2>1, <2>2 DEF Going
<1>9. StreamInv
  BY <1>4, <1>5, <1>6, <1>7, <1>8 DEF StreamInv, GoesOn
<1>10. ReadInv
  BY <1>5, <1>6 DEF ReadInv
<1> QED
  BY <1>1, <1>9, <1>10 DEF OrderInv

LEMMA OrderStep ==
  ASSUME OrderInv, Next \/ UNCHANGED vars
  PROVE  OrderInv'
<1>1. AttachedInv'
  BY CallStep, RunStep, TypeStep DEF OrderInv, AttachedInv
<1>2. Whole' => Whole
  <2>1. late => late'
    BY DEF Next, vars, history, feed, Thread, Check, Lock, Sleep, Woken, GetBuffer, GetAborted, Encode,
         SpuriousWake, BufferGet, Deliver, Continue, PurgeHook, RemoveFree, FlushHook, DetachSink,
         DetachOutput, DetachSignal, Joined, RemoveItem, Seek, DetachBegin, Attach, AttachRefused
  <2> QED
    BY <2>1, SetupStep DEF Whole
<1>3. fault' = "none" => fault = "none"
  BY DEF Next, vars
<1>4. ASSUME Whole' PROVE ReadInv' /\ (fault' = "none" => StreamInv')
  <2>1. Whole /\ ReadInv /\ (fault = "none" => StreamInv) /\ AttachedInv /\ ~late'
        /\ "remove" \notin setup.calls
    BY <1>2, <1>4 DEF OrderInv, Whole
  <2>2. ReadInv'
    BY <2>1, ReadStep
  <2>3. fault' = "none" => StreamInv'
    BY <1>3, <2>1, StreamStep
  <2> QED
    BY <2>2, <2>3
<1> QED
  BY <1>1, <1>4 DEF OrderInv

(***************************************************************************)
(* What is read from the last header on, and what was read of a stream up   *)
(* to its end, is the playlist's audio from some place on in order and      *)
(* without a gap, and a trailer comes only where the playlist ends: for     *)
(* every playlist, delay of the codec, buffer of the muxer and order of     *)
(* seeks, detaches and attaches.                                           *)
(***************************************************************************)
THEOREM StreamsInOrder == Spec => []StreamInOrder
<1>1. Init => OrderInv
  BY OrderInit
<1>2. OrderInv /\ [Next]_vars => OrderInv'
  BY OrderStep
<1>3. ASSUME OrderInv PROVE StreamInOrder
  <2>1. SUFFICES ASSUME ~late, "remove" \notin setup.calls
                 PROVE  /\ LastHeader(read) # 0 => InOrder(Stream(read))
                        /\ finished # <<>> => /\ LastHeader(finished) # 0
                                              /\ InOrder(Stream(finished))
                                              /\ Last(finished) = Trailer
    BY DEF StreamInOrder
  <2>2. ReadInv /\ setup.feed \in Seq(Item \cup {End})
    BY <1>3, <2>1, FeedIs DEF OrderInv, Whole
  <2>3. LastHeader(read) # 0 => InOrder(Stream(read))
    BY <2>2, UnitsIs, OkInOrder DEF ReadInv
  <2>4. ASSUME finished # <<>>
        PROVE  LastHeader(finished) # 0 /\ InOrder(Stream(finished)) /\ Last(finished) = Trailer
    <3>1. finished \in Seq(Unit) /\ Ok(setup.feed, finished) /\ Ended(finished)
      BY <2>2, <2>4 DEF ReadInv
    <3>2. LastHeader(finished) # 0
      BY <3>1, LastHeaderIs DEF Ended
    <3>3. InOrder(Stream(finished))
      BY <2>2, <3>1, <3>2, UnitsIs, OkInOrder
    <3> QED
      BY <3>1, <3>2, <3>3 DEF Ended, Last
  <2> QED
    BY <2>3, <2>4
<1> QED
  BY <1>1, <1>2, <1>3, PTL DEF Spec

--------------------------------------------------------------------------------
(* The pass over a list is well defined, ...                               *)

BestStep(f, s, t, n) ==
  IF n = 1 THEN 1 ELSE IF Better(s[n], s[f[n - 1]], t) THEN n ELSE f[n - 1]

LEMMA BestDef ==
  ASSUME NEW s \in Seq(Nat), NEW t
  PROVE  \A n \in 1 .. Len(s) : BestOf(s, t)[n] = BestStep(BestOf(s, t), s, t, n)
<1> DEFINE Upto(n, f) == f = [m \in 1 .. n |-> BestStep(f, s, t, m)]
           L == {n \in Nat : \E f : Upto(n, f)}
<1>1. 0 \in L
  <2> DEFINE f == [m \in 1 .. 0 |-> 1]
  <2>1. Upto(0, f)
    OBVIOUS
  <2> QED
    BY <2>1
<1>2. ASSUME NEW n \in L PROVE n + 1 \in L
  <2>1. PICK f : Upto(n, f)
    BY <1>2
  <2> DEFINE g == [m \in 1 .. n + 1 |-> IF m = n + 1 THEN BestStep(f, s, t, m) ELSE f[m]]
  <2>2. ASSUME NEW m \in 1 .. n + 1 PROVE g[m] = BestStep(g, s, t, m)
    <3>0. m # 1 => m - 1 \in 1 .. n + 1 /\ m - 1 # n + 1
      OBVIOUS
    <3>1. m # 1 => g[m - 1] = f[m - 1]
      BY <3>0
    <3>2. BestStep(g, s, t, m) = BestStep(f, s, t, m)
      <4> HIDE DEF g
      <4> QED
        BY <3>1 DEF BestStep
    <3>3. CASE m = n + 1
      <4>1. g[m] = BestStep(f, s, t, m)
        BY <3>3
      <4> QED
        BY <3>2, <4>1
    <3>4. CASE m # n + 1
      <4>1. m \in 1 .. n
        BY <3>4
      <4>2. g[m] = f[m]
        BY <3>4
      <4> HIDE DEF g
      <4>3. f[m] = BestStep(f, s, t, m)
        BY <2>1, <4>1
      <4> QED
        BY <3>2, <4>2, <4>3
    <3> QED
      BY <3>3, <3>4
  <2>3. Upto(n + 1, g)
    BY <2>2
  <2>4. n + 1 \in Nat
    OBVIOUS
  <2> HIDE DEF g
  <2> QED
    BY <2>3, <2>4
<1>3. L = Nat
  <2>1. L \in SUBSET Nat
    OBVIOUS
  <2> HIDE DEF L
  <2> QED
    BY <1>1, <1>2, <2>1, NatInd
<1>4. PICK f : Upto(Len(s), f)
  BY <1>3
<1>5. BestOf(s, t) = CHOOSE g : g = [m \in 1 .. Len(s) |-> BestStep(g, s, t, m)]
  BY DEF BestOf, BestStep
<1>6. Upto(Len(s), BestOf(s, t))
  BY <1>4, <1>5
<1> QED
  BY <1>6

(***************************************************************************)
(* ... and what it finds is the least of the numbers that are not below the *)
(* target or, if there is none, the greatest of all.                       *)
(***************************************************************************)
Finds(s, t, n, p) ==
  /\ p \in 1 .. n
  /\ \A j \in 1 .. n : /\ s[j] >= t => s[p] >= t /\ s[p] <= s[j]
                       /\ s[p] < t => s[j] <= s[p]

LEMMA FindsStep ==
  ASSUME NEW s \in Seq(Nat), NEW t \in Nat, NEW n \in Nat \ {0}, n + 1 <= Len(s),
         NEW p, Finds(s, t, n, p)
  PROVE  Finds(s, t, n + 1, IF Better(s[n + 1], s[p], t) THEN n + 1 ELSE p)
<1> DEFINE x == s[n + 1]
           b == s[p]
           q == IF Better(x, b, t) THEN n + 1 ELSE p
           c == s[q]
<1>1. p \in 1 .. n /\ \A j \in 1 .. n : (s[j] >= t => b >= t /\ b <= s[j]) /\ (b < t => s[j] <= b)
  BY DEF Finds
<1>2. Len(s) \in Nat /\ n + 1 \in 1 .. Len(s) /\ p \in 1 .. Len(s)
  BY <1>1
<1>3. x \in Nat /\ b \in Nat
  BY <1>2
<1>4. ASSUME NEW j \in 1 .. n PROVE s[j] \in Nat
  BY <1>2
<1>5. q \in 1 .. n + 1
  BY <1>1
<1>6. c = IF Better(x, b, t) THEN x ELSE b
  OBVIOUS
<1> HIDE DEF x, b, q, c
<1>7. ASSUME NEW y \in Nat, (y >= t => b >= t /\ b <= y) /\ (b < t => y <= b)
      PROVE  (y >= t => c >= t /\ c <= y) /\ (c < t => y <= c)
  BY <1>3, <1>6, <1>7 DEF Better, Distance
<1>8. (x >= t => c >= t /\ c <= x) /\ (c < t => x <= c)
  BY <1>3, <1>6 DEF Better, Distance
<1>9. ASSUME NEW j \in 1 .. n + 1 PROVE (s[j] >= t => c >= t /\ c <= s[j]) /\ (c < t => s[j] <= c)
  <2>1. CASE j = n + 1
    BY <2>1, <1>8 DEF x
  <2>2. CASE j # n + 1
    <3> DEFINE y == s[j]
    <3>1. j \in 1 .. n
      BY <2>2
    <3>2. y \in Nat /\ (y >= t => b >= t /\ b <= y) /\ (b < t => y <= b)
      BY <1>1, <1>4, <3>1
    <3> HIDE DEF y
    <3>3. (y >= t => c >= t /\ c <= y) /\ (c < t => y <= c)
      BY <1>7, <3>2
    <3> QED
      BY <3>3 DEF y
  <2> QED
    BY <2>1, <2>2
<1>10. Finds(s, t, n + 1, q)
  BY <1>5, <1>9 DEF Finds, c
<1> QED
  BY <1>10 DEF q, x, b

LEMMA BestFinds ==
  ASSUME NEW s \in Seq(Nat), s # <<>>, NEW t \in Nat
  PROVE  Finds(s, t, Len(s), Best(s, t))
<1> DEFINE f == BestOf(s, t)
           L == {n \in Nat : n + 1 <= Len(s) => Finds(s, t, n + 1, f[n + 1])}
<1>1. \A n \in 1 .. Len(s) : f[n] = BestStep(f, s, t, n)
  BY BestDef
<1> HIDE DEF f
<1>2. Len(s) \in Nat \ {0}
  OBVIOUS
<1>3. 0 \in L
  <2>1. 1 \in 1 .. Len(s)
    BY <1>2
  <2>2. f[1] = 1
    BY <1>1, <2>1 DEF BestStep
  <2>3. s[1] \in Nat
    BY <2>1
  <2>4. \A j \in 1 .. 1 : j = 1
    OBVIOUS
  <2>5. Finds(s, t, 1, 1)
    BY <2>3, <2>4 DEF Finds
  <2>6. 0 + 1 = 1 /\ 0 \in Nat
    OBVIOUS
  <2> QED
    BY <2>2, <2>5, <2>6
<1>4. ASSUME NEW n \in L PROVE n + 1 \in L
  <2> DEFINE k == n + 1
             l == k + 1
  <2>1. SUFFICES ASSUME l <= Len(s) PROVE Finds(s, t, l, f[l])
    OBVIOUS
  <2>2. k \in Nat \ {0} /\ k + 1 <= Len(s)
    BY <2>1
  <2>3. Finds(s, t, k, f[k])
    BY <2>2, <1>2
  <2>4. l \in 1 .. Len(s) /\ l # 1 /\ l - 1 = k
    BY <2>1, <2>2, <1>2
  <2>5. l = k + 1
    OBVIOUS
  <2> HIDE DEF k, l
  <2>6. f[l] = IF Better(s[l], s[f[k]], t) THEN l ELSE f[k]
    BY <1>1, <2>4 DEF BestStep
  <2>7. Finds(s, t, k + 1, IF Better(s[k + 1], s[f[k]], t) THEN k + 1 ELSE f[k])
    BY <2>2, <2>3, FindsStep
  <2> QED
    BY <2>5, <2>6, <2>7
<1>5. L = Nat
  <2>1. L \in SUBSET Nat
    OBVIOUS
  <2> HIDE DEF L
  <2> QED
    BY <1>3, <1>4, <2>1, NatInd
<1>6. PICK m \in Nat : m + 1 = Len(s)
  <2>1. Len(s) - 1 \in Nat /\ (Len(s) - 1) + 1 = Len(s)
    BY <1>2
  <2> QED
    BY <2>1
<1>7. m \in L
  <2> HIDE DEF L
  <2> QED
    BY <1>5, <1>6
<1>8. Finds(s, t, m + 1, f[m + 1])
  BY <1>2, <1>6, <1>7
<1> QED
  BY <1>6, <1>8 DEF Best, f

\* The rate that is chosen, for every codec and every target.
LEMMA RateClosest ==
  ASSUME NEW c, c.rates \in Seq(Nat), NEW t \in Nat
  PROVE  Closest(ClosestRate(c, t), Range(c.rates), t)
<1> DEFINE s == c.rates
           p == Best(s, t)
           chosen == ClosestRate(c, t)
<1>1. CASE s = <<>> \/ t \in Range(s)
  BY <1>1 DEF ClosestRate, Closest
<1>2. CASE s # <<>> /\ t \notin Range(s)
  <2>1. chosen = s[p]
    BY <1>2 DEF ClosestRate
  <2> HIDE DEF s, chosen
  <2>2. s \in Seq(Nat)
    BY DEF s
  <2>3. Finds(s, t, Len(s), p)
    BY <1>2, <2>2, BestFinds
  <2> HIDE DEF p
  <2>4. /\ p \in 1 .. Len(s)
        /\ \A j \in 1 .. Len(s) : /\ s[j] >= t => s[p] >= t /\ s[p] <= s[j]
                                  /\ s[p] < t => s[j] <= s[p]
    BY <2>3 DEF Finds
  <2>5. \A x : x \in Range(s) <=> \E j \in 1 .. Len(s) : x = s[j]
    BY <2>2, RangeEquality
  <2>6. chosen \in Range(s) /\ chosen \in Nat /\ chosen # t
    BY <1>2, <2>1, <2>2, <2>4, <2>5
  <2>7. ASSUME NEW other \in Range(s)
        PROVE  /\ other > t => chosen > t /\ chosen <= other
               /\ chosen < t => other <= chosen
    <3>1. PICK j \in 1 .. Len(s) : other = s[j]
      BY <2>5
    <3>2. other \in Nat
      BY <2>2, <3>1
    <3>3. (other >= t => chosen >= t /\ chosen <= other) /\ (chosen < t => other <= chosen)
      BY <2>1, <2>4, <3>1
    <3> QED
      BY <2>6, <3>2, <3>3
  <2>8. Closest(chosen, Range(s), t)
    BY <1>2, <2>6, <2>7 DEF Closest
  <2> QED
    BY <2>8 DEF s, chosen
<1> QED
  BY <1>1, <1>2

\* The number of channels that is chosen.
LEMMA LayoutClosest ==
  ASSUME NEW c, c.layouts \in Seq(Layout), NEW t \in Layout
  PROVE  Closest(ClosestLayout(c, t).count, {l.count : l \in Range(c.layouts)}, t.count)
<1> DEFINE ls == c.layouts
           s == Counts(ls)
           u == t.count
           p == Best(s, u)
           layout == ClosestLayout(c, t)
           chosen == layout.count
           counts == {l.count : l \in Range(ls)}
<1>1. CASE ls = <<>> \/ t \in Range(ls)
  BY <1>1 DEF ClosestLayout, Closest
<1>2. CASE ls # <<>> /\ t \notin Range(ls)
  <2>1. layout = ls[p]
    BY <1>2 DEF ClosestLayout
  <2>2. u \in Nat /\ \A l \in Layout : l.count \in Nat
    BY DEF Layout
  <2> HIDE DEF ls, layout, u
  <2>3. ls \in Seq(Layout) /\ DOMAIN ls = 1 .. Len(ls) /\ Len(ls) \in Nat /\ \A k \in 1 .. Len(ls) : ls[k] \in Layout
    BY DEF ls
  <2> DEFINE n == Len(ls)
  <2>4. n \in Nat /\ n # 0
    BY <1>2, <2>3
  <2>5. s \in [1 .. n -> Nat] /\ \A k \in 1 .. n : s[k] = ls[k].count
    BY <2>2, <2>3 DEF Counts
  <2> HIDE DEF s, n
  <2>6. s \in Seq(Nat) /\ Len(s) = n /\ s # <<>>
    <3>1. s \in Seq(Nat) /\ Len(s) = n
      BY <2>4, <2>5
    <3> QED
      BY <2>4, <3>1
  <2>7. Finds(s, u, Len(s), p)
    BY <2>2, <2>6, BestFinds
  <2> HIDE DEF p
  <2>8. /\ p \in 1 .. n
        /\ \A j \in 1 .. n : /\ s[j] >= u => s[p] >= u /\ s[p] <= s[j]
                             /\ s[p] < u => s[j] <= s[p]
    BY <2>6, <2>7 DEF Finds
  <2>9. \A x : x \in counts <=> \E j \in 1 .. n : x = s[j]
    <3>1. Range(ls) = {ls[j] : j \in 1 .. n}
      BY <2>3, RangeEquality DEF n
    <3> QED
      BY <2>5, <3>1
  <2>10. chosen = s[p]
    BY <2>1, <2>5, <2>8
  <2> HIDE DEF counts, chosen
  <2>11. chosen \in counts /\ chosen \in Nat
    BY <2>5, <2>8, <2>9, <2>10
  <2>12. ASSUME NEW other \in counts
         PROVE  other \in Nat /\ (other >= u => chosen >= u /\ chosen <= other) /\ (chosen < u => other <= chosen)
    <3>1. PICK j \in 1 .. n : other = s[j]
      BY <2>9
    <3> QED
      BY <2>5, <2>8, <2>10, <3>1
  <2>13. ASSUME chosen = u PROVE Closest(chosen, counts, u)
    BY <2>13 DEF Closest
  <2>14. ASSUME chosen # u PROVE Closest(chosen, counts, u)
    <3>1. u \notin counts
      BY <2>2, <2>11, <2>12, <2>14
    <3>2. ASSUME NEW other \in counts
          PROVE  (other > u => chosen > u /\ chosen <= other) /\ (chosen < u => other <= chosen)
      BY <2>2, <2>11, <2>12, <2>14
    <3> QED
      BY <2>11, <3>1, <3>2 DEF Closest
  <2>15. Closest(chosen, counts, u)
    BY <2>13, <2>14
  <2> QED
    BY <2>15 DEF chosen, counts, u, layout, ls
<1> QED
  BY <1>1, <1>2

\* The first two choices are the target's own format, as planar as it asks and
\* then the other way.
LEMMA AttemptsBegin ==
  ASSUME NEW t
  PROVE  /\ DOMAIN Attempts(t) \subseteq Nat \ {0} /\ {1, 2} \subseteq DOMAIN Attempts(t)
         /\ Attempts(t)[1] = [format |-> t.format, planar |-> t.planar]
         /\ Attempts(t)[2] = [format |-> t.format, planar |-> ~t.planar]
<1> DEFINE T == {t.format} \cup {"F32", "S24", "S32", "S16", "F64", "U8"}
           h == <<t.format>>
           p == prioritized_sample_formats
           formats == h \o p
           D == 1 .. 2 * Len(formats)
<1>1. h \in Seq(T) /\ Len(h) = 1 /\ h[1] = t.format /\ p \in Seq(T) /\ Len(p) = 6
  BY DEF prioritized_sample_formats
<1>2. Attempts(t) = [k \in D |->
        [format |-> formats[(k + 1) \div 2], planar |-> IF k % 2 = 1 THEN t.planar ELSE ~t.planar]]
  BY DEF Attempts
<1> HIDE DEF h, p, T
<1>3. Len(formats) = 7
  <2>1. Len(formats) = Len(h) + Len(p)
    BY <1>1, ConcatProperties
  <2> HIDE DEF formats
  <2> QED
    BY <1>1, <2>1
<1>4. 1 \in 1 .. 1 + 6 /\ 1 <= 1
  OBVIOUS
<1>5. formats[1] = h[1]
  BY <1>1, <1>4, ConcatProperties
<1> HIDE DEF formats
<1>6. D = 1 .. 14
  BY <1>3
<1> HIDE DEF D
<1>7. DOMAIN Attempts(t) = D /\ 1 \in D /\ 2 \in D /\ D \subseteq Nat \ {0}
  BY <1>2, <1>6
<1>8. (1 + 1) \div 2 = 1 /\ (2 + 1) \div 2 = 1 /\ 1 % 2 = 1 /\ 2 % 2 # 1
  OBVIOUS
<1>9. Attempts(t)[1] = [format |-> formats[1], planar |-> t.planar]
  BY <1>2, <1>7, <1>8
<1>10. Attempts(t)[2] = [format |-> formats[1], planar |-> ~t.planar]
  BY <1>2, <1>7, <1>8
<1> QED
  BY <1>1, <1>5, <1>7, <1>9, <1>10

\* The sample format that is chosen.
LEMMA FormatChosen ==
  ASSUME NEW c, NEW t, t.planar \in BOOLEAN, Encodable(c, t)
  PROVE  LET f == ClosestFormat(c, t)
         IN  /\ Supports(c, f.format, f.planar)
             /\ \A planar \in BOOLEAN : Supports(c, t.format, planar) => f.format = t.format
             /\ Supports(c, t.format, t.planar) => f.planar = t.planar
<1> DEFINE K == Taken(c, t)
           a == Attempts(t)
           m == Min(K)
           f == ClosestFormat(c, t)
<1>1. K \in SUBSET Nat /\ K # {} /\ \A k \in K : k # 0
  BY AttemptsBegin DEF Taken, Encodable
<1>2. \A k \in DOMAIN a : k \in K <=> Supports(c, a[k].format, a[k].planar)
  BY DEF Taken
<1>3. K \subseteq DOMAIN a
  BY DEF Taken
<1>4. f = a[m]
  BY DEF ClosestFormat
<1> HIDE DEF K, f
<1>5. m \in K /\ \A k \in K : m <= k
  BY <1>1, LeastExists DEF Min
<1> HIDE DEF m, a
<1>6. /\ {1, 2} \subseteq DOMAIN a
      /\ a[1] = [format |-> t.format, planar |-> t.planar]
      /\ a[2] = [format |-> t.format, planar |-> ~t.planar]
  BY AttemptsBegin DEF a
<1>7. Supports(c, f.format, f.planar)
  BY <1>2, <1>3, <1>4, <1>5
<1>8. m \in Nat /\ m # 0
  BY <1>1, <1>5
<1>9. ASSUME Supports(c, t.format, t.planar) PROVE f = a[1]
  <2>1. 1 \in K
    BY <1>2, <1>6, <1>9
  <2>2. m = 1
    BY <1>5, <1>8, <2>1
  <2> QED
    BY <1>4, <2>2
<1>10. ASSUME NEW planar \in BOOLEAN, Supports(c, t.format, planar) PROVE f.format = t.format
  <2>1. CASE planar = t.planar
    BY <1>6, <1>9, <1>10, <2>1
  <2>2. CASE planar # t.planar
    <3>1. planar = ~t.planar
      BY <2>2
    <3>2. 2 \in K
      BY <1>2, <1>6, <1>10, <3>1
    <3>3. m = 1 \/ m = 2
      BY <1>5, <1>8, <3>2
    <3> QED
      BY <1>4, <1>6, <3>3
  <2> QED
    BY <2>1, <2>2
<1>11. Supports(c, t.format, t.planar) => f.planar = t.planar
  BY <1>6, <1>9
<1> QED
  BY <1>7, <1>10, <1>11 DEF f

--------------------------------------------------------------------------------
(***************************************************************************)
(* The format is negotiated when the encoder attaches and is never touched  *)
(* after that: neither the thread nor a hook, a seek or a detach changes    *)
(* the codec or what was agreed on with it.                                *)
(***************************************************************************)
FormatInv ==
  /\ setup \in Setups
  /\ codec \in setup.codecs /\ Encodable(codec, setup.target)
  /\ actual_audio_format = Negotiated(codec, setup.target)

\* Nothing but an attach changes the format.
Negotiating == \E c \in setup.codecs : Attach(c)

LEMMA FormatStays ==
  ASSUME [Next]_vars, ~Negotiating
  PROVE  setup' = setup /\ codec' = codec /\ actual_audio_format' = actual_audio_format
<1> DEFINE Stays == setup' = setup /\ codec' = codec /\ actual_audio_format' = actual_audio_format
<1>1. CASE Thread
  <2>1. UNCHANGED feed \/ (UNCHANGED setup /\ GetBuffer)
    BY <1>1 DEF Thread, Check, Lock, Sleep, Woken, GetBuffer, GetAborted, Encode, TakeBuffer
  <2>2. UNCHANGED format
    BY <1>1 DEF Thread, Check, Lock, Sleep, Woken, GetBuffer, GetAborted, Encode
  <2> QED
    BY <2>1, <2>2 DEF feed, format
<1>2. CASE SpuriousWake \/ BufferGet
  BY <1>2 DEF SpuriousWake, BufferGet, feed, format
<1>3. CASE Deliver
  BY <1>3 DEF Deliver, DeliverBuffer, format
<1>4. CASE Continue
  <2>1. CASE PurgeHook
    BY <2>1 DEF PurgeHook, Proceed, format
  <2>2. CASE RemoveFree
    BY <2>2 DEF RemoveFree, RemoveEnd, format
  <2>3. CASE FlushHook
    BY <2>3 DEF FlushHook, SeekEnd, format
  <2>4. CASE DetachSink
    BY <2>4 DEF DetachSink, SinkAbort, SinkUnmap, format
  <2>5. CASE DetachOutput \/ DetachSignal \/ Joined
    BY <2>5 DEF DetachOutput, DetachSignal, Joined, Proceed, format
  <2> QED
    BY <1>4, <2>1, <2>2, <2>3, <2>4, <2>5 DEF Continue
<1>5. ASSUME NEW i \in Item, RemoveItem(i) PROVE Stays
  BY <1>5 DEF RemoveItem, RemoveBegin, RemoveStraggling, RemoveCall, format
<1>6. ASSUME NEW p \in setup.seekTo, Seek(p) PROVE Stays
  BY <1>6 DEF Seek, SeekBegin, format
<1>7. CASE DetachBegin
  BY <1>7 DEF DetachBegin, DetachCall, format
<1>8. ASSUME NEW c \in setup.codecs, AttachRefused(c) PROVE Stays
  BY <1>8 DEF AttachRefused, format
<1>9. CASE UNCHANGED vars
  BY <1>9 DEF vars, feed, format
<1> QED
  BY <1>1, <1>2, <1>3, <1>4, <1>5, <1>6, <1>7, <1>8, <1>9 DEF Next, Negotiating

LEMMA FormatKept == FormatInv /\ [Next]_vars => FormatInv'
<1> SUFFICES ASSUME FormatInv, [Next]_vars PROVE FormatInv'
  OBVIOUS
<1>1. ASSUME NEW c \in setup.codecs, Attach(c) PROVE FormatInv'
  BY <1>1 DEF Attach, AttachCall, FormatInv
<1>2. CASE ~Negotiating
  BY <1>2, FormatStays DEF FormatInv
<1> QED
  BY <1>1, <1>2 DEF Negotiating

(***************************************************************************)
(* Whatever codec is asked for and whatever the target is: the rate and the *)
(* number of channels are the target's or, if the codec does not list it,   *)
(* the next one up, and the greatest there is if all are below; the sample  *)
(* format is one the codec takes, and the target's own, as planar as it     *)
(* asks or else the other way, if the codec takes that.                     *)
(***************************************************************************)
THEOREM FormatAlwaysClosest == Spec => []FormatClosest
<1>1. Init => FormatInv
  BY DEF Init, FeedInit, FormatInv
<1>2. FormatInv => FormatClosest
  <2> SUFFICES ASSUME FormatInv PROVE FormatClosest
    OBVIOUS
  <2> DEFINE t == setup.target
             f == ClosestFormat(codec, t)
  <2>1. /\ t.planar \in BOOLEAN /\ t.rate \in Nat /\ t.layout \in Layout
        /\ codec.rates \in Seq(Nat) /\ codec.layouts \in Seq(Layout) /\ Encodable(codec, t)
    BY FormatAssumption DEF FormatInv
  <2>2. /\ actual_audio_format.format = f.format /\ actual_audio_format.planar = f.planar
        /\ actual_audio_format.rate = ClosestRate(codec, t.rate)
        /\ actual_audio_format.layout = ClosestLayout(codec, t.layout)
    BY DEF FormatInv, Negotiated
  <2>3. Closest(actual_audio_format.rate, Range(codec.rates), t.rate)
    BY <2>1, <2>2, RateClosest
  <2>4. Closest(actual_audio_format.layout.count, {l.count : l \in Range(codec.layouts)}, t.layout.count)
    BY <2>1, <2>2, LayoutClosest
  <2>5. /\ Supports(codec, f.format, f.planar)
        /\ \A planar \in BOOLEAN : Supports(codec, t.format, planar) => f.format = t.format
        /\ Supports(codec, t.format, t.planar) => f.planar = t.planar
    BY <2>1, FormatChosen
  <2> QED
    BY <2>2, <2>3, <2>4, <2>5 DEF FormatClosest
<1> QED
  BY <1>1, <1>2, FormatKept, PTL DEF Spec
================================================================================
