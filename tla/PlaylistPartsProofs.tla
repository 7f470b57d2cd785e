--------------------------- MODULE PlaylistPartsProofs --------------------------
(***************************************************************************)
(* Proofs about the two parts that Playlist takes for granted.              *)
(*                                                                         *)
(* GrooveQueue, for every number of threads, every set of objects and every *)
(* bound on the queue: its type invariant, and the two facts that make one  *)
(* pthread_cond_signal per put (and per abort) enough.                      *)
(*                                                                         *)
(* SinkMap, for every set of sinks, whatever they ask for, and all sources  *)
(* and gains: the filter graph the decoder uses is the one the map asks     *)
(* for, every sink gets what it asked for, and a call moves one sink.       *)
(***************************************************************************)
EXTENDS GrooveQueue, SinkMap, KeepSeqProofs, FiniteSetTheorems

--------------------------------------------------------------------------------
(* The queue.                                                              *)

(***************************************************************************)
(* What purge leaves is a sequence of objects no longer than what it found. *)
(***************************************************************************)
LEMMA PurgeShortens ==
  ASSUME queue \in Seq(Object), NEW victims, Purge(victims)
  PROVE  queue' \in Seq(Object) /\ Len(queue') <= Len(queue)
<1>1. queue' = Keep(queue, Object \ victims)
  BY DEF Purge, Rest
<1> DEFINE k == Len(Keep(queue, Object \ victims))
           d == Len(Keep(queue, victims))
           n == Len(queue)
<1>2. Keep(queue, Object \ victims) \in Seq(Object) /\ Keep(queue, victims) \in Seq(Object)
  BY KeepType
<1>3. k \in Nat /\ d \in Nat /\ n \in Nat
  BY <1>2
<1>4. k + d = n
  BY KeepLen
<1> HIDE DEF k, d, n
<1>5. k <= n
  BY <1>3, <1>4
<1> QED BY <1>1, <1>2, <1>5 DEF k, n

(***************************************************************************)
(* Moving one thread between "no", "asleep" and "woken" moves that thread,  *)
(* and no other, between the two sets.                                     *)
(***************************************************************************)
LEMMA OneThreadMoves ==
  ASSUME waiting \in [Thread -> {"no", "asleep", "woken"}],
         NEW t \in Thread, NEW v \in {"no", "asleep", "woken"},
         waiting' = [waiting EXCEPT ![t] = v]
  PROVE  /\ Asleep' = IF v = "asleep" THEN Asleep \cup {t} ELSE Asleep \ {t}
         /\ Woken'  = IF v = "woken"  THEN Woken  \cup {t} ELSE Woken  \ {t}
BY DEF Asleep, Woken

(***************************************************************************)
(* The signalled threads can be counted, before and after a step.           *)
(***************************************************************************)
LEMMA FiniteThreads ==
  ASSUME NEW S \in SUBSET Thread
  PROVE  IsFiniteSet(S) /\ Cardinality(S) \in Nat
<1>1. IsFiniteSet(S)
  BY ThreadAssumption, FS_Subset
<1> QED BY <1>1, FS_CardinalityType

--------------------------------------------------------------------------------
(***************************************************************************)
(* Every call leaves the queue a sequence of objects that were put, and     *)
(* every result one of the documented codes.                               *)
(***************************************************************************)
LEMMA InitType == Init => TypeOK
<1> SUFFICES ASSUME Init PROVE TypeOK
  OBVIOUS
<1>1. [code |-> 0, obj |-> NoObject] \in Result
  BY DEF Result
<1>2. queue \in Seq(Object)
  BY EmptySeq DEF Init
<1>3. waiting \in [Thread -> {"no", "asleep", "woken"}] /\ abort_request \in BOOLEAN
  BY DEF Init
<1>4. ret \in [Thread -> Result]
  BY <1>1 DEF Init
<1>6. roles \in Roles /\ \A t \in Thread \ Blocking : waiting[t] = "no"
  BY DEF Init
<1>5. call \in [Thread -> {"get", "peek"}]
  BY DEF Init
<1> QED BY <1>2, <1>3, <1>4, <1>5, <1>6 DEF TypeOK

\* Every turn of a call of queue.c keeps the types: objects go in at the back,
\* come out at the front, and purge only drops some.
LEMMA NextType == TypeOK /\ [Next]_vars => TypeOK'
<1> SUFFICES ASSUME TypeOK, [Next]_vars PROVE TypeOK'
  OBVIOUS
<1> USE DEF TypeOK
<1>0. Blocking \subseteq Thread /\ Blocking' = Blocking /\ roles' \in Roles
  BY RolesAssumption DEF Next, vars, Blocking, Getters, Peekers
<1>1. ASSUME NEW o \in Object, Put(o) PROVE TypeOK'
  BY <1>0, <1>1 DEF Put, Signal, Asleep
<1>2. ASSUME NEW t \in Thread, Aborted(t) PROVE TypeOK'
  BY <1>0, <1>2 DEF Aborted, Returns, Result
<1>3. ASSUME NEW t \in Thread, GetObject(t) PROVE TypeOK'
  <2>1. Head(queue) \in Object /\ Tail(queue) \in Seq(Object)
    BY <1>0, <1>3, HeadTailProperties DEF GetObject
  <2> QED BY <1>0, <1>3, <2>1 DEF GetObject, Returns, Result
<1>4. ASSUME NEW t \in Thread, PeekObject(t) PROVE TypeOK'
  BY <1>0, <1>4 DEF PeekObject, Returns, Result
<1>5. ASSUME NEW t \in Thread, Nothing(t) PROVE TypeOK'
  BY <1>0, <1>5 DEF Nothing, Returns, Result
<1>6. ASSUME NEW t \in Thread \cap Blocking, NEW c \in {"get", "peek"}, Sleep(t, c) PROVE TypeOK'
  BY <1>0, <1>6 DEF Sleep
<1>7. ASSUME NEW t \in Thread, SpuriousWake(t) PROVE TypeOK'
  BY <1>0, <1>7 DEF SpuriousWake
<1>8. CASE Flush
  BY <1>0, <1>8, EmptySeq DEF Flush
<1>9. ASSUME NEW victims \in SUBSET Object, Purge(victims) PROVE TypeOK'
  <2>1. queue' \in Seq(Object)
    BY <1>0, <1>9, PurgeShortens
  <2> QED BY <1>0, <1>9, <2>1 DEF Purge
<1>10. CASE Abort
  BY <1>0, <1>10 DEF Abort, Signal, Asleep
<1>11. CASE Reset
  BY <1>0, <1>11 DEF Reset
<1>12. CASE UNCHANGED vars
  BY <1>0, <1>12 DEF vars
<1> QED
  BY <1>0, <1>1, <1>2, <1>3, <1>4, <1>5, <1>6, <1>7, <1>8, <1>9, <1>10, <1>11, <1>12
  DEF Next, Step, Get, Peek, Blocking

\* The types hold in every reachable state, for any objects and any finite sets
\* of getters and peekers: get and peek return only what queue.h documents.
THEOREM TypeCorrect == SafeSpec => []TypeOK
<1> QED BY InitType, NextType, PTL DEF SafeSpec

--------------------------------------------------------------------------------
(***************************************************************************)
(* A single blocking thread never sleeps on a queue with something in it,   *)
(* nor on an aborted one: the invariant is inductive, given the types.      *)
(***************************************************************************)
LEMMA SoleStep ==
  TypeOK /\ SoleWaiterNotStranded /\ [Next]_vars => SoleWaiterNotStranded'
<1> SUFFICES ASSUME TypeOK, SoleWaiterNotStranded, [Next]_vars,
                    Cardinality(Blocking') = 1, NEW x \in Asleep'
             PROVE  queue' = <<>> /\ ~abort_request'
  BY DEF SoleWaiterNotStranded
<1>a. Blocking' = Blocking
  BY DEF Next, vars, Blocking, Getters, Peekers
<1>b. Blocking \subseteq Thread
  BY RolesAssumption DEF TypeOK, Blocking, Getters, Peekers
<1>2. x \in Thread /\ waiting'[x] = "asleep"
  BY DEF Asleep
<1>1. Blocking = {x}
  <2>1. IsFiniteSet(Blocking)
    BY <1>b, ThreadAssumption, FS_Subset
  <2>2. \E y : Blocking = {y}
    BY <1>a, <2>1, FS_Singleton
  <2>3. x \in Blocking'
    BY <1>2, NextType DEF TypeOK
  <2> QED BY <1>a, <2>2, <2>3
<1>3. waiting[x] = "asleep" => queue = <<>> /\ ~abort_request
  BY <1>1, <1>2, <1>a DEF SoleWaiterNotStranded, Asleep
<1>4. /\ waiting \in [Thread -> {"no", "asleep", "woken"}]
      /\ \A t \in Thread : t # x => waiting[t] = "no"
  BY <1>1 DEF TypeOK
<1>5. ~Signal
  BY <1>2, <1>4 DEF Signal, Asleep
<1>6. \A t \in Blocking : t = x
  BY <1>1
<1>7. ASSUME NEW o \in Object, Put(o) PROVE FALSE
  BY <1>5, <1>7 DEF Put
<1>8. CASE Abort
  BY <1>5, <1>8 DEF Abort
<1>10. ASSUME NEW t \in Blocking, Aborted(t) \/ GetObject(t) \/ PeekObject(t) \/ Nothing(t)
       PROVE  FALSE
  <2>1. waiting' = [waiting EXCEPT ![t] = "no"]
    BY <1>10 DEF Aborted, GetObject, PeekObject, Nothing, Returns
  <2> QED BY <2>1, <1>2, <1>4, <1>6
<1>11. ASSUME NEW t \in Blocking, NEW c \in {"get", "peek"}, Sleep(t, c) PROVE queue' = <<>> /\ ~abort_request'
  BY <1>11 DEF Sleep
<1>12. ASSUME NEW t \in Thread, SpuriousWake(t) PROVE FALSE
  BY <1>12, <1>2, <1>4 DEF SpuriousWake
<1>13. CASE Flush
  BY <1>13, <1>2, <1>3 DEF Flush
<1>14. ASSUME NEW victims \in SUBSET Object, Purge(victims)
       PROVE  queue' = <<>> /\ ~abort_request'
  <2>1. queue = <<>> /\ ~abort_request
    BY <1>14, <1>2, <1>3 DEF Purge
  <2>2. queue' \in Seq(Object) /\ Len(queue') <= Len(queue)
    BY <1>14, PurgeShortens DEF TypeOK
  <2>3. queue' = <<>>
    BY <2>1, <2>2, EmptySeq
  <2> QED BY <1>14, <2>1, <2>3 DEF Purge
<1>15. CASE Reset
  BY <1>15, <1>2, <1>3 DEF Reset
<1>16. CASE UNCHANGED vars
  BY <1>16, <1>2, <1>3 DEF vars
<1> QED
  BY <1>7, <1>8, <1>10, <1>11, <1>12, <1>13, <1>14, <1>15, <1>16
  DEF Next, Step, Get, Peek, Blocking

\* One blocking reader per queue, which is how audioq and info_queue are used:
\* the single pthread_cond_signal of put and of abort never gets lost.
THEOREM SoleWaiterSafe == SafeSpec => []SoleWaiterNotStranded
<1>1. Init => SoleWaiterNotStranded
  BY DEF Init, SoleWaiterNotStranded, Asleep
<1> QED BY <1>1, InitType, NextType, SoleStep, PTL DEF SafeSpec

--------------------------------------------------------------------------------
(***************************************************************************)
(* Any number of blocked getters.  The count is inductive only together     *)
(* with the types and with the fact that a queue nobody aborts never has    *)
(* its flag up: an aborted getter would leave without taking an object.     *)
(***************************************************************************)
NeverAborted == ~CanAbort => ~abort_request

CountInv == TypeOK /\ NeverAborted /\ GettersNotStranded

\* abort_request goes up in groove_queue_abort only.
LEMMA NeverAbortedStep == NeverAborted /\ [Next]_vars => NeverAborted'
BY DEF NeverAborted, CanAbort, Next, Step, vars, Put, Get, Peek, Aborted, GetObject, PeekObject, Nothing,
       Sleep, SpuriousWake, Flush, Purge, Abort, Reset, Returns

\* Every turn keeps enough signalled getters on their way to the queue for the
\* objects in it: put adds one of each, a getter that leaves takes one of each.
LEMMA CountStep == CountInv /\ [Next]_vars => GettersNotStranded'
<1> SUFFICES ASSUME CountInv, [Next]_vars, Peekers = {}, ~CanAbort, Asleep' # {}
             PROVE  Len(queue') <= Cardinality(Woken')
  BY DEF GettersNotStranded, Next, vars, Peekers, CanAbort
<1>a. Getters \subseteq Thread
  BY RolesAssumption DEF CountInv, TypeOK, Getters
<1>1. /\ waiting \in [Thread -> {"no", "asleep", "woken"}]
      /\ queue \in Seq(Object)
      /\ Len(queue) \in Nat
      /\ ~abort_request
  BY LenProperties DEF CountInv, TypeOK, NeverAborted
<1>2. Asleep # {} => Len(queue) <= Cardinality(Woken)
  BY DEF CountInv, GettersNotStranded
<1>3. IsFiniteSet(Woken) /\ Cardinality(Woken) \in Nat
  BY FiniteThreads DEF Woken
<1>0. Cardinality(Woken') \in Nat
  BY FiniteThreads DEF Woken
<1>4. \A t \in Thread : Asleep \cap Woken = {} /\ (t \in Asleep => t \notin Woken)
  BY DEF Asleep, Woken
<1>5. ASSUME NEW o \in Object, Put(o) PROVE Len(queue') <= Cardinality(Woken')
  <2>1. Len(queue') = Len(queue) + 1
    BY <1>5, <1>1 DEF Put
  <2>2. Asleep # {}
    BY <1>5, <1>1 DEF Put, Signal, Asleep
  <2>3. PICK t \in Asleep : waiting' = [waiting EXCEPT ![t] = "woken"]
    BY <1>5, <2>2 DEF Put, Signal
  <2>4. t \in Thread /\ t \notin Woken
    BY <2>3, <1>4 DEF Asleep
  <2>5. Woken' = Woken \cup {t}
    BY <2>3, <2>4, <1>1, OneThreadMoves
  <2>6. Cardinality(Woken') = Cardinality(Woken) + 1
    BY <2>4, <2>5, <1>3, FS_AddElement
  <2> QED BY <2>1, <2>2, <2>6, <1>1, <1>2, <1>3
<1>6. ASSUME NEW t \in Thread, GetObject(t) PROVE Len(queue') <= Cardinality(Woken')
  <2>1. Len(queue') = Len(queue) - 1
    BY <1>6, <1>1, HeadTailProperties DEF GetObject
  <2>2. waiting' = [waiting EXCEPT ![t] = "no"]
    BY <1>6 DEF GetObject, Returns
  <2>3. Asleep' = Asleep \ {t} /\ Woken' = Woken \ {t}
    BY <2>2, <1>1, OneThreadMoves
  <2>4. Cardinality(Woken') >= Cardinality(Woken) - 1 /\ Cardinality(Woken') \in Nat
    <3>1. Cardinality(Woken \ {t}) = IF t \in Woken THEN Cardinality(Woken) - 1
                                                   ELSE Cardinality(Woken)
      BY <1>3, FS_RemoveElement
    <3> QED BY <3>1, <2>3, <1>3, <1>0
  <2>5. Asleep # {}
    BY <2>3
  <2> QED BY <2>1, <2>4, <2>5, <1>1, <1>2, <1>3
<1>7. ASSUME NEW t \in Thread, Aborted(t) PROVE FALSE
  BY <1>7, <1>1 DEF Aborted
<1>8. ASSUME NEW t \in Thread, Nothing(t) PROVE Len(queue') <= Cardinality(Woken')
  <2>1. Len(queue') = 0
    BY <1>8, EmptySeq DEF Nothing
  <2> QED BY <2>1, <1>0
<1>9. ASSUME NEW t \in Thread, NEW c \in {"get", "peek"}, Sleep(t, c) PROVE Len(queue') <= Cardinality(Woken')
  <2>1. Len(queue') = 0
    BY <1>9, EmptySeq DEF Sleep
  <2> QED BY <2>1, <1>0
<1>10. ASSUME NEW t \in Thread, SpuriousWake(t) PROVE Len(queue') <= Cardinality(Woken')
  <2>1. t \in Asleep /\ t \notin Woken
    BY <1>10, <1>4 DEF SpuriousWake, Asleep
  <2>2. Woken' = Woken \cup {t}
    BY <1>10, <1>1, OneThreadMoves DEF SpuriousWake
  <2>3. Cardinality(Woken') = Cardinality(Woken) + 1
    BY <2>1, <2>2, <1>3, FS_AddElement
  <2>4. queue' = queue
    BY <1>10 DEF SpuriousWake
  <2> QED BY <2>1, <2>3, <2>4, <1>1, <1>2, <1>3
<1>11. CASE Flush
  <2>1. Len(queue') = 0
    BY <1>11, EmptySeq DEF Flush
  <2> QED BY <2>1, <1>0
<1>12. ASSUME NEW victims \in SUBSET Object, Purge(victims)
       PROVE  Len(queue') <= Cardinality(Woken')
  <2>1. Asleep' = Asleep /\ Woken' = Woken
    BY <1>12 DEF Purge, Asleep, Woken
  <2>2. Len(queue') <= Len(queue) /\ Len(queue') \in Nat
    BY <1>12, <1>1, PurgeShortens, LenProperties
  <2> QED BY <2>1, <2>2, <1>1, <1>2, <1>3
<1>13. CASE Reset
  BY <1>13, <1>2 DEF Reset, Asleep, Woken
<1>14. CASE UNCHANGED vars
  BY <1>14, <1>2 DEF vars, Asleep, Woken
<1>15. ~Abort
  BY DEF Abort
<1> QED
  BY <1>a, <1>5, <1>6, <1>7, <1>8, <1>9, <1>10, <1>11, <1>12, <1>13, <1>14, <1>15
  DEF Next, Step, Get

\* Any finite number of threads may block in groove_queue_get on one queue, as
\* long as nobody peeks or aborts: put needs no broadcast.
THEOREM GettersSafe == SafeSpec => []GettersNotStranded
<1>1. Init => CountInv
  BY InitType DEF Init, CountInv, NeverAborted, GettersNotStranded, Asleep
<1>2. CountInv /\ [Next]_vars => CountInv'
  BY NextType, NeverAbortedStep, CountStep DEF CountInv
<1>3. CountInv => GettersNotStranded
  BY DEF CountInv
<1> QED BY <1>1, <1>2, <1>3, PTL DEF SafeSpec

--------------------------------------------------------------------------------
(* The sink map.                                                           *)

\* What two sequences one after the other hold, and begin with.
LEMMA HeadOfConcat ==
  ASSUME NEW T, NEW a \in Seq(T), NEW b \in Seq(T), a # <<>>
  PROVE  /\ a \o b \in Seq(T) \ {<<>>}
         /\ Head(a \o b) = Head(a)
         /\ Range(a \o b) = Range(a) \cup Range(b)
<1> DEFINE t == a \o b
<1>1. t \in Seq(T)
  BY ConcatProperties
<1>2. Len(t) = Len(a) + Len(b)
  BY ConcatProperties
<1>3. Range(t) = Range(a) \cup Range(b)
  BY RangeConcatenation
<1>4. Len(a) \in Nat /\ Len(b) \in Nat /\ Len(a) # 0
  OBVIOUS
<1>5. 1 \in 1 .. Len(a) + Len(b) /\ 1 <= Len(a)
  BY <1>4
<1>6. t[1] = a[1]
  BY <1>5, ConcatProperties
<1> HIDE DEF t
<1>7. t # <<>> /\ Head(t) = t[1]
  BY <1>1, <1>2, <1>4
<1>8. Head(a) = a[1]
  OBVIOUS
<1> QED
  BY <1>1, <1>3, <1>6, <1>7, <1>8 DEF t

(***************************************************************************)
(* A sink put in front of a stack leads it; one put behind the first leaves *)
(* the first where it is.                                                  *)
(***************************************************************************)
LEMMA InsertFirst ==
  ASSUME NEW T, NEW s \in Seq(T), NEW x \in T
  PROVE  /\ InsertAt(s, 1, x) \in Seq(T) \ {<<>>}
         /\ Head(InsertAt(s, 1, x)) = x
         /\ Range(InsertAt(s, 1, x)) = Range(s) \cup {x}
         /\ InsertAt(s, 1, x) = <<x>> \o s
<1> DEFINE h == <<x>>
<1>1. h \in Seq(T) /\ Len(h) = 1 /\ Range(h) = {x} /\ h[1] = x
  BY DEF Range
<1>2. SubSeq(s, 1, 1 - 1) = <<>>
  BY SubSeqEmpty
<1>3. SubSeq(s, 1, Len(s)) = s
  BY SubSeqFull
<1>4. InsertAt(s, 1, x) = (<<>> \o h) \o s
  BY <1>2, <1>3 DEF InsertAt
<1> HIDE DEF h
<1>5. <<>> \o h = h
  BY <1>1, ConcatEmptySeq
<1>6. h # <<>> /\ Head(h) = x
  BY <1>1
<1>7. /\ h \o s \in Seq(T) \ {<<>>} /\ Head(h \o s) = Head(h)
      /\ Range(h \o s) = Range(h) \cup Range(s)
  BY <1>1, <1>6, HeadOfConcat
<1> QED
  BY <1>1, <1>4, <1>5, <1>6, <1>7 DEF h

LEMMA InsertSecondIs ==
  ASSUME NEW T, NEW s \in Seq(T), s # <<>>, NEW x \in T
  PROVE  InsertAt(s, 2, x) = (<<Head(s)>> \o <<x>>) \o Tail(s) /\ s = <<Head(s)>> \o Tail(s)
<1> DEFINE h == <<Head(s)>>
           m == <<x>>
           r == Tail(s)
<1>1. Head(s) \in T /\ r \in Seq(T) /\ Len(s) \in Nat \ {0} /\ Head(s) = s[1]
  OBVIOUS
<1>2. h \in Seq(T)
  BY <1>1
<1>3. 1 \in 1 .. Len(s)
  BY <1>1
<1>4. SubSeq(s, 1, 1) = h
  <2>1. 1 \in 1 .. 1 /\ 1 \in 1 .. Len(s)
    BY <1>3
  <2>2. SubSeq(s, 1, 1) = <<s[1]>> \o SubSeq(s, 2, 1)
    BY <2>1, SubSeqRecursiveFirst
  <2>3. SubSeq(s, 2, 1) = <<>>
    BY SubSeqEmpty
  <2> HIDE DEF h
  <2>4. h \o <<>> = h
    BY <1>2, ConcatEmptySeq
  <2> QED
    BY <2>2, <2>3, <2>4, <1>1 DEF h
<1>5. SubSeq(s, 2, Len(s)) = r
  BY TailIsSubSeq
<1>6. InsertAt(s, 2, x) = (h \o m) \o r
  BY <1>4, <1>5 DEF InsertAt
<1>7. s = h \o r
  <2>1. SubSeq(s, 1, Len(s)) = s
    BY SubSeqFull
  <2>2. Len(s) \in 1 .. Len(s)
    BY <1>1
  <2>3. SubSeq(s, 1, Len(s)) = <<s[1]>> \o SubSeq(s, 2, Len(s))
    BY <1>3, <2>2, SubSeqRecursiveFirst
  <2> QED
    BY <2>1, <2>3, <1>1, <1>5
<1> QED
  BY <1>6, <1>7

LEMMA InsertSecond ==
  ASSUME NEW T, NEW s \in Seq(T), s # <<>>, NEW x \in T
  PROVE  /\ InsertAt(s, 2, x) \in Seq(T) \ {<<>>}
         /\ Head(InsertAt(s, 2, x)) = Head(s)
         /\ Range(InsertAt(s, 2, x)) = Range(s) \cup {x}
<1> DEFINE h == <<Head(s)>>
           m == <<x>>
           r == Tail(s)
<1>1. Head(s) \in T /\ r \in Seq(T) /\ Len(s) \in Nat \ {0} /\ Head(s) = s[1]
  OBVIOUS
<1>2. /\ h \in Seq(T) /\ Len(h) = 1 /\ Range(h) = {Head(s)} /\ h[1] = Head(s)
      /\ m \in Seq(T) /\ Len(m) = 1 /\ Range(m) = {x}
  BY <1>1 DEF Range
<1>6. InsertAt(s, 2, x) = (h \o m) \o r
  BY InsertSecondIs
<1>7. Range(s) = Range(h) \cup Range(r)
  BY <1>2, HeadTailRange
<1> HIDE DEF h, m, r
<1> DEFINE a == h \o m
<1>8. h # <<>> /\ Head(h) = h[1]
  BY <1>2
<1>9. a \in Seq(T) \ {<<>>} /\ Head(a) = Head(h) /\ Range(a) = Range(h) \cup Range(m)
  BY <1>2, <1>8, HeadOfConcat
<1> HIDE DEF a
<1>10. a \o r \in Seq(T) \ {<<>>} /\ Head(a \o r) = Head(a) /\ Range(a \o r) = Range(a) \cup Range(r)
  BY <1>1, <1>9, HeadOfConcat
<1> QED
  BY <1>2, <1>6, <1>7, <1>8, <1>9, <1>10 DEF h, m, r, a


(***************************************************************************)
(* What one list allows passes from sink to sink: sink_formats_compatible   *)
(* goes from a to c when it goes from a to b and from b to c, and every     *)
(* sink is compatible with itself.                                         *)
(***************************************************************************)
LEMMA SupportsCarries ==
  ASSUME NEW a \in Sink, NEW b \in Sink, NEW d \in Dimension, NEW range,
         ListCompatible(a, b, d), Supports(a, d, range)
  PROVE  Supports(b, d, range)
<1>1. CASE Wants[a].lists[d] = AnyValue
  BY <1>1 DEF ListCompatible, Supports
<1>2. CASE Wants[a].lists[d] # AnyValue
  <2>1. PICK r \in Wants[a].lists[d] : range \subseteq r
    BY <1>2 DEF Supports
  <2>2. Supports(b, d, r)
    BY <1>2, <2>1 DEF ListCompatible
  <2>3. CASE Wants[b].lists[d] = AnyValue
    BY <2>3 DEF Supports
  <2>4. CASE Wants[b].lists[d] # AnyValue
    <3>1. PICK q \in Wants[b].lists[d] : r \subseteq q
      BY <2>2, <2>4 DEF Supports
    <3>2. range \subseteq q
      BY <2>1, <3>1
    <3> QED
      BY <3>1, <3>2 DEF Supports
  <2> QED
    BY <2>3, <2>4
<1> QED
  BY <1>1, <1>2

LEMMA ListCarries ==
  ASSUME NEW a \in Sink, NEW b \in Sink, NEW c \in Sink, NEW d \in Dimension,
         ListCompatible(a, b, d), ListCompatible(b, c, d)
  PROVE  ListCompatible(a, c, d)
<1>1. CASE Wants[a].lists[d] = AnyValue
  BY <1>1 DEF ListCompatible
<1>2. CASE Wants[a].lists[d] # AnyValue
  <2>1. ASSUME NEW range \in Wants[a].lists[d] PROVE Supports(c, d, range)
    <3>1. Supports(b, d, range)
      BY <1>2 DEF ListCompatible
    <3> QED
      BY <3>1, SupportsCarries
  <2> QED
    BY <1>2, <2>1 DEF ListCompatible
<1> QED
  BY <1>1, <1>2

LEMMA CompatibleCarries ==
  ASSUME NEW g, NEW a \in Sink, NEW b \in Sink, NEW c \in Sink,
         Compatible(a, b, g), Compatible(b, c, g)
  PROVE  Compatible(a, c, g)
<1>1. Wants[c].count \in {0, Wants[a].count} /\ g[a] = g[c]
  BY DEF Compatible
<1>2. ASSUME NEW d \in Dimension PROVE ListCompatible(a, c, d)
  BY ListCarries DEF Compatible
<1> QED
  BY <1>1, <1>2 DEF Compatible, SeenFlags

LEMMA CompatibleItself ==
  ASSUME NEW g, NEW s \in Sink
  PROVE  Compatible(s, s, g)
<1>1. ASSUME NEW d \in Dimension PROVE ListCompatible(s, s, d)
  BY DEF ListCompatible, Supports
<1> QED
  BY <1>1 DEF Compatible

--------------------------------------------------------------------------------
(***************************************************************************)
(* The inductive invariant, an entry at a time.  All the sinks of a stack   *)
(* have the gain of the example, because a change of gain takes the sink    *)
(* out and puts it back, and until the example is taken away they all take  *)
(* what the example takes.  When the graph may be used as it is, the branch *)
(* of every entry is the one that its example, as it is now, asks for.      *)
(***************************************************************************)
OfOneGain(e, g) == \A s \in Range(e.stack) : g[s] = g[Example(e)]

Agrees(e, g) == ~e.cut => \A s \in Range(e.stack) : Compatible(Example(e), s, g)

Current(e, g) ==
  /\ e.ctx = "live"
  /\ e.gain = {g[Example(e)]}
  /\ ~e.cut => e.out \subseteq {Delivered(Example(e), src) : src \in Source}

Sound(map, g) == \A e \in Range(map) : OfOneGain(e, g) /\ Agrees(e, g)

UpToDate(map, g) == \A e \in Range(map) : Current(e, g)

MapInv ==
  /\ MapTypeOK
  /\ Sound(sink_map, gain)
  /\ Ready => UpToDate(sink_map, gain)

LEMMA ExampleHangs ==
  ASSUME NEW e \in Entries
  PROVE  Example(e) \in Sink /\ Example(e) \in Range(e.stack) /\ Range(e.stack) \subseteq Sink
<1>1. e.stack \in Seq(Sink) /\ e.stack # <<>>
  BY DEF Entries
<1> QED
  BY <1>1, HeadTailRange, RangeOfSeq DEF Example

\* What is left of an entry when one sink is taken off it.
LEMMA UnhangLeaves ==
  ASSUME NEW e \in Entries, NEW s \in Sink
  PROVE  /\ Unhang(e, s).stack # <<>> => Unhang(e, s) \in Entries
         /\ Range(Unhang(e, s).stack) = Range(e.stack) \ {s}
         /\ Unhang(e, s).ctx = e.ctx /\ Unhang(e, s).out = e.out /\ Unhang(e, s).gain = e.gain
         /\ Unhang(e, s).cut = (e.cut \/ Example(e) = s)
         /\ Example(e) # s => Example(Unhang(e, s)) = Example(e)
<1> DEFINE h == Unhang(e, s)
           k == Keep(e.stack, Sink \ {s})
<1>1. e.stack \in Seq(Sink) /\ e.stack # <<>> /\ e.cut \in BOOLEAN
  BY DEF Entries
<1>2. h = [e EXCEPT !.stack = k, !.cut = e.cut \/ Example(e) = s]
  BY DEF Unhang
<1>3. k \in Seq(Sink) /\ Range(k) = Range(e.stack) \cap (Sink \ {s})
  BY <1>1, KeepType, KeepRange
<1>4. Range(e.stack) \subseteq Sink /\ Example(e) \in Sink
  BY ExampleHangs
<1>5. ASSUME Example(e) # s PROVE Head(k) = Head(e.stack)
  <2>1. Head(e.stack) \in Sink \ {s}
    BY <1>4, <1>5 DEF Example
  <2> QED
    BY <1>1, <2>1, KeepLead
<1> HIDE DEF k, h
<1>6. /\ h.stack = k /\ h.ctx = e.ctx /\ h.out = e.out /\ h.gain = e.gain
      /\ h.cut = (e.cut \/ Example(e) = s)
  BY <1>2 DEF Entries
<1>7. ASSUME k # <<>> PROVE h \in Entries
  <2>1. k \in Seq(Sink) \ {<<>>}
    BY <1>3, <1>7
  <2>2. (e.cut \/ Example(e) = s) \in BOOLEAN
    OBVIOUS
  <2> QED
    BY <1>2, <2>1, <2>2 DEF Entries
<1> QED
  BY <1>3, <1>4, <1>5, <1>6, <1>7 DEF h, Example

\* remove_sink_from_map: every entry without the sink, but for the empty one.
LEMMA WithoutLeaves ==
  ASSUME NEW map \in Seq(Entries), NEW s \in Sink
  PROVE  /\ Without(map, s) \in Seq(Entries)
         /\ \A h \in Range(Without(map, s)) :
              \E e \in Range(map) : h = Unhang(e, s) /\ h.stack # <<>>
<1> DEFINE left == [k \in DOMAIN map |-> Unhang(map[k], s)]
           U == {Unhang(e, s) : e \in Range(map)}
           W == {e \in Range(left) : e.stack # <<>>}
<1>1. DOMAIN map = 1 .. Len(map) /\ Len(map) \in Nat /\ \A k \in DOMAIN map : map[k] \in Range(map)
  BY DEF Range
<1>2. \A k \in DOMAIN map : left[k] \in U
  BY <1>1
<1>3. left \in Seq(U)
  BY <1>1, <1>2
<1>4. Without(map, s) = Keep(left, W)
  BY DEF Without
<1>5. Range(map) \subseteq Entries
  BY RangeOfSeq
<1>6. \A h \in U \cap W : \E e \in Range(map) : h = Unhang(e, s) /\ h.stack # <<>>
  OBVIOUS
<1>7. U \cap W \subseteq Entries
  BY <1>5, <1>6, UnhangLeaves
<1> HIDE DEF left, U, W
<1>8. Keep(left, W) \in Seq(U \cap W) /\ Range(Keep(left, W)) = Range(left) \cap W
  BY <1>3, KeepType, KeepRange
<1>9. Range(Keep(left, W)) \subseteq U \cap W
  BY <1>8, RangeOfSeq
<1>10. Keep(left, W) \in Seq(Entries)
  BY <1>7, <1>8, SeqMonotonic
<1> QED
  BY <1>4, <1>6, <1>9, <1>10

(***************************************************************************)
(* add_sink_to_map: what the entries of the new map are.                    *)
(***************************************************************************)
LEMMA FirstExists ==
  ASSUME NEW K \in SUBSET Nat, K # {}
  PROVE  First(K) \in K
  BY LeastExists DEF First

\* The sink in an entry of its own, or behind the example of an old one, or in
\* its place.
Fresh(s)   == Entry(<<s>>)
Behind(o, s) == [o EXCEPT !.stack = InsertAt(o.stack, 2, s)]
Before(o, s) == [o EXCEPT !.stack = InsertAt(o.stack, 1, s)]

LEMMA JoinIs ==
  ASSUME NEW o \in Entries, NEW s \in Sink
  PROVE  /\ Behind(o, s) \in Entries
         /\ Example(Behind(o, s)) = Example(o)
         /\ Range(Behind(o, s).stack) = Range(o.stack) \cup {s}
         /\ Behind(o, s).ctx = o.ctx /\ Behind(o, s).out = o.out /\ Behind(o, s).gain = o.gain
         /\ Behind(o, s).cut = o.cut
<1> DEFINE stack == o.stack
           k == InsertAt(stack, 2, s)
<1>1. stack \in Seq(Sink) /\ stack # <<>>
  BY DEF Entries
<1> HIDE DEF stack
<1>2. k \in Seq(Sink) \ {<<>>} /\ Head(k) = Head(stack) /\ Range(k) = Range(stack) \cup {s}
  BY <1>1, InsertSecond
<1> USE DEF stack
<1>3. Behind(o, s) = [o EXCEPT !.stack = k]
  BY DEF Behind
<1> HIDE DEF k
<1> QED
  BY <1>2, <1>3 DEF Entries, Example

LEMMA LeadIs ==
  ASSUME NEW o \in Entries, NEW s \in Sink
  PROVE  /\ Before(o, s) \in Entries
         /\ Example(Before(o, s)) = s
         /\ Range(Before(o, s).stack) = Range(o.stack) \cup {s}
         /\ Before(o, s).cut = o.cut
<1>1. o.stack \in Seq(Sink)
  BY DEF Entries
<1> DEFINE k == InsertAt(o.stack, 1, s)
<1>2. k \in Seq(Sink) \ {<<>>} /\ Head(k) = s /\ Range(k) = Range(o.stack) \cup {s}
  BY <1>1, InsertFirst
<1>3. Before(o, s) = [o EXCEPT !.stack = k]
  BY DEF Before
<1> HIDE DEF k
<1> QED
  BY <1>2, <1>3 DEF Entries, Example

LEMMA FreshIs ==
  ASSUME NEW s \in Sink
  PROVE  Fresh(s) \in Entries /\ Example(Fresh(s)) = s /\ Range(Fresh(s).stack) = {s} /\ ~Fresh(s).cut
<1>1. <<s>> \in Seq(Sink) \ {<<>>} /\ Head(<<s>>) = s /\ Range(<<s>>) = {s}
  BY DEF Range
<1>2. FALSE \in BOOLEAN /\ {} \in SUBSET Delivery /\ {} \in SUBSET Volumes
  OBVIOUS
<1> QED
  BY <1>1, <1>2 DEF Fresh, Entry, Entries, Example

\* The map with one entry put in the place of another.
Replaced(map, k, e) == [map EXCEPT ![k] = e]

LEMMA OneReplaced ==
  ASSUME NEW map \in Seq(Entries), NEW k \in DOMAIN map, NEW e \in Entries
  PROVE  /\ [map EXCEPT ![k] = e] \in Seq(Entries)
         /\ Range([map EXCEPT ![k] = e]) \subseteq Range(map) \cup {e}
<1>1. DOMAIN map = 1 .. Len(map) /\ k \in 1 .. Len(map)
  OBVIOUS
<1> DEFINE m == [map EXCEPT ![k] = e]
<1>2. m \in Seq(Entries) /\ DOMAIN m = DOMAIN map
  BY <1>1, ExceptSeq
<1>3. \A j \in DOMAIN map : m[j] = IF j = k THEN e ELSE map[j]
  OBVIOUS
<1> QED
  BY <1>2, <1>3 DEF Range

\* The three places where it can end up.
LEMMA PlacedCases ==
  ASSUME NEW map \in Seq(Entries), NEW s \in Sink, NEW g
  PROVE  \/ ChangesExample(map, s, g) /\ Placed(map, s, g) = <<Fresh(s)>> \o map
         \/ \E k \in DOMAIN map : /\ Compatible(Example(map[k]), s, g)
                                  /\ Placed(map, s, g) = Replaced(map, k, Behind(map[k], s))
         \/ /\ ChangesExample(map, s, g)
            /\ \E k \in DOMAIN map : /\ Compatible(s, Example(map[k]), g)
                                     /\ Placed(map, s, g) = Replaced(map, k, Before(map[k], s))
<1>1. CASE Fits(map, s, g) = {}
  BY <1>1 DEF Placed, Fresh, ChangesExample
<1>2. CASE Fits(map, s, g) # {}
  <2> DEFINE k == First(Fits(map, s, g))
  <2>1. DOMAIN map = 1 .. Len(map) /\ Fits(map, s, g) \subseteq DOMAIN map
    BY DEF Fits, Joins, Leads
  <2>2. Fits(map, s, g) \in SUBSET Nat
    BY <2>1
  <2>3. k \in Fits(map, s, g)
    BY <1>2, <2>2, FirstExists
  <2>4. k \in DOMAIN map
    BY <2>1, <2>3
  <2>5. CASE k \in Joins(map, s, g)
    <3>1. Placed(map, s, g) = Replaced(map, k, Behind(map[k], s))
      BY <1>2, <2>4, <2>5 DEF Placed, Behind, Replaced
    <3>2. Compatible(Example(map[k]), s, g)
      BY <2>5 DEF Joins
    <3> HIDE DEF k
    <3> QED
      BY <2>4, <3>1, <3>2
  <2>6. CASE k \notin Joins(map, s, g)
    <3>1. Placed(map, s, g) = Replaced(map, k, Before(map[k], s)) /\ ChangesExample(map, s, g)
      BY <1>2, <2>4, <2>6 DEF Placed, Before, ChangesExample, Replaced
    <3>2. Compatible(s, Example(map[k]), g)
      BY <2>3, <2>6 DEF Fits, Leads
    <3> HIDE DEF k
    <3> QED
      BY <2>4, <3>1, <3>2
  <2> QED
    BY <2>5, <2>6
<1> QED
  BY <1>1, <1>2

LEMMA PlacedIs ==
  ASSUME NEW map \in Seq(Entries), NEW s \in Sink, NEW g
  PROVE  /\ Placed(map, s, g) \in Seq(Entries)
         /\ \A e \in Range(Placed(map, s, g)) :
              \/ e \in Range(map)
              \/ ChangesExample(map, s, g) /\ e = Fresh(s)
              \/ \E o \in Range(map) : Compatible(Example(o), s, g) /\ e = Behind(o, s)
              \/ /\ ChangesExample(map, s, g)
                 /\ \E o \in Range(map) : Compatible(s, Example(o), g) /\ e = Before(o, s)
<1>1. CASE ChangesExample(map, s, g) /\ Placed(map, s, g) = <<Fresh(s)>> \o map
  <2> DEFINE f == <<Fresh(s)>>
  <2>1. f \in Seq(Entries) /\ f # <<>> /\ Range(f) = {Fresh(s)}
    BY FreshIs DEF Range
  <2> HIDE DEF f
  <2>2. f \o map \in Seq(Entries) /\ Range(f \o map) = Range(f) \cup Range(map)
    BY <2>1, HeadOfConcat
  <2>3. Placed(map, s, g) = f \o map
    BY <1>1 DEF f
  <2> QED
    BY <1>1, <2>1, <2>2, <2>3
<1>2. \A k \in DOMAIN map : map[k] \in Entries /\ map[k] \in Range(map)
  BY DEF Range
<1>3. ASSUME NEW k \in DOMAIN map, NEW e \in Entries, Placed(map, s, g) = Replaced(map, k, e)
      PROVE  Placed(map, s, g) \in Seq(Entries) /\ Range(Placed(map, s, g)) \subseteq Range(map) \cup {e}
  <2>1. Replaced(map, k, e) \in Seq(Entries) /\ Range(Replaced(map, k, e)) \subseteq Range(map) \cup {e}
    BY OneReplaced DEF Replaced
  <2> QED
    BY <1>3, <2>1
<1>4. ASSUME NEW k \in DOMAIN map, Compatible(Example(map[k]), s, g),
             Placed(map, s, g) = Replaced(map, k, Behind(map[k], s))
      PROVE  /\ Placed(map, s, g) \in Seq(Entries)
             /\ \A e \in Range(Placed(map, s, g)) :
                  e \in Range(map) \/ \E o \in Range(map) : Compatible(Example(o), s, g) /\ e = Behind(o, s)
  <2>1. Behind(map[k], s) \in Entries
    BY <1>2, JoinIs
  <2> QED
    BY <1>2, <1>3, <1>4, <2>1
<1>5. ASSUME NEW k \in DOMAIN map, Compatible(s, Example(map[k]), g),
             Placed(map, s, g) = Replaced(map, k, Before(map[k], s))
      PROVE  /\ Placed(map, s, g) \in Seq(Entries)
             /\ \A e \in Range(Placed(map, s, g)) :
                  e \in Range(map) \/ \E o \in Range(map) : Compatible(s, Example(o), g) /\ e = Before(o, s)
  <2>1. Before(map[k], s) \in Entries
    BY <1>2, LeadIs
  <2> QED
    BY <1>2, <1>3, <1>5, <2>1
<1> QED
  BY <1>1, <1>4, <1>5, PlacedCases

--------------------------------------------------------------------------------
(* What each call does to the entries.                                     *)

\* A sink that is put into the map where its gain and its formats fit.
LEMMA PlacedSound ==
  ASSUME NEW map \in Seq(Entries), NEW s \in Sink, NEW g, Sound(map, g)
  PROVE  Sound(Placed(map, s, g), g)
<1>1. SUFFICES ASSUME NEW e \in Range(Placed(map, s, g))
               PROVE  OfOneGain(e, g) /\ Agrees(e, g)
  BY DEF Sound
<1>2. \A o \in Range(map) : o \in Entries /\ OfOneGain(o, g) /\ Agrees(o, g)
  BY RangeOfSeq DEF Sound
<1>3. CASE e \in Range(map)
  BY <1>2, <1>3
<1>4. CASE e = Fresh(s)
  BY <1>4, FreshIs, CompatibleItself DEF OfOneGain, Agrees
<1>5. ASSUME NEW o \in Range(map), Compatible(Example(o), s, g), e = Behind(o, s)
      PROVE  OfOneGain(e, g) /\ Agrees(e, g)
  <2>1. Example(e) = Example(o) /\ Range(e.stack) = Range(o.stack) \cup {s} /\ e.cut = o.cut
    BY <1>2, <1>5, JoinIs
  <2>2. g[Example(o)] = g[s]
    BY <1>5 DEF Compatible
  <2> QED
    BY <1>2, <1>5, <2>1, <2>2 DEF OfOneGain, Agrees
<1>6. ASSUME NEW o \in Range(map), Compatible(s, Example(o), g), e = Before(o, s)
      PROVE  OfOneGain(e, g) /\ Agrees(e, g)
  <2>1. Example(e) = s /\ Range(e.stack) = Range(o.stack) \cup {s} /\ e.cut = o.cut
    BY <1>2, <1>6, LeadIs
  <2>2. g[Example(o)] = g[s]
    BY <1>6 DEF Compatible
  <2>3. OfOneGain(e, g)
    BY <1>2, <2>1, <2>2 DEF OfOneGain
  <2>4. ASSUME ~o.cut, NEW t \in Range(o.stack) PROVE Compatible(s, t, g)
    <3>1. Compatible(Example(o), t, g) /\ Example(o) \in Sink /\ t \in Sink
      BY <1>2, <2>4, ExampleHangs DEF Agrees
    <3> QED
      BY <1>6, <3>1, CompatibleCarries
  <2>5. Compatible(s, s, g)
    BY CompatibleItself
  <2> QED
    BY <2>1, <2>3, <2>4, <2>5 DEF Agrees
<1> QED
  BY <1>3, <1>4, <1>5, <1>6, PlacedIs

\* One that does not change an example leaves every branch what it should be.
LEMMA PlacedUpToDate ==
  ASSUME NEW map \in Seq(Entries), NEW s \in Sink, NEW g, UpToDate(map, g),
         ~ChangesExample(map, s, g)
  PROVE  UpToDate(Placed(map, s, g), g)
<1>1. SUFFICES ASSUME NEW e \in Range(Placed(map, s, g)) PROVE Current(e, g)
  BY DEF UpToDate
<1>2. \A o \in Range(map) : o \in Entries /\ Current(o, g)
  BY RangeOfSeq DEF UpToDate
<1>3. CASE e \in Range(map)
  BY <1>2, <1>3
<1>4. ASSUME NEW o \in Range(map), e = Behind(o, s) PROVE Current(e, g)
  <2>1. Example(e) = Example(o) /\ e.ctx = o.ctx /\ e.out = o.out /\ e.gain = o.gain /\ e.cut = o.cut
    BY <1>2, <1>4, JoinIs
  <2> QED
    BY <1>2, <2>1 DEF Current
<1> QED
  BY <1>3, <1>4, PlacedIs

\* Taking a sink out, whatever becomes of its own gain.
LEMMA WithoutSound ==
  ASSUME NEW map \in Seq(Entries), NEW s \in Sink, NEW g, NEW h, Sound(map, g),
         \A t \in Sink \ {s} : h[t] = g[t]
  PROVE  Sound(Without(map, s), h)
<1>1. SUFFICES ASSUME NEW e \in Range(Without(map, s)) PROVE OfOneGain(e, h) /\ Agrees(e, h)
  BY DEF Sound
<1>2. PICK o \in Range(map) : e = Unhang(o, s) /\ e.stack # <<>>
  BY WithoutLeaves
<1>3. o \in Entries /\ OfOneGain(o, g) /\ Agrees(o, g)
  BY RangeOfSeq DEF Sound
<1>4. /\ e \in Entries /\ Range(e.stack) = Range(o.stack) \ {s}
      /\ e.cut = (o.cut \/ Example(o) = s)
      /\ Example(o) # s => Example(e) = Example(o)
  BY <1>2, <1>3, UnhangLeaves
<1>5. Example(e) \in Range(e.stack) /\ Range(e.stack) \subseteq Sink
  BY <1>4, ExampleHangs
<1>6. \A t \in Range(e.stack) : t \in Range(o.stack) /\ h[t] = g[t]
  BY <1>4, <1>5
<1>7. \A t \in Range(e.stack) : g[t] = g[Example(o)]
  BY <1>3, <1>6 DEF OfOneGain
<1>8. OfOneGain(e, h)
  BY <1>5, <1>6, <1>7 DEF OfOneGain
<1>9. ASSUME ~e.cut, NEW t \in Range(e.stack) PROVE Compatible(Example(e), t, h)
  <2>1. ~o.cut /\ Example(e) = Example(o)
    BY <1>4, <1>9
  <2>2. Compatible(Example(e), t, g)
    BY <1>3, <1>6, <2>1 DEF Agrees
  <2>3. h[Example(e)] = g[Example(e)] /\ h[t] = g[t]
    BY <1>5, <1>6
  <2> QED
    BY <2>2, <2>3 DEF Compatible
<1> QED
  BY <1>8, <1>9 DEF Agrees

LEMMA WithoutUpToDate ==
  ASSUME NEW map \in Seq(Entries), NEW s \in Sink, NEW g, Sound(map, g), UpToDate(map, g)
  PROVE  UpToDate(Without(map, s), g)
<1>1. SUFFICES ASSUME NEW e \in Range(Without(map, s)) PROVE Current(e, g)
  BY DEF UpToDate
<1>2. PICK o \in Range(map) : e = Unhang(o, s) /\ e.stack # <<>>
  BY WithoutLeaves
<1>3. o \in Entries /\ OfOneGain(o, g) /\ Current(o, g)
  BY RangeOfSeq DEF Sound, UpToDate
<1>4. /\ e \in Entries /\ Range(e.stack) = Range(o.stack) \ {s}
      /\ e.ctx = o.ctx /\ e.out = o.out /\ e.gain = o.gain
      /\ e.cut = (o.cut \/ Example(o) = s)
      /\ Example(o) # s => Example(e) = Example(o)
  BY <1>2, <1>3, UnhangLeaves
<1>5. Example(e) \in Range(o.stack)
  BY <1>4, ExampleHangs
<1>6. g[Example(e)] = g[Example(o)]
  BY <1>3, <1>5 DEF OfOneGain
<1>7. ~e.cut => ~o.cut /\ Example(e) = Example(o)
  BY <1>4
<1> QED
  BY <1>3, <1>4, <1>6, <1>7 DEF Current

\* init_filter_graph touches of an entry only what its branch is.
LEMMA BranchesKeep ==
  ASSUME NEW map \in Seq(Entries), NEW src \in Source, gain \in [Sink -> Volumes]
  PROVE  /\ Branches(map, src) \in Seq(Entries)
         /\ \A e \in Range(Branches(map, src)) :
              \E o \in Range(map) : e.stack = o.stack /\ e.cut = o.cut
<1> DEFINE new == Branches(map, src)
<1>1. DOMAIN map = 1 .. Len(map) /\ Len(map) \in Nat /\ DOMAIN new = DOMAIN map
  BY DEF Branches
<1>2. ASSUME NEW k \in DOMAIN map
      PROVE  new[k] \in Entries /\ new[k].stack = map[k].stack /\ new[k].cut = map[k].cut
  <2> DEFINE o == map[k]
             out == {Delivered(Example(o), src)}
             gains == {gain[Example(o)]}
             ctx == IF o.ctx = "null" THEN "null" ELSE "freed"
  <2>1. o \in Entries
    BY <1>1
  <2>2. Example(o) \in Sink
    BY <2>1, ExampleHangs
  <2>3. out \in SUBSET Delivery /\ gains \in SUBSET Volumes /\ ctx \in {"null", "live", "freed"}
    BY <2>2 DEF Delivery
  <2>4. \/ new[k] = [o EXCEPT !.ctx = "live", !.out = out, !.gain = gains]
        \/ new[k] = [o EXCEPT !.ctx = ctx]
    BY DEF Branches
  <2> HIDE DEF new, o, out, gains, ctx
  <2>5. new[k] \in Entries /\ new[k].stack = o.stack /\ new[k].cut = o.cut
    BY <2>1, <2>3, <2>4 DEF Entries
  <2> QED
    BY <2>5 DEF o
<1> HIDE DEF new
<1>3. new \in Seq(Entries)
  <2>1. new = [k \in DOMAIN map |-> new[k]]
    BY <1>1 DEF new, Branches
  <2> DEFINE n == Len(map)
  <2>2. n \in Nat /\ DOMAIN map = 1 .. n
    BY <1>1
  <2> HIDE DEF n
  <2>3. new \in [1 .. n -> Entries]
    BY <1>2, <2>1, <2>2
  <2> QED
    BY <2>2, <2>3
<1> QED
  BY <1>1, <1>2, <1>3 DEF new, Range

LEMMA BranchesSound ==
  ASSUME NEW map \in Seq(Entries), NEW src \in Source, gain \in [Sink -> Volumes], NEW g,
         Sound(map, g)
  PROVE  Sound(Branches(map, src), g)
<1>1. ASSUME NEW e \in Range(Branches(map, src)) PROVE OfOneGain(e, g) /\ Agrees(e, g)
  <2>1. PICK o \in Range(map) : e.stack = o.stack /\ e.cut = o.cut
    BY BranchesKeep
  <2> QED
    BY <2>1 DEF Sound, OfOneGain, Agrees, Example
<1> QED
  BY <1>1 DEF Sound

\* With nothing in the way every branch is built.
LEMMA BranchesUpToDate ==
  ASSUME NEW map \in Seq(Entries), NEW src \in Source, Clashes(map, src) = {}
  PROVE  UpToDate(Branches(map, src), gain)
<1>1. ASSUME NEW k \in DOMAIN map PROVE Current(Branches(map, src)[k], gain)
  <2> DEFINE o == map[k]
             e == Branches(map, src)[k]
  <2>1. o \in Entries
    OBVIOUS
  <2>2. e = [o EXCEPT !.ctx = "live", !.out = {Delivered(Example(o), src)}, !.gain = {gain[Example(o)]}]
    BY DEF Branches
  <2> HIDE DEF o, e
  <2>3. /\ e.ctx = "live" /\ e.out = {Delivered(Example(o), src)} /\ e.gain = {gain[Example(o)]}
        /\ e.stack = o.stack
    BY <2>1, <2>2 DEF Entries
  <2>4. Example(e) = Example(o)
    BY <2>3 DEF Example
  <2>5. Current(e, gain)
    BY <2>3, <2>4 DEF Current
  <2> QED
    BY <2>5 DEF e
<1>2. DOMAIN Branches(map, src) = DOMAIN map
  BY DEF Branches
<1> QED
  BY <1>1, <1>2 DEF UpToDate, Range

--------------------------------------------------------------------------------
LEMMA MapInitInv == MapInit => MapInv
<1> SUFFICES ASSUME MapInit PROVE MapInv
  OBVIOUS
<1>1. sink_map \in Seq(Entries) /\ Range(sink_map) = {}
  BY DEF MapInit, Range
<1>2. gain \in [Sink -> Volumes]
  BY DEF MapInit, Volumes
<1>3. rebuild \in BOOLEAN /\ built_for \in {{}} \cup {{src} : src \in Source}
  BY DEF MapInit
<1>4. graph \in {"none", "failed", "configured"} /\ turn \in {"none", "sent", "skipped", "stale"}
  BY DEF MapInit
<1> QED
  BY <1>1, <1>2, <1>3, <1>4 DEF MapInv, MapTypeOK, Sound, UpToDate

LEMMA MapNextInv == MapInv /\ [MapNext]_map_vars => MapInv'
<1> SUFFICES ASSUME MapInv, [MapNext]_map_vars PROVE MapInv'
  OBVIOUS
<1>1. MapTypeOK /\ Sound(sink_map, gain) /\ (Ready => UpToDate(sink_map, gain))
  BY DEF MapInv
<1>2. sink_map \in Seq(Entries) /\ gain \in [Sink -> Volumes] /\ rebuild \in BOOLEAN
  BY <1>1 DEF MapTypeOK
<1>3. ASSUME NEW s \in Sink, Attach(s) PROVE MapInv'
  <2>1. /\ sink_map' = Placed(sink_map, s, gain) /\ gain' = gain
        /\ rebuild' = (rebuild \/ ChangesExample(sink_map, s, gain))
        /\ graph' = graph /\ built_for' = built_for /\ turn' = turn
    BY <1>3 DEF Attach
  <2>2. sink_map' \in Seq(Entries)
    BY <1>2, <2>1, PlacedIs
  <2>3. Sound(sink_map', gain')
    BY <1>1, <1>2, <2>1, PlacedSound
  <2>4. ASSUME Ready' PROVE UpToDate(sink_map', gain')
    <3>1. Ready /\ ~ChangesExample(sink_map, s, gain)
      BY <2>1, <2>4 DEF Ready
    <3> QED
      BY <1>1, <1>2, <2>1, <3>1, PlacedUpToDate
  <2>5. MapTypeOK'
    <3>1. rebuild' \in BOOLEAN
      BY <1>2, <2>1
    <3> QED
      BY <1>1, <2>1, <2>2, <3>1 DEF MapTypeOK
  <2> QED
    BY <2>3, <2>4, <2>5 DEF MapInv
<1>4. ASSUME NEW s \in Sink, Detach(s) PROVE MapInv'
  <2>1. /\ sink_map' = Without(sink_map, s) /\ gain' = gain /\ rebuild' = rebuild
        /\ graph' = graph /\ built_for' = built_for /\ turn' = turn
    BY <1>4 DEF Detach
  <2>2. sink_map' \in Seq(Entries)
    BY <1>2, <2>1, WithoutLeaves
  <2>3. Sound(sink_map', gain')
    BY <1>1, <1>2, <2>1, WithoutSound
  <2>4. ASSUME Ready' PROVE UpToDate(sink_map', gain')
    <3>1. Ready
      BY <2>1, <2>4 DEF Ready
    <3> QED
      BY <1>1, <1>2, <2>1, <3>1, WithoutUpToDate
  <2>5. MapTypeOK'
    BY <1>1, <2>1, <2>2 DEF MapTypeOK
  <2> QED
    BY <2>3, <2>4, <2>5 DEF MapInv
<1>5. ASSUME NEW s \in Sink, NEW n \in Gains, SetGain(s, n) PROVE MapInv'
  <2> DEFINE map == Without(sink_map, s)
             g == [gain EXCEPT ![s] = n]
  <2>1. /\ sink_map' = Placed(map, s, g) /\ gain' = g /\ rebuild' = TRUE
        /\ graph' = graph /\ built_for' = built_for /\ turn' = turn
    BY <1>5 DEF SetGain
  <2>2. map \in Seq(Entries)
    BY <1>2, WithoutLeaves
  <2>3. g \in [Sink -> Volumes] /\ \A t \in Sink \ {s} : g[t] = gain[t]
    BY <1>2 DEF Volumes
  <2> HIDE DEF g
  <2>4. Sound(map, g)
    BY <1>1, <1>2, <2>3, WithoutSound
  <2> HIDE DEF map
  <2>5. sink_map' \in Seq(Entries)
    BY <2>1, <2>2, PlacedIs
  <2>6. Sound(sink_map', gain')
    BY <2>1, <2>2, <2>4, PlacedSound
  <2>7. ~Ready'
    BY <2>1 DEF Ready
  <2>8. MapTypeOK'
    BY <1>1, <2>1, <2>3, <2>5 DEF MapTypeOK
  <2> QED
    BY <2>6, <2>7, <2>8 DEF MapInv
<1>6. ASSUME NEW src \in Source, Build(src) PROVE MapInv'
  <2>1. /\ sink_map' = Branches(sink_map, src) /\ gain' = gain /\ built_for' = {src}
        /\ IF Clashes(sink_map, src) = {}
           THEN graph' = "configured" /\ rebuild' = FALSE /\ turn' = "sent"
           ELSE graph' = "failed" /\ rebuild' = rebuild /\ turn' = "skipped"
    BY <1>6 DEF Build
  <2>2. sink_map' \in Seq(Entries)
    BY <1>2, <2>1, BranchesKeep
  <2>3. Sound(sink_map', gain')
    BY <1>1, <1>2, <2>1, BranchesSound
  <2>4. ASSUME Ready' PROVE UpToDate(sink_map', gain')
    <3>1. Clashes(sink_map, src) = {}
      BY <2>1, <2>4 DEF Ready
    <3> QED
      BY <1>2, <2>1, <3>1, BranchesUpToDate
  <2>5. MapTypeOK'
    <3>1. rebuild' \in BOOLEAN /\ turn' \in {"sent", "skipped"} /\ graph' \in {"failed", "configured"}
      BY <1>2, <2>1
    <3>2. built_for' \in {{s} : s \in Source}
      BY <2>1
    <3> QED
      BY <1>2, <2>1, <2>2, <3>1, <3>2 DEF MapTypeOK
  <2> QED
    BY <2>3, <2>4, <2>5 DEF MapInv
<1>7. ASSUME NEW src \in Source, Send(src) PROVE MapInv'
  <2>1. /\ sink_map' = sink_map /\ gain' = gain /\ rebuild' = rebuild /\ graph' = graph
        /\ built_for' = built_for /\ turn' \in {"sent", "stale"}
    BY <1>7 DEF Send
  <2> QED
    BY <1>1, <2>1 DEF MapInv, MapTypeOK, Sound, UpToDate, Ready, OfOneGain, Agrees, Current
<1>8. CASE UNCHANGED map_vars
  BY <1>1, <1>8 DEF map_vars, MapInv, MapTypeOK, Sound, UpToDate, Ready, OfOneGain, Agrees, Current
<1> QED
  BY <1>3, <1>4, <1>5, <1>6, <1>7, <1>8 DEF MapNext

THEOREM MapInvariant == MapSpec => []MapInv
BY MapInitInv, MapNextInv, PTL DEF MapSpec

(***************************************************************************)
(* When the decoder would use the filter graph as it is, every entry of the *)
(* map has a branch in it, built at the gain of every sink on the entry:    *)
(* for all sinks, whatever they ask for, sources and gains.                *)
(***************************************************************************)
THEOREM BranchesAlwaysCurrent == MapSpec => []BranchesCurrent
<1>1. MapInv => BranchesCurrent
  <2>1. SUFFICES ASSUME MapInv, Ready, NEW e \in Range(sink_map)
                 PROVE  e.ctx = "live" /\ \A s \in Range(e.stack) : e.gain = {gain[s]}
    BY DEF BranchesCurrent, MapInv
  <2>2. Current(e, gain) /\ OfOneGain(e, gain)
    BY <2>1 DEF MapInv, UpToDate, Sound
  <2> QED
    BY <2>2 DEF Current, OfOneGain
<1> QED
  BY <1>1, MapInvariant, PTL

(***************************************************************************)
(* Frames come out of contexts of another graph than the one they were sent *)
(* into only after a build that failed half-way.                           *)
(***************************************************************************)
THEOREM StaleOnlyAfterFailure == MapSpec => []NeverStale
<1>1. MapInit => NeverStale
  BY DEF MapInit, NeverStale
<1>2. MapInv /\ NeverStale /\ [MapNext]_map_vars => NeverStale'
  <2> SUFFICES ASSUME MapInv, NeverStale, [MapNext]_map_vars PROVE NeverStale'
    OBVIOUS
  <2>1. graph \in {"none", "failed", "configured"}
    BY DEF MapInv, MapTypeOK
  <2>2. ASSUME NEW src \in Source, Send(src) PROVE NeverStale'
    <3>1. graph # "none" /\ ~rebuild /\ graph' = graph
      BY <2>2 DEF Send, MustBuild
    <3>2. ASSUME graph = "configured" PROVE turn' = "sent"
      <4>1. \A e \in Range(sink_map) : e.ctx = "live"
        BY <3>1, <3>2 DEF MapInv, Ready, UpToDate, Current
      <4> QED
        BY <2>2, <3>2, <4>1 DEF Send
    <3> QED
      BY <2>1, <3>1, <3>2 DEF NeverStale
  <2>3. ASSUME NEW src \in Source, Build(src) PROVE NeverStale'
    BY <2>3 DEF Build, NeverStale
  <2>4. CASE \E s \in Sink : Attach(s) \/ Detach(s) \/ \E n \in Gains : SetGain(s, n)
    BY <2>4 DEF Attach, Detach, SetGain, NeverStale
  <2>5. CASE UNCHANGED map_vars
    BY <2>5 DEF map_vars, NeverStale
  <2> QED
    BY <2>2, <2>3, <2>4, <2>5 DEF MapNext
<1> QED
  BY <1>1, <1>2, MapInvariant, PTL DEF MapSpec

(***************************************************************************)
(* What sink_formats_compatible takes for granted of the flags, whose       *)
(* comparison it gets wrong: a sink that would hang behind another takes    *)
(* planar or interleaved where the other does.                             *)
(***************************************************************************)
FlagsFollow ==
  \A s, t \in Sink : \A g \in [Sink -> Volumes] : Compatible(s, t, g) => Flags(s) \subseteq Flags(t)

\* What the application owes: the values to convert to are ones the sink takes.
\* ("This should point to one of GrooveSink::channel_layouts", groove.h:280; of
\* rates and formats nothing is said, and groove_sink_set_only_format does it.)
DefaultsAccepted == \A s \in Sink : \A d \in Dimension : Accepts(s, d, Wants[s].default[d])

\* The branch made for a sink delivers what the sink takes.
LEMMA DeliveredAccepted ==
  ASSUME NEW s \in Sink, NEW src \in Source, DefaultsAccepted
  PROVE  /\ Delivered(s, src).planar \in Flags(s)
         /\ \A d \in Dimension : Accepts(s, d, Delivered(s, src).value[d])
<1>1. Flags(s) # {}
  BY DEF Flags
<1> QED
  BY <1>1 DEF Delivered, DefaultsAccepted

(***************************************************************************)
(* Every sink gets what it asked for: the branch of its entry delivers      *)
(* rates, formats and layouts that it takes, planar or not as it asks, with *)
(* its sample count and at its gain, whatever it is that it hangs behind,   *)
(* until the example of the entry is taken away.                           *)
(***************************************************************************)
THEOREM SinksServed ==
  ASSUME FlagsFollow, DefaultsAccepted
  PROVE  MapSpec => []EverySinkServed
<1>1. MapInv => EverySinkServed
  <2>1. SUFFICES ASSUME MapInv, Ready, NEW e \in Range(sink_map), ~e.cut, NEW s \in Range(e.stack)
                 PROVE  Serves(e, s)
    BY DEF EverySinkServed
  <2> DEFINE x == Example(e)
  <2>2. e \in Entries /\ gain \in [Sink -> Volumes]
    BY <2>1, RangeOfSeq DEF MapInv, MapTypeOK
  <2>3. x \in Sink /\ s \in Sink
    BY <2>1, <2>2, ExampleHangs
  <2>4. Current(e, gain) /\ OfOneGain(e, gain) /\ Compatible(x, s, gain)
    BY <2>1 DEF MapInv, Sound, UpToDate, Agrees
  <2>5. Flags(x) \subseteq Flags(s)
    BY <2>2, <2>3, <2>4 DEF FlagsFollow
  <2>6. ASSUME NEW b \in e.out
        PROVE  b.planar \in Flags(s) /\ \A d \in Dimension : Accepts(s, d, b.value[d])
    <3>1. PICK src \in Source : b = Delivered(x, src)
      BY <2>1, <2>4 DEF Current
    <3>2. b.planar \in Flags(x) /\ \A d \in Dimension : Accepts(x, d, b.value[d])
      BY <2>3, <3>1, DeliveredAccepted
    <3>3. ASSUME NEW d \in Dimension PROVE Accepts(s, d, b.value[d])
      <4>1. ListCompatible(x, s, d)
        BY <2>4 DEF Compatible
      <4> QED
        BY <2>3, <3>2, <4>1, SupportsCarries DEF Accepts
    <3> QED
      BY <2>5, <3>2, <3>3
  <2>7. e.ctx = "live" /\ e.gain = {gain[s]}
    BY <2>1, <2>4 DEF Current, OfOneGain
  <2>8. Wants[s].count \in {0, Wants[x].count}
    BY <2>4 DEF Compatible
  <2> QED
    BY <2>6, <2>7, <2>8 DEF Serves
<1> QED
  BY <1>1, MapInvariant, PTL

--------------------------------------------------------------------------------
(* FlattenSeq: its recursion is well defined, and one more sequence at the   *)
(* end comes after the others.                                             *)

FlatStep(f, s, n) == IF n = 1 THEN s[n] ELSE f[n - 1] \o s[n]

Flattened(s) == LET flatten[i \in 1 .. Len(s)] == IF i = 1 THEN s[i] ELSE flatten[i - 1] \o s[i]
                IN  flatten

LEMMA FlatDef ==
  ASSUME NEW T, NEW s \in Seq(T)
  PROVE  \A n \in 1 .. Len(s) : Flattened(s)[n] = FlatStep(Flattened(s), s, n)
<1> DEFINE Upto(n, f) == f = [m \in 1 .. n |-> FlatStep(f, s, m)]
           L == {n \in Nat : \E f : Upto(n, f)}
<1>1. 0 \in L
  <2> DEFINE f == [m \in 1 .. 0 |-> <<>>]
  <2>1. Upto(0, f)
    OBVIOUS
  <2> QED
    BY <2>1
<1>2. ASSUME NEW n \in L PROVE n + 1 \in L
  <2>1. PICK f : Upto(n, f)
    BY <1>2
  <2> DEFINE g == [m \in 1 .. n + 1 |-> IF m = n + 1 THEN FlatStep(f, s, m) ELSE f[m]]
  <2>2. ASSUME NEW m \in 1 .. n + 1 PROVE g[m] = FlatStep(g, s, m)
    <3>1. CASE m = n + 1
      <4>1. m # 1 => m - 1 \in 1 .. n + 1 /\ m - 1 # n + 1
        BY <3>1
      <4>2. m # 1 => g[m - 1] = f[m - 1]
        BY <4>1
      <4>3. g[m] = FlatStep(f, s, m)
        BY <3>1
      <4> HIDE DEF g
      <4> QED
        BY <4>2, <4>3 DEF FlatStep
    <3>2. CASE m # n + 1
      <4>1. m \in 1 .. n /\ g[m] = f[m] /\ f[m] = FlatStep(f, s, m)
        <5>1. m \in 1 .. n
          BY <3>2
        <5>2. g[m] = f[m]
          BY <3>2
        <5> HIDE DEF g
        <5>3. f[m] = FlatStep(f, s, m)
          BY <5>1, <2>1
        <5> QED
          BY <5>1, <5>2, <5>3
      <4>2. m # 1 => m - 1 \in 1 .. n + 1 /\ m - 1 # n + 1
        BY <4>1
      <4>3. m # 1 => g[m - 1] = f[m - 1]
        BY <4>2
      <4> HIDE DEF g
      <4> QED
        BY <4>1, <4>3 DEF FlatStep
    <3> QED
      BY <3>1, <3>2
  <2>3. Upto(n + 1, g)
    BY <2>2
  <2>4. n + 1 \in Nat
    OBVIOUS
  <2> HIDE DEF g
  <2> QED
    BY <2>3, <2>4
<1>3. L = Nat
  <2>1. L \in SUBSET Nat
    OBVIOUS
  <2> HIDE DEF L
  <2> QED
    BY <1>1, <1>2, <2>1, NatInd
<1>4. PICK f : Upto(Len(s), f)
  BY <1>3
<1>5. Flattened(s) = CHOOSE g : g = [m \in 1 .. Len(s) |-> FlatStep(g, s, m)]
  BY DEF Flattened, FlatStep
<1>6. Upto(Len(s), Flattened(s))
  BY <1>4, <1>5
<1> QED
  BY <1>6

LEMMA FlatIs ==
  ASSUME NEW T, NEW s \in Seq(T), s # <<>>
  PROVE  FlattenSeq(s) = Flattened(s)[Len(s)]
<1>1. Len(s) # 0
  OBVIOUS
<1> QED
  BY <1>1 DEF FlattenSeq, Flattened

LEMMA FlatEmpty == FlattenSeq(<<>>) = <<>>
<1>1. Len(<<>>) = 0
  OBVIOUS
<1> QED
  BY <1>1 DEF FlattenSeq

LEMMA FlatAppend ==
  ASSUME NEW T, NEW s \in Seq(Seq(T)), NEW x \in Seq(T)
  PROVE  FlattenSeq(Append(s, x)) = Cat(FlattenSeq(s), x)
<1> DEFINE t == Append(s, x)
<1>1. /\ t \in Seq(Seq(T)) /\ t # <<>> /\ Len(t) = Len(s) + 1 /\ t[Len(s) + 1] = x
      /\ \A n \in 1 .. Len(s) : t[n] = s[n]
  BY AppendProperties
<1>2. \A n \in 1 .. Len(s) : Flattened(s)[n] = FlatStep(Flattened(s), s, n)
  BY FlatDef
<1> HIDE DEF t
<1>3. \A n \in 1 .. Len(t) : Flattened(t)[n] = FlatStep(Flattened(t), t, n)
  BY <1>1, FlatDef
<1>4. Len(s) \in Nat
  OBVIOUS
<1> DEFINE L == {n \in Nat : n + 1 <= Len(s) => Flattened(t)[n + 1] = Flattened(s)[n + 1]}
<1>5. 0 \in L
  <2>1. SUFFICES ASSUME 1 <= Len(s) PROVE Flattened(t)[1] = Flattened(s)[1]
    OBVIOUS
  <2>2. 1 \in 1 .. Len(s) /\ 1 \in 1 .. Len(t)
    BY <1>1, <1>4, <2>1
  <2> QED
    BY <2>2, <1>1, <1>2, <1>3 DEF FlatStep
<1>6. ASSUME NEW n \in L PROVE n + 1 \in L
  <2> DEFINE k == n + 2
  <2>1. SUFFICES ASSUME k <= Len(s) PROVE Flattened(t)[k] = Flattened(s)[k]
    OBVIOUS
  <2>2. Flattened(t)[n + 1] = Flattened(s)[n + 1]
    BY <2>1, <1>4
  <2>3. k \in 1 .. Len(s) /\ k \in 1 .. Len(t) /\ k # 1 /\ k - 1 = n + 1
    BY <2>1, <1>1, <1>4
  <2> HIDE DEF k
  <2> QED
    BY <2>2, <2>3, <1>1, <1>2, <1>3 DEF FlatStep
<1>7. L = Nat
  <2>1. L \in SUBSET Nat
    OBVIOUS
  <2> HIDE DEF L
  <2> QED
    BY <1>5, <1>6, <2>1, NatInd
<1>8. FlattenSeq(t) = FlatStep(Flattened(t), t, Len(t))
  <2>1. Len(t) \in 1 .. Len(t)
    BY <1>1, <1>4
  <2> QED
    BY <1>1, <1>3, <2>1, FlatIs
<1>9. CASE s = <<>>
  <2>1. Len(t) = 1 /\ FlattenSeq(t) = x /\ FlattenSeq(s) = <<>>
    BY <1>1, <1>8, <1>9, FlatEmpty DEF FlatStep
  <2>2. Cat(<<>>, x) = x
    BY CatIs
  <2> QED
    BY <2>1, <2>2 DEF t
<1>10. CASE s # <<>>
  <2> DEFINE m == Len(s) - 1
  <2>1. m \in Nat /\ m + 1 = Len(s)
    BY <1>4, <1>10
  <2> HIDE DEF m
  <2>2. Flattened(t)[Len(s)] = Flattened(s)[Len(s)]
    <3> HIDE DEF L
    <3>1. m \in L /\ m + 1 <= Len(s)
      BY <1>7, <2>1, <1>4
    <3> USE DEF L
    <3>2. Flattened(t)[m + 1] = Flattened(s)[m + 1]
      BY <3>1
    <3> QED
      BY <2>1, <3>2
  <2>3. Len(t) # 1 /\ Len(t) - 1 = Len(s)
    BY <1>1, <1>4, <1>10, <2>1
  <2>4. FlattenSeq(t) = Flattened(s)[Len(s)] \o x
    BY <1>1, <1>8, <2>2, <2>3 DEF FlatStep
  <2>5. FlattenSeq(s) = Flattened(s)[Len(s)]
    BY <1>10, FlatIs
  <2> QED
    BY <2>4, <2>5 DEF t, Cat
<1> QED
  BY <1>9, <1>10

--------------------------------------------------------------------------------
(* The order in which the sinks are visited: stack after stack.            *)

Stacks(map) == [k \in DOMAIN map |-> map[k].stack]

LEMMA VisitedEmpty == Visited(<<>>) = <<>>
<1>1. Stacks(<<>>) = <<>>
  BY DEF Stacks
<1> QED
  BY <1>1, FlatEmpty DEF Visited, Stacks

LEMMA VisitedAppend ==
  ASSUME NEW map \in Seq(Entries), NEW e \in Entries
  PROVE  Visited(Append(map, e)) = Cat(Visited(map), e.stack)
<1> DEFINE s == Stacks(map)
           x == e.stack
           t == Stacks(Append(map, e))
           n == Len(map)
<1>1. n \in Nat /\ DOMAIN map = 1 .. n
  OBVIOUS
<1>2. \A o \in Entries : o.stack \in Seq(Sink)
  BY DEF Entries
<1>3. x \in Seq(Sink) /\ \A k \in 1 .. n : map[k].stack \in Seq(Sink)
  BY <1>1, <1>2
<1>4. s \in Seq(Seq(Sink)) /\ Len(s) = n /\ \A k \in 1 .. n : s[k] = map[k].stack
  <2> HIDE DEF n
  <2>1. s \in [1 .. n -> Seq(Sink)] /\ \A k \in 1 .. n : s[k] = map[k].stack
    BY <1>1, <1>3 DEF Stacks
  <2> HIDE DEF s
  <2> QED
    BY <1>1, <2>1
<1>5. /\ DOMAIN Append(map, e) = 1 .. n + 1
      /\ Append(map, e)[n + 1] = e
      /\ \A k \in 1 .. n : Append(map, e)[k] = map[k]
  BY <1>1
<1>6. t \in Seq(Seq(Sink)) /\ Len(t) = n + 1 /\ \A k \in 1 .. n + 1 : t[k] = Append(map, e)[k].stack
  <2>1. \A k \in 1 .. n + 1 : Append(map, e)[k].stack \in Seq(Sink)
    <3>1. \A k \in 1 .. n + 1 : k = n + 1 \/ k \in 1 .. n
      BY <1>1
    <3> QED
      BY <1>2, <1>3, <1>5, <3>1
  <2>2. t \in [1 .. n + 1 -> Seq(Sink)] /\ \A k \in 1 .. n + 1 : t[k] = Append(map, e)[k].stack
    BY <1>5, <2>1 DEF Stacks
  <2> DEFINE p == n + 1
  <2>3. p \in Nat
    BY <1>1
  <2> HIDE DEF t, n, p
  <2>4. t \in [1 .. p -> Seq(Sink)]
    BY <2>2 DEF p
  <2>5. t \in Seq(Seq(Sink)) /\ Len(t) = p
    BY <2>3, <2>4
  <2> QED
    BY <2>2, <2>5 DEF p
<1> HIDE DEF s, t, n, x
<1> DEFINE u == Append(s, x)
<1>7. u \in Seq(Seq(Sink)) /\ Len(u) = n + 1 /\ u[n + 1] = x /\ \A k \in 1 .. n : u[k] = s[k]
  BY <1>3, <1>4, AppendProperties
<1> HIDE DEF u
<1>8. ASSUME NEW k \in 1 .. n + 1 PROVE t[k] = u[k]
  <2>1. t[k] = Append(map, e)[k].stack
    BY <1>6
  <2>2. CASE k = n + 1
    BY <2>1, <2>2, <1>5, <1>7 DEF x
  <2>3. CASE k # n + 1
    <3>1. k \in 1 .. n
      BY <1>1, <2>3 DEF n
    <3> QED
      BY <2>1, <3>1, <1>4, <1>5, <1>7
  <2> QED
    BY <2>2, <2>3
<1>9. t = u
  BY <1>6, <1>7, <1>8, SeqEqual
<1>10. FlattenSeq(u) = Cat(FlattenSeq(s), x)
  BY <1>3, <1>4, FlatAppend DEF u
<1> QED
  BY <1>9, <1>10 DEF s, t, x, Visited, Stacks

LEMMA VisitedType ==
  ASSUME NEW map \in Seq(Entries)
  PROVE  Visited(map) \in Seq(Sink)
<1> DEFINE P == {m \in Seq(Entries) : Visited(m) \in Seq(Sink)}
<1>1. <<>> \in P
  <2>1. <<>> \in Seq(Entries) /\ <<>> \in Seq(Sink)
    OBVIOUS
  <2> QED
    BY <2>1, VisitedEmpty
<1>2. ASSUME NEW m \in P, NEW e \in Entries PROVE Append(m, e) \in P
  <2>1. e.stack \in Seq(Sink)
    BY DEF Entries
  <2>2. m \in Seq(Entries) /\ Visited(m) \in Seq(Sink)
    OBVIOUS
  <2> HIDE DEF P
  <2>3. Cat(Visited(m), e.stack) \in Seq(Sink)
    BY <2>1, <2>2, CatIs
  <2>4. Append(m, e) \in Seq(Entries)
    BY <2>2, AppendProperties
  <2> QED
    BY <2>2, <2>3, <2>4, VisitedAppend DEF P
<1>3. P = Seq(Entries)
  <2>1. P \in SUBSET Seq(Entries)
    OBVIOUS
  <2> HIDE DEF P
  <2> QED
    BY <1>1, <1>2, <2>1, SeqInd
<1> QED
  BY <1>3

(***************************************************************************)
(* v is u with the sink s put somewhere in it.                              *)
(***************************************************************************)
Adds(u, v, s) ==
  Minus(u, s) = Minus(v, s) /\ Len(v) = Len(u) + 1 /\ Range(v) = Range(u) \cup {s}

LEMMA AddsAround ==
  ASSUME NEW u \in Seq(Sink), NEW v \in Seq(Sink), NEW w \in Seq(Sink), NEW s \in Sink, Adds(u, v, s)
  PROVE  Adds(Cat(w, u), Cat(w, v), s) /\ Adds(Cat(u, w), Cat(v, w), s)
<1> DEFINE R == Sink \ {s}
<1>1. Keep(u, R) = Keep(v, R) /\ Len(v) = Len(u) + 1 /\ Range(v) = Range(u) \cup {s}
  BY DEF Adds, Minus
<1> HIDE DEF R
<1>2. Len(u) \in Nat /\ Len(w) \in Nat
  OBVIOUS
<1>3. Keep(Cat(w, u), R) = Keep(Cat(w, v), R) /\ Keep(Cat(u, w), R) = Keep(Cat(v, w), R)
  BY <1>1, KeepCat
<1>4. /\ Len(Cat(w, u)) = Len(w) + Len(u) /\ Len(Cat(w, v)) = Len(w) + Len(v)
      /\ Len(Cat(u, w)) = Len(u) + Len(w) /\ Len(Cat(v, w)) = Len(v) + Len(w)
  BY CatLen
<1>5. Len(Cat(w, v)) = Len(Cat(w, u)) + 1 /\ Len(Cat(v, w)) = Len(Cat(u, w)) + 1
  BY <1>1, <1>2, <1>4
<1>6. /\ Range(Cat(w, u)) = Range(w) \cup Range(u) /\ Range(Cat(w, v)) = Range(w) \cup Range(v)
      /\ Range(Cat(u, w)) = Range(u) \cup Range(w) /\ Range(Cat(v, w)) = Range(v) \cup Range(w)
  BY CatIs
<1>7. Range(Cat(w, v)) = Range(Cat(w, u)) \cup {s} /\ Range(Cat(v, w)) = Range(Cat(u, w)) \cup {s}
  BY <1>1, <1>6
<1> QED
  BY <1>3, <1>5, <1>7 DEF Adds, Minus, R

LEMMA OneAdds ==
  ASSUME NEW s \in Sink
  PROVE  Adds(<<>>, <<s>>, s)
<1> DEFINE h == Append(<<>>, s)
           R == Sink \ {s}
<1>1. <<>> \in Seq(Sink) /\ s \notin R
  OBVIOUS
<1>2. Keep(h, R) = IF s \in R THEN Append(Keep(<<>>, R), s) ELSE Keep(<<>>, R)
  BY <1>1, KeepAppend
<1>3. Keep(h, R) = Keep(<<>>, R)
  BY <1>1, <1>2
<1>4. h = <<s>> /\ Len(<<s>>) = 1 /\ Len(<<>>) = 0 /\ Range(<<s>>) = {s} /\ Range(<<>>) = {}
  BY DEF Range
<1> QED
  BY <1>3, <1>4 DEF Adds, Minus

LEMMA InsertAdds ==
  ASSUME NEW q \in Seq(Sink), q # <<>>, NEW s \in Sink
  PROVE  Adds(q, InsertAt(q, 1, s), s) /\ Adds(q, InsertAt(q, 2, s), s)
<1> DEFINE h == <<Head(q)>>
           m == <<s>>
           r == Tail(q)
           none == <<>>
<1>1. h \in Seq(Sink) /\ m \in Seq(Sink) /\ r \in Seq(Sink) /\ none \in Seq(Sink)
  OBVIOUS
<1>2. Adds(none, m, s)
  BY OneAdds
<1>3. InsertAt(q, 1, s) = Cat(m, q)
  BY InsertFirst DEF Cat
<1>4. InsertAt(q, 2, s) = Cat(Cat(h, m), r) /\ q = Cat(h, r)
  BY InsertSecondIs DEF Cat
<1>5. Cat(none, q) = q /\ Cat(h, none) = h
  BY <1>1, CatIs
<1> HIDE DEF h, m, r, none
<1>6. Adds(Cat(none, q), Cat(m, q), s)
  BY <1>1, <1>2, AddsAround
<1>7. Adds(Cat(h, none), Cat(h, m), s)
  BY <1>1, <1>2, AddsAround
<1>8. Cat(h, m) \in Seq(Sink)
  BY <1>1, CatIs
<1>9. Adds(Cat(h, r), Cat(Cat(h, m), r), s)
  BY <1>1, <1>5, <1>7, <1>8, AddsAround
<1> QED
  BY <1>3, <1>4, <1>5, <1>6, <1>9

\* One entry for another that has one sink more.
LEMMA ReplacedIs ==
  ASSUME NEW m \in Seq(Entries), NEW j \in 1 .. Len(m), NEW e \in Entries
  PROVE  /\ Replaced(m, j, e) \in Seq(Entries) /\ Len(Replaced(m, j, e)) = Len(m)
         /\ \A i \in 1 .. Len(m) : Replaced(m, j, e)[i] = IF i = j THEN e ELSE m[i]
  BY ExceptSeq DEF Replaced

LEMMA ReplacedAppend ==
  ASSUME NEW m \in Seq(Entries), NEW x \in Entries, NEW e \in Entries
  PROVE  /\ Replaced(Append(m, x), Len(m) + 1, e) = Append(m, e)
         /\ \A j \in 1 .. Len(m) : Replaced(Append(m, x), j, e) = Append(Replaced(m, j, e), x)
<1> DEFINE n == Len(m)
           t == Append(m, x)
           last == n + 1
<1>1. n \in Nat /\ last \in 1 .. last /\ \A i \in 1 .. last : i = last \/ i \in 1 .. n
  OBVIOUS
<1>2. /\ t \in Seq(Entries) /\ Len(t) = last /\ t[last] = x
      /\ \A i \in 1 .. n : t[i] = m[i] /\ i \in 1 .. last /\ i # last
  BY AppendProperties
<1> DEFINE u == Replaced(t, last, e)
           v == Append(m, e)
<1>3. v \in Seq(Entries) /\ Len(v) = last /\ v[last] = e /\ \A i \in 1 .. n : v[i] = m[i]
  BY AppendProperties
<1> HIDE DEF t, v, last
<1>4. /\ u \in Seq(Entries) /\ Len(u) = last
      /\ \A i \in 1 .. last : u[i] = IF i = last THEN e ELSE t[i]
  <2>1. t \in Seq(Entries) /\ last \in 1 .. Len(t)
    BY <1>1, <1>2
  <2>2. /\ u \in Seq(Entries) /\ Len(u) = Len(t)
        /\ \A i \in 1 .. Len(t) : u[i] = IF i = last THEN e ELSE t[i]
    BY <2>1, ReplacedIs
  <2> HIDE DEF u
  <2> QED
    BY <2>2, <1>2
<1> HIDE DEF u, n
<1>5. \A i \in 1 .. last : u[i] = v[i]
  BY <1>1, <1>2, <1>3, <1>4
<1>6. u = v
  BY <1>3, <1>4, <1>5, SeqEqual
<1>7. ASSUME NEW j \in 1 .. n PROVE Replaced(t, j, e) = Append(Replaced(m, j, e), x)
  <2> DEFINE a == Replaced(t, j, e)
             b == Replaced(m, j, e)
             c == Append(b, x)
  <2>1. j \in 1 .. last /\ j # last
    BY <1>2
  <2>2. a \in Seq(Entries) /\ Len(a) = last /\ \A i \in 1 .. last : a[i] = IF i = j THEN e ELSE t[i]
    <3>1. t \in Seq(Entries) /\ j \in 1 .. Len(t)
      BY <1>2, <2>1
    <3>2. /\ a \in Seq(Entries) /\ Len(a) = Len(t)
          /\ \A i \in 1 .. Len(t) : a[i] = IF i = j THEN e ELSE t[i]
      BY <3>1, ReplacedIs
    <3> HIDE DEF a
    <3> QED
      BY <3>2, <1>2
  <2>3. b \in Seq(Entries) /\ Len(b) = n /\ \A i \in 1 .. n : b[i] = IF i = j THEN e ELSE m[i]
    BY ReplacedIs DEF n
  <2> HIDE DEF a, b
  <2>4. c \in Seq(Entries) /\ Len(c) = n + 1 /\ c[n + 1] = x /\ \A i \in 1 .. n : c[i] = b[i]
    BY <2>3, AppendProperties
  <2> HIDE DEF c
  <2>5. Len(c) = last /\ c[last] = x
    BY <2>4 DEF last
  <2>6. \A i \in 1 .. last : a[i] = c[i]
    <3>1. ASSUME NEW i \in 1 .. n PROVE a[i] = c[i]
      BY <1>2, <2>2, <2>3, <2>4
    <3>2. a[last] = c[last]
      BY <1>1, <1>2, <2>1, <2>2, <2>5
    <3> QED
      BY <1>1, <3>1, <3>2
  <2>7. a = c
    BY <2>2, <2>4, <2>5, <2>6, SeqEqual
  <2> QED
    BY <2>7 DEF a, b, c
<1> QED
  BY <1>6, <1>7 DEF u, v, t, last, n

LEMMA ReplacedAdds ==
  ASSUME NEW map \in Seq(Entries), NEW k \in DOMAIN map, NEW e \in Entries, NEW s \in Sink,
         Adds(map[k].stack, e.stack, s)
  PROVE  Adds(Visited(map), Visited(Replaced(map, k, e)), s)
<1> DEFINE Good(m) == \A j \in DOMAIN m : Adds(m[j].stack, e.stack, s) =>
                         Adds(Visited(m), Visited(Replaced(m, j, e)), s)
           P == {m \in Seq(Entries) : Good(m)}
<1>1. <<>> \in P
  <2>1. <<>> \in Seq(Entries) /\ DOMAIN <<>> = {}
    OBVIOUS
  <2> QED
    BY <2>1
<1>2. ASSUME NEW m \in P, NEW x \in Entries PROVE Append(m, x) \in P
  <2>1. m \in Seq(Entries) /\ Good(m)
    OBVIOUS
  <2> DEFINE t == Append(m, x)
             n == Len(m)
  <2>2. t \in Seq(Entries) /\ t[n + 1] = x /\ DOMAIN t = 1 .. n + 1 /\ \A j \in 1 .. n : t[j] = m[j]
    <3>1. t \in Seq(Entries) /\ t[n + 1] = x /\ Len(t) = n + 1 /\ \A j \in 1 .. n : t[j] = m[j]
      BY <2>1, AppendProperties
    <3> HIDE DEF t
    <3> QED
      BY <3>1
  <2>3. n \in Nat /\ DOMAIN m = 1 .. n
    BY <2>1
  <2>4. Visited(t) = Cat(Visited(m), x.stack) /\ Visited(m) \in Seq(Sink)
    BY <2>1, VisitedAppend, VisitedType
  <2>5. x.stack \in Seq(Sink) /\ e.stack \in Seq(Sink)
    BY DEF Entries
  <2> HIDE DEF P, Good
  <2>6. ASSUME NEW j \in DOMAIN t, Adds(t[j].stack, e.stack, s)
        PROVE  Adds(Visited(t), Visited(Replaced(t, j, e)), s)
    <3>1. CASE j = n + 1
      <4>1. Replaced(t, j, e) = Append(m, e)
        BY <2>1, <3>1, ReplacedAppend
      <4>2. Visited(Replaced(t, j, e)) = Cat(Visited(m), e.stack)
        BY <2>1, <4>1, VisitedAppend
      <4>3. Adds(x.stack, e.stack, s)
        BY <2>2, <2>6, <3>1
      <4> QED
        BY <2>4, <2>5, <4>2, <4>3, AddsAround
    <3>2. CASE j # n + 1
      <4>1. j \in 1 .. n /\ t[j] = m[j]
        BY <2>2, <2>3, <3>2
      <4>2. Adds(Visited(m), Visited(Replaced(m, j, e)), s)
        BY <2>1, <2>3, <2>6, <4>1 DEF Good
      <4>3. Replaced(m, j, e) \in Seq(Entries)
        BY <2>1, <2>3, <4>1, OneReplaced DEF Replaced
      <4>4. Replaced(t, j, e) = Append(Replaced(m, j, e), x)
        BY <2>1, <4>1, ReplacedAppend
      <4>5. Visited(Replaced(t, j, e)) = Cat(Visited(Replaced(m, j, e)), x.stack)
        BY <4>3, <4>4, VisitedAppend
      <4>6. Visited(Replaced(m, j, e)) \in Seq(Sink)
        BY <4>3, VisitedType
      <4> QED
        BY <2>4, <2>5, <4>2, <4>5, <4>6, AddsAround
    <3> QED
      BY <3>1, <3>2
  <2>7. Good(t)
    BY <2>6 DEF Good
  <2> QED
    BY <2>2, <2>7 DEF P
<1>3. P = Seq(Entries)
  <2>1. P \in SUBSET Seq(Entries)
    OBVIOUS
  <2> HIDE DEF P
  <2> QED
    BY <1>1, <1>2, <2>1, SeqInd
<1>4. Good(map)
  BY <1>3
<1> QED
  BY <1>4

LEMMA VisitedConcat ==
  ASSUME NEW a \in Seq(Entries), NEW b \in Seq(Entries)
  PROVE  Visited(Cat(a, b)) = Cat(Visited(a), Visited(b))
<1> DEFINE P == {m \in Seq(Entries) : Visited(Cat(a, m)) = Cat(Visited(a), Visited(m))}
<1>0. Visited(a) \in Seq(Sink)
  BY VisitedType
<1>1. <<>> \in P
  <2>1. <<>> \in Seq(Entries) /\ <<>> \in Seq(Sink)
    OBVIOUS
  <2>2. Cat(a, <<>>) = a
    BY <2>1, CatIs
  <2>3. Cat(Visited(a), <<>>) = Visited(a)
    BY <1>0, <2>1, CatIs
  <2> QED
    BY <2>1, <2>2, <2>3, VisitedEmpty
<1>2. ASSUME NEW m \in P, NEW x \in Entries PROVE Append(m, x) \in P
  <2>1. m \in Seq(Entries) /\ Visited(Cat(a, m)) = Cat(Visited(a), Visited(m))
    OBVIOUS
  <2> HIDE DEF P
  <2>2. Append(m, x) \in Seq(Entries) /\ Cat(a, m) \in Seq(Entries) /\ Visited(m) \in Seq(Sink)
    BY <2>1, AppendProperties, CatIs, VisitedType
  <2>3. x.stack \in Seq(Sink)
    BY DEF Entries
  <2>4. Cat(a, Append(m, x)) = Append(Cat(a, m), x)
    <3>1. \A p, q \in Seq(Entries) : p \o Append(q, x) = Append(p \o q, x)
      OBVIOUS
    <3> QED
      BY <2>1, <3>1 DEF Cat
  <2>5. Visited(Cat(a, Append(m, x))) = Cat(Cat(Visited(a), Visited(m)), x.stack)
    BY <2>1, <2>2, <2>4, VisitedAppend
  <2>6. Visited(Append(m, x)) = Cat(Visited(m), x.stack)
    BY <2>1, VisitedAppend
  <2>7. Cat(Cat(Visited(a), Visited(m)), x.stack) = Cat(Visited(a), Cat(Visited(m), x.stack))
    BY <1>0, <2>2, <2>3, CatAgain
  <2>8. Visited(Cat(a, Append(m, x))) = Cat(Visited(a), Visited(Append(m, x)))
    BY <2>5, <2>6, <2>7
  <2> QED
    BY <2>2, <2>8 DEF P
<1>3. P = Seq(Entries)
  <2>1. P \in SUBSET Seq(Entries)
    OBVIOUS
  <2> HIDE DEF P
  <2> QED
    BY <1>1, <1>2, <2>1, SeqInd
<1> QED
  BY <1>3

\* add_sink_to_map puts the sink somewhere in the order.
LEMMA PlacedAdds ==
  ASSUME NEW map \in Seq(Entries), NEW s \in Sink, NEW g
  PROVE  Adds(Visited(map), Visited(Placed(map, s, g)), s)
<1>1. Visited(map) \in Seq(Sink)
  BY VisitedType
<1>2. CASE Placed(map, s, g) = <<Fresh(s)>> \o map
  <2> DEFINE f == Fresh(s)
             none == <<>>
             one == <<s>>
  <2>1. f \in Entries /\ f.stack = one /\ one \in Seq(Sink)
    BY FreshIs DEF Fresh, Entry
  <2>2. none \in Seq(Entries) /\ none \in Seq(Sink)
    OBVIOUS
  <2>3. Append(none, f) = <<Fresh(s)>> /\ <<f>> \in Seq(Entries)
    BY <2>1
  <2>4. Visited(none) = none
    BY VisitedEmpty
  <2>5. Adds(none, one, s)
    BY OneAdds
  <2>10. Placed(map, s, g) = Cat(Append(none, f), map) /\ Append(none, f) \in Seq(Entries)
    BY <1>2, <2>3 DEF Cat
  <2> HIDE DEF f, none, one
  <2>6. Visited(Append(none, f)) = Cat(none, one)
    BY <2>1, <2>2, <2>4, VisitedAppend
  <2>7. Cat(none, one) = one /\ Cat(none, Visited(map)) = Visited(map)
    BY <1>1, <2>1, CatIs DEF none
  <2>8. Visited(Placed(map, s, g)) = Cat(one, Visited(map))
    BY <2>6, <2>7, <2>10, VisitedConcat
  <2>9. Adds(Cat(none, Visited(map)), Cat(one, Visited(map)), s)
    BY <1>1, <2>1, <2>2, <2>5, AddsAround
  <2> QED
    BY <2>7, <2>8, <2>9
<1>3. ASSUME NEW k \in DOMAIN map, \/ Placed(map, s, g) = Replaced(map, k, Behind(map[k], s))
                                  \/ Placed(map, s, g) = Replaced(map, k, Before(map[k], s))
      PROVE  Adds(Visited(map), Visited(Placed(map, s, g)), s)
  <2> DEFINE o == map[k]
             stack == o.stack
  <2>1. o \in Entries
    OBVIOUS
  <2>2. stack \in Seq(Sink) /\ stack # <<>>
    BY <2>1 DEF Entries
  <2>3. Behind(o, s) \in Entries /\ Before(o, s) \in Entries
    BY <2>1, JoinIs, LeadIs
  <2>4. Behind(o, s).stack = InsertAt(stack, 2, s) /\ Before(o, s).stack = InsertAt(stack, 1, s)
    BY <2>1 DEF Behind, Before, Entries
  <2> HIDE DEF stack
  <2>5. Adds(stack, Behind(o, s).stack, s) /\ Adds(stack, Before(o, s).stack, s)
    BY <2>2, <2>4, InsertAdds
  <2>6. Adds(Visited(map), Visited(Replaced(map, k, Behind(o, s))), s)
    BY <2>3, <2>5, ReplacedAdds DEF stack
  <2>7. Adds(Visited(map), Visited(Replaced(map, k, Before(o, s))), s)
    BY <2>3, <2>5, ReplacedAdds DEF stack
  <2> QED
    BY <1>3, <2>6, <2>7
<1> QED
  BY <1>2, <1>3, PlacedCases

\* The entries without the sink, the empty ones included, and those of them
\* that are not empty.
Unhung(s) == {Unhang(e, s) : e \in Entries}
Left(map, s) == [k \in DOMAIN map |-> Unhang(map[k], s)]
Filled(s) == {e \in Unhung(s) : e.stack # <<>>}

LEMMA LeftIs ==
  ASSUME NEW map \in Seq(Entries), NEW s \in Sink
  PROVE  /\ Left(map, s) \in Seq(Unhung(s)) /\ Len(Left(map, s)) = Len(map)
         /\ \A k \in 1 .. Len(map) : Left(map, s)[k] = Unhang(map[k], s)
         /\ Without(map, s) = Keep(Left(map, s), Filled(s))
<1> DEFINE l == Left(map, s)
           n == Len(map)
<1>1. n \in Nat /\ DOMAIN map = 1 .. n /\ \A k \in 1 .. n : map[k] \in Entries
  OBVIOUS
<1>2. \A k \in 1 .. n : Unhang(map[k], s) \in Unhung(s)
  BY <1>1 DEF Unhung
<1>3. l = [k \in 1 .. n |-> Unhang(map[k], s)]
  BY <1>1 DEF Left
<1> HIDE DEF l, n
<1>4. l \in [1 .. n -> Unhung(s)] /\ \A k \in 1 .. n : l[k] = Unhang(map[k], s)
  BY <1>2, <1>3
<1>5. l \in Seq(Unhung(s)) /\ Len(l) = n
  BY <1>1, <1>4
<1> DEFINE W == {e \in Range(l) : e.stack # <<>>}
<1>6. Without(map, s) = Keep(l, W)
  BY DEF Without, l, Left
<1>7. Range(l) \subseteq Unhung(s)
  BY <1>5, RangeOfSeq
<1>8. \A e \in Range(l) : (e \in W <=> e \in Filled(s))
  BY <1>7 DEF Filled
<1> HIDE DEF W
<1>9. Keep(l, W) = Keep(l, Filled(s))
  BY <1>5, <1>8, KeepSame
<1> QED
  BY <1>4, <1>5, <1>6, <1>9 DEF l, n

LEMMA WithoutAppend ==
  ASSUME NEW m \in Seq(Entries), NEW x \in Entries, NEW s \in Sink
  PROVE  Without(Append(m, x), s) = IF Unhang(x, s).stack # <<>>
                                    THEN Append(Without(m, s), Unhang(x, s)) ELSE Without(m, s)
<1> DEFINE t == Append(m, x)
           n == Len(m)
           h == Unhang(x, s)
           a == Left(t, s)
           b == Append(Left(m, s), h)
<1>1. /\ t \in Seq(Entries) /\ Len(t) = n + 1 /\ t[n + 1] = x /\ \A k \in 1 .. n : t[k] = m[k]
  BY AppendProperties
<1>2. n \in Nat /\ h \in Unhung(s)
  BY DEF Unhung
<1>3. /\ Left(m, s) \in Seq(Unhung(s)) /\ Len(Left(m, s)) = n
      /\ \A k \in 1 .. n : Left(m, s)[k] = Unhang(m[k], s)
      /\ Without(m, s) = Keep(Left(m, s), Filled(s))
  BY LeftIs
<1> HIDE DEF t, n, h
<1>4. /\ a \in Seq(Unhung(s)) /\ Len(a) = n + 1
      /\ \A k \in 1 .. n + 1 : a[k] = Unhang(t[k], s)
      /\ Without(t, s) = Keep(a, Filled(s))
  <2>1. /\ a \in Seq(Unhung(s)) /\ Len(a) = Len(t)
        /\ \A k \in 1 .. Len(t) : a[k] = Unhang(t[k], s)
        /\ Without(t, s) = Keep(a, Filled(s))
    BY <1>1, LeftIs
  <2> HIDE DEF a
  <2> QED
    BY <1>1, <2>1
<1>5. b \in Seq(Unhung(s)) /\ Len(b) = n + 1 /\ b[n + 1] = h /\ \A k \in 1 .. n : b[k] = Left(m, s)[k]
  BY <1>2, <1>3, AppendProperties
<1>6. Keep(b, Filled(s)) = IF h \in Filled(s) THEN Append(Without(m, s), h) ELSE Without(m, s)
  BY <1>2, <1>3, KeepAppend
<1> HIDE DEF a, b
<1>7. ASSUME NEW k \in 1 .. n + 1 PROVE a[k] = b[k]
  <2>1. CASE k = n + 1
    BY <2>1, <1>1, <1>4, <1>5 DEF h
  <2>2. CASE k # n + 1
    <3>1. k \in 1 .. n
      BY <1>2, <2>2
    <3> QED
      BY <3>1, <1>1, <1>3, <1>4, <1>5
  <2> QED
    BY <2>1, <2>2
<1>8. a = b
  BY <1>4, <1>5, <1>7, SeqEqual
<1>9. h \in Filled(s) <=> h.stack # <<>>
  BY <1>2 DEF Filled
<1> QED
  BY <1>4, <1>6, <1>8, <1>9 DEF t, h

\* remove_sink_from_map leaves the others in their order.
LEMMA VisitedWithout ==
  ASSUME NEW map \in Seq(Entries), NEW s \in Sink
  PROVE  Visited(Without(map, s)) = Minus(Visited(map), s)
<1> DEFINE P == {m \in Seq(Entries) : Visited(Without(m, s)) = Minus(Visited(m), s)}
<1>1. <<>> \in P
  <2>1. <<>> \in Seq(Entries)
    OBVIOUS
  <2>2. Without(<<>>, s) = <<>>
    <3>1. Left(<<>>, s) = <<>>
      BY DEF Left
    <3> QED
      BY <2>1, <3>1, LeftIs, KeepEmpty
  <2> QED
    BY <2>1, <2>2, VisitedEmpty, KeepEmpty DEF Minus
<1>2. ASSUME NEW m \in P, NEW x \in Entries PROVE Append(m, x) \in P
  <2>1. m \in Seq(Entries) /\ Visited(Without(m, s)) = Minus(Visited(m), s)
    OBVIOUS
  <2> HIDE DEF P
  <2> DEFINE h == Unhang(x, s)
             left == h.stack
             stack == x.stack
  <2>2. /\ stack \in Seq(Sink) /\ left = Minus(stack, s)
    BY DEF Entries, Unhang, Minus
  <2>3. Visited(m) \in Seq(Sink) /\ Append(m, x) \in Seq(Entries) /\ Without(m, s) \in Seq(Entries)
    BY <2>1, VisitedType, AppendProperties, WithoutLeaves
  <2>4. Visited(Append(m, x)) = Cat(Visited(m), stack)
    BY <2>1, VisitedAppend
  <2>5. Visited(Without(Append(m, x), s)) = Cat(Visited(Without(m, s)), left)
    <3>1. CASE left # <<>>
      <4>1. h \in Entries
        BY <3>1, UnhangLeaves
      <4>2. Without(Append(m, x), s) = Append(Without(m, s), h)
        BY <2>1, <3>1, WithoutAppend
      <4> QED
        BY <2>3, <4>1, <4>2, VisitedAppend
    <3>2. CASE left = <<>>
      <4>1. Without(Append(m, x), s) = Without(m, s)
        BY <2>1, <3>2, WithoutAppend
      <4>2. Visited(Without(m, s)) \in Seq(Sink)
        BY <2>3, VisitedType
      <4>3. <<>> \in Seq(Sink)
        OBVIOUS
      <4>4. Cat(Visited(Without(m, s)), <<>>) = Visited(Without(m, s))
        BY <4>2, <4>3, CatIs
      <4> HIDE DEF left
      <4> QED
        BY <3>2, <4>1, <4>4
    <3> QED
      BY <3>1, <3>2
  <2> HIDE DEF left, stack, h
  <2>6. Minus(Cat(Visited(m), stack), s) = Cat(Minus(Visited(m), s), Minus(stack, s))
    BY <2>2, <2>3, KeepCat DEF Minus
  <2>7. Visited(Without(Append(m, x), s)) = Minus(Visited(Append(m, x)), s)
    BY <2>1, <2>2, <2>4, <2>5, <2>6
  <2> QED
    BY <2>3, <2>7 DEF P
<1>3. P = Seq(Entries)
  <2>1. P \in SUBSET Seq(Entries)
    OBVIOUS
  <2> HIDE DEF P
  <2> QED
    BY <1>1, <1>2, <2>1, SeqInd
<1> QED
  BY <1>3

--------------------------------------------------------------------------------
\* No sink is visited twice in one round.
NoTwice(u) == Cardinality(Range(u)) = Len(u)

LEMMA RangeFinite ==
  ASSUME NEW T, NEW s \in Seq(T)
  PROVE  IsFiniteSet(Range(s)) /\ Cardinality(Range(s)) \in Nat /\ Cardinality(Range(s)) <= Len(s)
<1> DEFINE Small(u) == IsFiniteSet(Range(u)) /\ Cardinality(Range(u)) <= Len(u)
           P == {u \in Seq(T) : Small(u)}
<1>1. <<>> \in P
  <2>1. Range(<<>>) = {} /\ Len(<<>>) = 0 /\ <<>> \in Seq(T)
    BY DEF Range
  <2>2. IsFiniteSet({}) /\ Cardinality({}) = 0
    BY FS_EmptySet
  <2> DEFINE e == <<>>
             r == Range(e)
  <2>3. r = {} /\ Len(e) = 0
    BY <2>1
  <2> HIDE DEF e, r
  <2>4. IsFiniteSet(r) /\ Cardinality(r) <= Len(e)
    BY <2>2, <2>3
  <2>5. Small(<<>>)
    BY <2>4 DEF e, r
  <2> HIDE DEF Small
  <2> QED
    BY <2>1, <2>5
<1>2. ASSUME NEW u \in P, NEW x \in T PROVE Append(u, x) \in P
  <2>1. u \in Seq(T) /\ IsFiniteSet(Range(u)) /\ Cardinality(Range(u)) <= Len(u)
    OBVIOUS
  <2> HIDE DEF P, Small
  <2>2. Append(u, x) \in Seq(T) /\ Range(Append(u, x)) = Range(u) \cup {x} /\ Len(Append(u, x)) = Len(u) + 1
    BY <2>1, AppendProperties, RangeAppend
  <2>3. /\ IsFiniteSet(Range(u) \cup {x})
        /\ Cardinality(Range(u) \cup {x}) = IF x \in Range(u) THEN Cardinality(Range(u)) ELSE Cardinality(Range(u)) + 1
    BY <2>1, FS_AddElement
  <2>4. Cardinality(Range(u)) \in Nat /\ Len(u) \in Nat
    BY <2>1, FS_CardinalityType
  <2>5. Small(Append(u, x))
    BY <2>1, <2>2, <2>3, <2>4 DEF Small
  <2> QED
    BY <2>2, <2>5 DEF P
<1>3. P = Seq(T)
  <2>1. P \in SUBSET Seq(T)
    OBVIOUS
  <2> HIDE DEF P
  <2> QED
    BY <1>1, <1>2, <2>1, SeqInd
<1>4. Small(s)
  BY <1>3
<1>5. Cardinality(Range(s)) \in Nat
  BY <1>4, FS_CardinalityType
<1> QED
  BY <1>4, <1>5

LEMMA AddsNoTwice ==
  ASSUME NEW u \in Seq(Sink), NEW v \in Seq(Sink), NEW s \in Sink,
         NoTwice(u), s \notin Range(u), Adds(u, v, s)
  PROVE  NoTwice(v)
<1>1. IsFiniteSet(Range(u))
  BY RangeFinite
<1>2. Cardinality(Range(u) \cup {s}) = Cardinality(Range(u)) + 1
  BY <1>1, FS_AddElement
<1> QED
  BY <1>2 DEF NoTwice, Adds

LEMMA MinusNoTwice ==
  ASSUME NEW u \in Seq(Sink), NEW s \in Range(u), NoTwice(u)
  PROVE  NoTwice(Minus(u, s)) /\ s \notin Range(Minus(u, s)) /\ Minus(u, s) \in Seq(Sink)
<1> DEFINE R == Sink \ {s}
           m == Keep(u, R)
           o == Keep(u, {s})
           n == Len(u)
           k == Len(m)
           d == Len(o)
           c == Cardinality(Range(m))
<1>1. m \in Seq(Sink) /\ o \in Seq(Sink) /\ Range(m) = Range(u) \cap R /\ Range(o) = Range(u) \cap {s}
  BY KeepType, KeepRange
<1>2. Range(u) \subseteq Sink
  BY RangeOfSeq
<1>3. Range(m) = Range(u) \ {s}
  BY <1>1, <1>2
<1>4. k + d = n
  BY KeepLen
<1>5. k \in Nat /\ d \in Nat /\ n \in Nat
  BY <1>1
<1>6. d # 0
  <2>1. o # <<>>
    <3>1. s \in Range(o)
      BY <1>1
    <3> HIDE DEF o
    <3>2. o = <<>> => Range(o) = {}
      BY DEF Range
    <3> QED
      BY <3>1, <3>2
  <2> HIDE DEF o
  <2> QED
    BY <1>1, <2>1
<1>7. c \in Nat /\ c <= k
  BY <1>1, RangeFinite
<1>8. c = n - 1
  <2>1. IsFiniteSet(Range(u)) /\ Cardinality(Range(u)) = n
    BY RangeFinite DEF NoTwice
  <2>2. Cardinality(Range(u) \ {s}) = n - 1
    BY <2>1, FS_RemoveElement
  <2> QED
    BY <1>3, <2>2
<1> HIDE DEF k, d, n, c
<1>9. c = k
  BY <1>4, <1>5, <1>6, <1>7, <1>8
<1> QED
  BY <1>1, <1>3, <1>9 DEF NoTwice, Minus, c, k

LEMMA MinusTwice ==
  ASSUME NEW u \in Seq(Sink), NEW s \in Sink
  PROVE  Minus(Minus(u, s), s) = Minus(u, s)
<1> DEFINE R == Sink \ {s}
<1>1. Keep(u, R) \in Seq(Sink) /\ Range(Keep(u, R)) = Range(u) \cap R
  BY KeepType, KeepRange
<1> HIDE DEF R
<1>2. Keep(Keep(u, R), R) = Keep(u, R)
  BY <1>1, KeepAll
<1> QED
  BY <1>2 DEF Minus, R

LEMMA VisitedBranches ==
  ASSUME NEW map \in Seq(Entries), NEW src \in Source
  PROVE  Visited(Branches(map, src)) = Visited(map)
<1> DEFINE new == Branches(map, src)
<1>1. DOMAIN new = DOMAIN map
  BY DEF Branches
<1>2. ASSUME NEW k \in DOMAIN map PROVE new[k].stack = map[k].stack
  <2> DEFINE o == map[k]
             out == {Delivered(Example(o), src)}
             gains == {gain[Example(o)]}
             ctx == IF o.ctx = "null" THEN "null" ELSE "freed"
  <2>1. o \in Entries
    OBVIOUS
  <2>2. \/ new[k] = [o EXCEPT !.ctx = "live", !.out = out, !.gain = gains]
        \/ new[k] = [o EXCEPT !.ctx = ctx]
    BY DEF Branches
  <2> HIDE DEF new, o, out, gains, ctx
  <2>3. new[k].stack = o.stack
    BY <2>1, <2>2 DEF Entries
  <2> QED
    BY <2>3 DEF o
<1> HIDE DEF new
<1>3. [k \in DOMAIN new |-> new[k].stack] = [k \in DOMAIN map |-> map[k].stack]
  BY <1>1, <1>2
<1> QED
  BY <1>3 DEF new, Visited

--------------------------------------------------------------------------------
(* What one call does to the order of the visits.                          *)

MovesOne(before, after) ==
  \/ after = before
  \/ \E s \in Sink : Minus(before, s) = Minus(after, s) /\ Cardinality(Range(after)) = Len(after)

LEMMA MovesStep ==
  ASSUME MapInv, NoTwice(Visited(sink_map)), MapNext
  PROVE  NoTwice(Visited(sink_map')) /\ MovesOne(Visited(sink_map), Visited(sink_map'))
<1> DEFINE before == Visited(sink_map)
           after  == Visited(sink_map')
<1>1. sink_map \in Seq(Entries) /\ before \in Seq(Sink)
  BY VisitedType DEF MapInv, MapTypeOK
<1>2. ASSUME NEW s \in Sink, NoTwice(after), Minus(before, s) = Minus(after, s)
      PROVE  NoTwice(after) /\ MovesOne(before, after)
  BY <1>2 DEF MovesOne, NoTwice
<1>3. ASSUME after = before PROVE NoTwice(after) /\ MovesOne(before, after)
  BY <1>3 DEF MovesOne
<1>4. ASSUME NEW s \in Sink, Attach(s) PROVE NoTwice(after) /\ MovesOne(before, after)
  <2>1. sink_map' = Placed(sink_map, s, gain) /\ s \notin Range(before)
    BY <1>4 DEF Attach, Attached
  <2>2. after \in Seq(Sink) /\ Adds(before, after, s)
    BY <1>1, <2>1, PlacedIs, PlacedAdds, VisitedType
  <2> HIDE DEF before, after
  <2>3. NoTwice(after)
    BY <1>1, <2>1, <2>2, AddsNoTwice DEF before
  <2>4. Minus(before, s) = Minus(after, s)
    BY <2>2 DEF Adds
  <2> QED
    BY <1>2, <2>3, <2>4
<1>5. ASSUME NEW s \in Sink, Detach(s) PROVE NoTwice(after) /\ MovesOne(before, after)
  <2>1. sink_map' = Without(sink_map, s) /\ s \in Range(before)
    BY <1>5 DEF Detach, Attached
  <2>2. after = Minus(before, s)
    BY <1>1, <2>1, VisitedWithout
  <2> HIDE DEF before, after
  <2>3. NoTwice(after)
    BY <1>1, <2>1, <2>2, MinusNoTwice DEF before
  <2>4. Minus(before, s) = Minus(after, s)
    BY <1>1, <2>2, MinusTwice
  <2> QED
    BY <1>2, <2>3, <2>4
<1>6. ASSUME NEW s \in Sink, NEW n \in Gains, SetGain(s, n) PROVE NoTwice(after) /\ MovesOne(before, after)
  <2> DEFINE map == Without(sink_map, s)
             g == [gain EXCEPT ![s] = n]
             mid == Minus(before, s)
  <2>1. sink_map' = Placed(map, s, g) /\ s \in Range(before)
    BY <1>6 DEF SetGain, Attached
  <2>2. map \in Seq(Entries) /\ Visited(map) = mid
    BY <1>1, WithoutLeaves, VisitedWithout
  <2> HIDE DEF map, g
  <2>3. after \in Seq(Sink) /\ Adds(Visited(map), after, s)
    BY <2>1, <2>2, PlacedIs, PlacedAdds, VisitedType
  <2> HIDE DEF before, after
  <2>4. NoTwice(mid) /\ s \notin Range(mid) /\ mid \in Seq(Sink)
    BY <1>1, <2>1, MinusNoTwice DEF before
  <2>5. Minus(mid, s) = Minus(before, s)
    BY <1>1, MinusTwice
  <2> HIDE DEF mid
  <2>6. NoTwice(after)
    BY <2>2, <2>3, <2>4, AddsNoTwice
  <2>7. Minus(mid, s) = Minus(after, s)
    BY <2>2, <2>3 DEF Adds
  <2> QED
    BY <1>2, <2>5, <2>6, <2>7
<1>7. ASSUME NEW src \in Source, Build(src) PROVE NoTwice(after) /\ MovesOne(before, after)
  <2>1. sink_map' = Branches(sink_map, src)
    BY <1>7 DEF Build
  <2>2. after = before
    BY <1>1, <2>1, VisitedBranches
  <2> QED
    BY <1>3, <2>2
<1>8. ASSUME NEW src \in Source, Send(src) PROVE NoTwice(after) /\ MovesOne(before, after)
  <2>1. sink_map' = sink_map
    BY <1>8 DEF Send
  <2> QED
    BY <1>3, <2>1
<1> QED
  BY <1>4, <1>5, <1>6, <1>7, <1>8 DEF MapNext

(***************************************************************************)
(* Attach, detach and set_gain move one sink in the order in which the      *)
(* sinks are visited and leave the others as they were, and no sink is ever *)
(* visited twice in one round: for every set of sinks and whatever they     *)
(* ask for.                                                                *)
(***************************************************************************)
THEOREM VisitsMoveOne == MapSpec => VisitsOneAtATime
<1>1. MapInit => NoTwice(Visited(sink_map))
  <2>1. Range(<<>>) = {} /\ Len(<<>>) = 0
    BY DEF Range
  <2>2. Cardinality({}) = 0
    BY FS_EmptySet
  <2> QED
    BY <2>1, <2>2, VisitedEmpty DEF MapInit, NoTwice
<1>2. MapInv /\ NoTwice(Visited(sink_map)) /\ [MapNext]_map_vars => NoTwice(Visited(sink_map))'
  <2>1. CASE MapNext
    BY <2>1, MovesStep
  <2>2. CASE UNCHANGED map_vars
    BY <2>2 DEF map_vars
  <2> QED
    BY <2>1, <2>2
<1>3. MapInv /\ NoTwice(Visited(sink_map)) /\ [MapNext]_map_vars =>
        [LET before == Visited(sink_map)
             after  == Visited(sink_map')
         IN \/ after = before
            \/ \E s \in Sink : /\ Minus(before, s) = Minus(after, s)
                               /\ Cardinality(Range(after)) = Len(after)]_map_vars
  BY MovesStep DEF MovesOne
<1> QED
  BY <1>1, <1>2, <1>3, MapInvariant, PTL DEF MapSpec, VisitsOneAtATime
================================================================================
