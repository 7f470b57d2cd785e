----------------------------- MODULE PlaylistProofs -----------------------------
(***************************************************************************)
(* Proofs about Playlist, for any number of items, sinks, packets and calls, *)
(* against all interleavings of the decode thread, the application and the  *)
(* readers.                                                                *)
(*                                                                         *)
(* The list: it stays sound through every insert and removal, with          *)
(* decode_head on it (ListSafe), and no wakeup of decode_head_cond is lost  *)
(* (HeadWakes).  ListInv is inductive by itself: the decoder only follows   *)
(* the list.  The other two rest on the mutex: Exclusive says where each    *)
(* thread holds it, which the decoder keeps to until it first comes back    *)
(* from the wait for room (strayed).  From then on nothing is claimed of    *)
(* decode_head.                                                            *)
(*                                                                         *)
(* The sinks: TypeInv gives the types, and which sink each call is at.  On  *)
(* it rest the flag of the sentinel (EndFlagSafe), the wakeups of           *)
(* sink_drain_cond (DrainWakes), what the queues refer to (NothingDangles), *)
(* the flush of a seek (SeekFlushesAll) and back pressure (RoomBounds).     *)
(* Three of them speak of every_sink between two of its steps, while the    *)
(* sink map changes under it: Later is what it has yet to visit.            *)
(***************************************************************************)
EXTENDS Playlist, KeepSeqProofs, FiniteSetTheorems

\* An item has pointers from when it is allocated, and is freed once.
Typed ==
  /\ setup.items \subseteq Item
  /\ fresh \subseteq Item /\ alive \subseteq Item /\ fresh \cap alive = {}
  /\ nxt \in [Item -> Item \cup {Null}] /\ prv \in [Item -> Item \cup {Null}]
  /\ apc \in Removing => arg \in alive

Unlinked == \A i \in fresh : nxt[i] = Null /\ prv[i] = Null

\* The list, with what Ends, Links and Reached leave out.
ListInv == Typed /\ Unlinked /\ Ends /\ Links /\ Reached

\* Where the decode thread holds decode_head_mutex, until it first strays.
Holding ==
  {"top", "end", "wait", "check", "seek", "flush", "read", "receive", "put", "advance", "store"}

\* Where a call of the application does.
AppHolding == {"purge", "signal", "clear_purge", "clear_signal", "resize"}

Exclusive ==
  ~strayed => /\ dpc \in Holding => owner = "decoder"
              /\ apc \in AppHolding => owner = "app"

\* Between the test of decode_head and the sleep, and asleep.
Resting == ~strayed /\ dpc \in {"end", "wait", "asleep_head"} => decode_head = Null /\ ~abort_request

\* decode_head, and what it is about to become, are on the list.
Following ==
  ~strayed => /\ decode_head \in Listed \cup {Null}
              /\ dpc = "store" => dnext \in Listed \cup {Null}

IInv == ListInv /\ Exclusive /\ Resting /\ Following

--------------------------------------------------------------------------------
(* The list.                                                                *)

LEMMA ListInit == Init => ListInv
  BY SetupsAssumption DEF Init, ListInv, Typed, Ends, Links, Reached, Visited, Unlinked, Listed, Removing

\* Most steps leave the list alone, and an item that is half removed.
LEMMA ListSame ==
  ASSUME ListInv, UNCHANGED <<setup, list>>,
         apc \in Removing <=> apc' \in Removing, apc \in Removing => arg' = arg
  PROVE  ListInv' /\ Listed' = Listed
<1>1. Listed' = Listed
  BY DEF Listed, list
<1> QED
  BY <1>1 DEF ListInv, Typed, Ends, Links, Reached, Visited, Unlinked, list

LEMMA ListInsert ==
  ASSUME ListInv, NEW i \in Item, Insert(i), UNCHANGED setup
  PROVE  ListInv'
<1>1. /\ apc = "idle" /\ i \in fresh /\ fresh' = fresh \ {i} /\ alive' = alive \cup {i}
      /\ apc' = apc
  BY DEF Insert, May, app
<1>2. Listed = alive /\ Listed' = alive \cup {i} /\ i \notin alive /\ i # Null
  BY <1>1, NullAssumption DEF Listed, Removing, ListInv, Typed
<1>3. nxt[i] = Null /\ prv[i] = Null
  BY <1>1 DEF ListInv, Unlinked
<1>4. ASSUME NEW n \in alive, InsertBefore(i, n) PROVE ListInv'
  <2>1. n \in Item /\ n # i /\ (prv[n] # Null => prv[n] \in alive /\ nxt[prv[n]] = n)
    BY <1>2, NullAssumption DEF ListInv, Typed, Links
  <2>2. /\ nxt' \in [Item -> Item \cup {Null}] /\ prv' \in [Item -> Item \cup {Null}]
        /\ \A j \in Item : nxt'[j] = IF j = i THEN n ELSE IF j = prv[n] THEN i ELSE nxt[j]
        /\ \A j \in Item : prv'[j] = IF j = n THEN i ELSE IF j = i THEN prv[n] ELSE prv[j]
        /\ head' = (IF prv[n] = Null THEN i ELSE head) /\ tail' = tail
    BY <1>4, <2>1 DEF InsertBefore, ListInv, Typed
  <2>3. Typed'
    BY <1>1, <1>2, <2>2 DEF ListInv, Typed, Removing
  <2>4. Ends'
    BY <1>2, <2>1, <2>2, NullAssumption DEF ListInv, Typed, Ends, Links
  <2>5. Links'
    <3> SUFFICES ASSUME NEW j \in alive \cup {i}
                 PROVE /\ IF j = head' THEN prv'[j] = Null ELSE prv'[j] \in alive \cup {i} /\ nxt'[prv'[j]] = j
                       /\ IF j = tail' THEN nxt'[j] = Null ELSE nxt'[j] \in alive \cup {i} /\ prv'[nxt'[j]] = j
      BY <1>2 DEF Links
    <3>1. j \in Item
      BY DEF ListInv, Typed
    <3>2. n = head <=> prv[n] = Null
      BY <1>2, NullAssumption DEF ListInv, Links, Typed
    <3>3. CASE j = i
      BY <3>3, <1>2, <2>1, <2>2, <3>2 DEF ListInv, Typed, Ends
    <3>4. CASE j # i
      BY <3>4, <3>1, <1>2, <2>1, <2>2, <3>2, NullAssumption DEF ListInv, Typed, Links, Ends
    <3> QED
      BY <3>3, <3>4
  <2>6. Reached'
    <3> SUFFICES ASSUME NEW T \in SUBSET (alive \cup {i}), Visited(T)'
                 PROVE  T = alive \cup {i}
      BY <1>2 DEF Reached
    <3>1. \A j \in alive : nxt[j] # i /\ j \in Item
      BY <1>2 DEF ListInv, Typed, Links
    <3>2. T \subseteq Item /\ (i \in T => n \in T)
      BY <1>2, <2>1, <2>2, NullAssumption DEF Visited, ListInv, Typed
    <3>3. Visited(T \ {i})
      <4>1. head \in T \ {i}
        BY <1>2, <2>1, <2>2, <3>2, NullAssumption DEF Visited, ListInv, Typed, Ends, Links
      <4>2. ASSUME NEW j \in T \ {i} PROVE nxt[j] \in (T \ {i}) \cup {Null}
        <5>1. j \in Item /\ j # Null /\ nxt'[j] \in T \cup {Null} /\ nxt[j] # i
          BY <3>1, <3>2, NullAssumption DEF Visited
        <5>2. CASE j = prv[n]
          BY <1>2, <2>1, <2>2, <3>2, <5>1, <5>2 DEF Visited
        <5>3. CASE j # prv[n]
          BY <2>2, <5>1, <5>3
        <5> QED
          BY <5>2, <5>3
      <4> QED
        BY <4>1, <4>2 DEF Visited
    <3>4. T \ {i} = alive
      BY <1>2, <3>3 DEF ListInv, Reached
    <3>5. i \in T
      BY <1>2, <2>1, <2>2, <3>4 DEF Visited
    <3> QED
      BY <3>4, <3>5
  <2>7. Unlinked'
    BY <1>1, <1>2, <2>1, <2>2, NullAssumption DEF ListInv, Typed, Unlinked
  <2> QED
    BY <2>3, <2>4, <2>5, <2>6, <2>7 DEF ListInv
<1>5. ASSUME head = Null, InsertFirst(i) PROVE ListInv'
  <2>1. head' = i /\ tail' = i /\ UNCHANGED <<nxt, prv>> /\ alive = {}
    BY <1>2, <1>5 DEF InsertFirst, ListInv, Ends
  <2> QED
    BY <1>1, <1>2, <1>3, <2>1 DEF ListInv, Typed, Ends, Links, Reached, Visited, Unlinked, Removing
<1>6. ASSUME head # Null, InsertLast(i) PROVE ListInv'
  <2>1. tail \in alive /\ tail \in Item /\ nxt[tail] = Null /\ tail # i
    BY <1>2, <1>6 DEF ListInv, Typed, Ends, Links
  <2>2. /\ nxt' \in [Item -> Item \cup {Null}] /\ prv' \in [Item -> Item \cup {Null}]
        /\ \A j \in Item : nxt'[j] = IF j = tail THEN i ELSE nxt[j]
        /\ \A j \in Item : prv'[j] = IF j = i THEN tail ELSE prv[j]
        /\ head' = head /\ tail' = i
    BY <1>6, <2>1 DEF InsertLast, ListInv, Typed
  <2>3. Typed'
    BY <1>1, <1>2, <2>2 DEF ListInv, Typed, Removing
  <2>4. Ends'
    BY <1>2, <2>1, <2>2, NullAssumption DEF ListInv, Typed, Ends
  <2>5. Links'
    BY <1>2, <1>3, <2>1, <2>2, NullAssumption DEF ListInv, Typed, Links, Ends
  <2>6. Reached'
    <3> SUFFICES ASSUME NEW T \in SUBSET (alive \cup {i}), Visited(T)'
                 PROVE  T = alive \cup {i}
      BY <1>2 DEF Reached
    <3>1. \A j \in alive : nxt[j] # i /\ j \in Item
      BY <1>2 DEF ListInv, Typed, Links
    <3>2. Visited(T \ {i})
      <4>1. head \in T \ {i}
        BY <1>2, <1>6, <2>2 DEF Visited, ListInv, Ends
      <4>2. ASSUME NEW j \in T \ {i} PROVE nxt[j] \in (T \ {i}) \cup {Null}
        BY <1>2, <2>1, <2>2, <3>1 DEF Visited
      <4> QED
        BY <4>1, <4>2 DEF Visited
    <3>3. T \ {i} = alive
      BY <1>2, <3>2 DEF ListInv, Reached
    <3>4. i \in T
      BY <1>2, <2>1, <2>2, <3>3 DEF Visited
    <3> QED
      BY <3>3, <3>4
  <2>7. Unlinked'
    BY <1>1, <2>1, <2>2 DEF ListInv, Typed, Unlinked
  <2> QED
    BY <2>3, <2>4, <2>5, <2>6, <2>7 DEF ListInv
<1> QED
  BY <1>4, <1>5, <1>6 DEF Insert

\* Otherwise next would not lead from head to i.
LEMMA NoLoop ==
  ASSUME ListInv, NEW i \in Listed
  PROVE  prv[i] # i /\ nxt[i] # i
<1>1. ASSUME prv[i] = i \/ nxt[i] = i PROVE FALSE
  <2>1. i \in Item /\ i # Null
    BY NullAssumption DEF ListInv, Typed, Listed
  <2>2. prv[i] = i /\ nxt[i] = i /\ i # head
    BY <1>1, <2>1 DEF ListInv, Links
  <2>3. Visited(Listed \ {i})
    <3>1. head \in Listed \ {i}
      BY <2>2 DEF ListInv, Ends
    <3>2. ASSUME NEW j \in Listed \ {i} PROVE nxt[j] \in (Listed \ {i}) \cup {Null}
      BY <2>2 DEF ListInv, Links
    <3> QED
      BY <3>1, <3>2 DEF Visited
  <2> QED
    BY <2>3 DEF ListInv, Reached
<1> QED
  BY <1>1

LEMMA ListUnlink ==
  ASSUME ListInv, apc \notin Removing, apc' \in Removing, NEW i \in alive, Unlink(i), UNCHANGED setup
  PROVE  ListInv'
<1>1. /\ i \in Item /\ i # Null /\ arg' = i /\ UNCHANGED <<fresh, alive>>
      /\ Listed = alive /\ Listed' = alive \ {i}
  BY NullAssumption DEF Unlink, ListInv, Typed, Listed
<1>2. /\ prv[i] = Null <=> i = head
      /\ nxt[i] = Null <=> i = tail
      /\ prv[i] # Null => prv[i] \in alive /\ nxt[prv[i]] = i
      /\ nxt[i] # Null => nxt[i] \in alive /\ prv[nxt[i]] = i
  BY <1>1, NullAssumption DEF ListInv, Typed, Links
<1>3. /\ nxt' \in [Item -> Item \cup {Null}] /\ prv' \in [Item -> Item \cup {Null}]
      /\ \A j \in Item : nxt'[j] = IF j = prv[i] THEN nxt[i] ELSE nxt[j]
      /\ \A j \in Item : prv'[j] = IF j = nxt[i] THEN prv[i] ELSE prv[j]
      /\ head' = (IF prv[i] = Null THEN nxt[i] ELSE head)
      /\ tail' = (IF nxt[i] = Null THEN prv[i] ELSE tail)
  BY <1>1, <1>2, NullAssumption DEF Unlink, ListInv, Typed
<1>4. Typed'
  BY <1>1, <1>3 DEF ListInv, Typed
<1>5. prv[i] # i /\ nxt[i] # i
  BY <1>1, NoLoop
<1>6. Ends'
  <2>1. prv[i] = Null /\ nxt[i] = Null => alive = {i}
    <3> SUFFICES ASSUME prv[i] = Null, nxt[i] = Null PROVE alive = {i}
      OBVIOUS
    <3>1. Visited({i})
      BY <1>2 DEF Visited
    <3> QED
      BY <1>1, <3>1 DEF ListInv, Reached
  <2> QED
    BY <1>1, <1>2, <1>3, <1>5, <2>1, NullAssumption DEF ListInv, Typed, Ends, Links
<1>7. Links'
  BY <1>1, <1>2, <1>3, <1>5, NullAssumption DEF ListInv, Typed, Ends, Links
<1>8. Reached'
  <2> SUFFICES ASSUME NEW T \in SUBSET (alive \ {i}), Visited(T)'
               PROVE  T = alive \ {i}
    BY <1>1 DEF Reached
  <2>1. T \subseteq Item
    BY DEF ListInv, Typed
  <2>2. head \in T \cup {i} /\ (head = i => nxt[i] \in T)
    BY <1>2, <1>3 DEF Visited
  <2>3. ASSUME NEW j \in T PROVE nxt[j] \in T \cup {i, Null} /\ (j # prv[i] => nxt[j] \in T \cup {Null})
    BY <1>2, <1>3, <2>1, <2>3, NullAssumption DEF Visited
  <2>4. CASE head = i \/ prv[i] \in T
    <3>1. nxt[i] \in T \cup {Null}
      BY <1>3, <2>1, <2>2, <2>4 DEF Visited
    <3>2. Visited(T \cup {i})
      BY <2>2, <2>3, <3>1 DEF Visited
    <3>3. T \cup {i} = alive
      BY <1>1, <3>2 DEF ListInv, Reached
    <3> QED
      BY <3>3
  <2>5. CASE head # i /\ prv[i] \notin T
    <3>1. Visited(T)
      BY <2>2, <2>3, <2>5 DEF Visited
    <3>2. T = alive
      BY <1>1, <3>1 DEF ListInv, Reached
    <3> QED
      BY <3>2
  <2> QED
    BY <2>4, <2>5
<1>9. Unlinked'
  BY <1>1, <1>2, <1>3, NullAssumption DEF ListInv, Typed, Unlinked
<1> QED
  BY <1>4, <1>6, <1>7, <1>8, <1>9 DEF ListInv

LEMMA ListFree ==
  ASSUME ListInv, RemoveFree, UNCHANGED setup
  PROVE  ListInv'
<1>1. apc \in Removing /\ apc' \notin Removing /\ arg \in alive /\ arg \in Item
  BY DEF RemoveFree, Removing, ListInv, Typed
<1>2. /\ Listed = alive \ {arg} /\ Listed' = Listed /\ alive' = alive \ {arg} /\ UNCHANGED <<head, tail, fresh>>
      /\ nxt' = [nxt EXCEPT ![arg] = Null] /\ prv' = [prv EXCEPT ![arg] = Null]
  BY <1>1 DEF Listed, RemoveFree
<1> QED
  BY <1>1, <1>2 DEF ListInv, Typed, Ends, Links, Reached, Visited, Unlinked

\* The decoder writes to no list, and to no variable of the application.
LEMMA DecodeFrame ==
  ASSUME Decode
  PROVE  UNCHANGED <<list, app>>
<1>1. CASE DLock \/ DQuit \/ DIdle \/ DSignalEnd \/ DWait \/ DWakeHead \/ DFile
  BY <1>1 DEF DLock, DQuit, DIdle, DSignalEnd, DWait, DWakeHead, DFile
<1>2. CASE DFull \/ DSleep \/ DWakeDrain \/ DRoom \/ DFail \/ DNoSeek \/ DSeek \/ DSeekFlush
  BY <1>2 DEF DFull, DSleep, DWakeDrain, DRoom, DFail, DNoSeek, DSeek, DSeekFlush
<1>3. CASE DFlush \/ DEof \/ DDrain \/ DReadEnd \/ DReadPacket \/ DTake \/ DWalked \/ DReceived \/ DPut \/ DAdvance \/ DStore \/ DFault
  BY <1>3 DEF DFlush, DEof, DDrain, DReadEnd, DReadPacket, DTake, DWalked, DReceived, DPut, DAdvance, DStore, DFault
<1> QED
  BY <1>1, <1>2, <1>3 DEF Decode

LEMMA ListStep ==
  ASSUME ListInv, [Next]_vars
  PROVE  ListInv'
<1>1. CASE Decode /\ UNCHANGED setup
  BY <1>1, DecodeFrame, ListSame DEF app
<1>2. CASE DSpurious /\ UNCHANGED setup
  BY <1>2, ListSame DEF DSpurious, app
<1>3. ASSUME NEW s \in setup.sinks, Consume(s), UNCHANGED setup PROVE ListInv'
  BY <1>3, ListSame DEF Consume, GetBuffer, GetSignal, GetEnd, GetAborted, GetSleep, app
<1>4. CASE UNCHANGED vars
  BY <1>4, ListSame DEF vars, app
<1>5. CASE Application /\ UNCHANGED setup
  <2>1. ASSUME NEW i \in Item, Insert(i) PROVE ListInv'
    BY <1>5, <2>1, ListInsert
  <2>2. ASSUME NEW i \in Item, RemoveItem(i) PROVE ListInv'
    <3>1. apc \notin Removing /\ apc' \in Removing /\ i \in alive /\ Unlink(i)
      BY <2>2 DEF RemoveItem, May, Removing
    <3> QED
      BY <1>5, <3>1, ListUnlink
  <2>3. CASE Clear
    <3>1. apc \notin Removing /\ apc' \in Removing /\ head # Null /\ Unlink(head)
      BY <2>3 DEF Clear, Removing
    <3>2. head \in alive
      BY <3>1 DEF ListInv, Ends, Listed
    <3> QED
      BY <1>5, <3>1, <3>2, ListUnlink
  <2>4. CASE RemoveFree
    BY <1>5, <2>4, ListFree
  <2>5. CASE PurgeSink \/ RemoveSignal
    BY <1>5, <2>5, ListSame DEF PurgeSink, RemoveSignal, Removing
  <2>6. CASE ResizeSignal \/ DetachFlush \/ DetachMap \/ AttachReset
    BY <1>5, <2>6, ListSame DEF ResizeSignal, DetachFlush, DetachMap, AttachReset, Removing
  <2>7. CASE DestroyAbort \/ DestroyDrain \/ Join \/ DetachAll \/ Destroy
    BY <1>5, <2>7, ListSame DEF DestroyAbort, DestroyDrain, Join, DetachAll, Destroy, May, Removing
  <2>8. ASSUME NEW i \in Item, NEW target \in setup.seekTo, Seek(i, target) PROVE ListInv'
    BY <1>5, <2>8, ListSame DEF Seek
  <2>9. ASSUME NEW m \in {"any", "every"}, SetFillMode(m) PROVE ListInv'
    BY <1>5, <2>9, ListSame DEF SetFillMode
  <2>10. ASSUME NEW s \in setup.sinks, Detach(s) \/ Attach(s) PROVE ListInv'
    BY <1>5, <2>10, ListSame DEF Detach, Attach, May, Removing
  <2>11. ASSUME NEW s \in Sink, NEW n \in setup.sizes, SetBufferSize(s, n) PROVE ListInv'
    BY <1>5, <2>11, ListSame DEF SetBufferSize, May, Removing
  <2> QED
    BY <1>5, <2>1, <2>2, <2>3, <2>4, <2>5, <2>6, <2>7, <2>8, <2>9, <2>10, <2>11
       DEF Application, Continue
<1> QED
  BY <1>1, <1>2, <1>3, <1>4, <1>5 DEF Next

--------------------------------------------------------------------------------
(* The mutex and the sleep on decode_head_cond.                             *)

LEMMA WakeDecode ==
  ASSUME ListInv, Exclusive, Resting, Decode
  PROVE  (Exclusive /\ Resting)'
<1> USE DEF Exclusive, Resting, Holding, AppHolding
<1>1. CASE DLock
  BY <1>1 DEF DLock, list, play, app
<1>2. CASE DQuit
  BY <1>2 DEF DQuit, LocalsSame, list, play, app
<1>3. CASE DIdle
  BY <1>3 DEF DIdle, list, play, app
<1>4. CASE DSignalEnd
  BY <1>4 DEF DSignalEnd, NextSink, list, play, app
<1>5. CASE DWait
  BY <1>5 DEF DWait, LocalsSame, list, play, app
<1>6. CASE DWakeHead
  BY <1>6 DEF DWakeHead, LocalsSame, list, play, app
<1>7. CASE DFile
  BY <1>7 DEF DFile, list, play, app
<1>8. CASE DFull
  BY <1>8 DEF DFull, LocalsSame, list, play, app
<1>9. CASE DSleep
  BY <1>9 DEF DSleep, LocalsSame, list, play, app
<1>10. CASE DWakeDrain
  BY <1>10 DEF DWakeDrain, list
<1>11. CASE DRoom
  BY <1>11 DEF DRoom, LocalsSame, list, play, app
<1>12. CASE DFail
  BY <1>12 DEF DFail, list, play, app
<1>13. CASE DNoSeek
  BY <1>13 DEF DNoSeek, LocalsSame, list, play, app
<1>14. CASE DSeek
  BY <1>14 DEF DSeek, LocalsSame, list, play, app
<1>15. CASE DSeekFlush
  BY <1>15 DEF DSeekFlush, list, play, app
<1>16. CASE DFlush
  BY <1>16 DEF DFlush, NextSink, list, play, app
<1>17. CASE DEof
  BY <1>17 DEF DEof, LocalsSame, list, play, app
<1>18. CASE DReadEnd
  BY <1>18 DEF DReadEnd, LocalsSame, list, play, app
<1>19. CASE DReadPacket
  BY <1>19 DEF DReadPacket, list, play, app
<1>20. CASE DPut
  BY <1>20 DEF DPut, list, play, app
<1>21. CASE DAdvance
  BY <1>21 DEF DAdvance, list, play, app
<1>22. CASE DStore
  BY <1>22 DEF DStore, list, app
<1>23. CASE DFault
  BY <1>23 DEF DFault, list, play, dec, app
<1>24. CASE DDrain
  BY <1>24 DEF DDrain, list, play, app
<1>25. CASE DTake
  BY <1>25 DEF DTake, list, play, app
<1>26. CASE DWalked
  BY <1>26 DEF DWalked, list, play, app
<1>27. CASE DReceived
  BY <1>27 DEF DReceived, list, play, app
<1> QED
  BY <1>1, <1>2, <1>3, <1>4, <1>5, <1>6, <1>7, <1>8, <1>9, <1>10, <1>11, <1>12, <1>13, <1>14,
     <1>15, <1>16, <1>17, <1>18, <1>19, <1>20, <1>21, <1>22, <1>23, <1>24, <1>25, <1>26, <1>27 DEF Decode

LEMMA WakeApplication ==
  ASSUME ListInv, Exclusive, Resting, Application
  PROVE  (Exclusive /\ Resting)'
<1> USE DEF Exclusive, Resting, Holding, AppHolding
<1>1. ASSUME NEW i \in Item, Insert(i) PROVE (Exclusive /\ Resting)'
  <2>1. owner = "nobody" /\ UNCHANGED <<abort_request, owner, strayed, apc>>
    BY <1>1 DEF Insert, HeadFree, LocalsSame, app
  <2>2. UNCHANGED <<decode_head, dpc>> \/ dpc' = DecoderAfterHeadSignal
    BY <1>1 DEF Insert, InsertBefore, InsertFirst, InsertLast, SignalHead
  <2> QED
    BY <2>1, <2>2 DEF DecoderAfterHeadSignal
<1>2. ASSUME NEW i \in Item, RemoveItem(i) PROVE (Exclusive /\ Resting)'
  <2>1. i # Null
    BY NullAssumption
  <2> QED
    BY <1>2, <2>1 DEF RemoveItem, Unlink, May, HeadFree, dec
<1>3. ASSUME NEW i \in Item, NEW target \in setup.seekTo, Seek(i, target) PROVE (Exclusive /\ Resting)'
  BY <1>3 DEF Seek, HeadFree, SignalHead, DecoderAfterHeadSignal, LocalsSame, list
<1>4. ASSUME NEW m \in {"any", "every"}, SetFillMode(m) PROVE (Exclusive /\ Resting)'
  BY <1>4 DEF SetFillMode, list, dec
<1>5. ASSUME NEW s \in setup.sinks, Detach(s) \/ Attach(s) PROVE (Exclusive /\ Resting)'
  BY <1>5 DEF Detach, Attach, May, SignalDrain, DecoderAfterDrainSignal, LocalsSame, list, play, dec
<1>6. ASSUME NEW s \in Sink, NEW n \in setup.sizes, SetBufferSize(s, n) PROVE (Exclusive /\ Resting)'
  BY <1>6 DEF SetBufferSize, May, HeadFree, list, play, dec
<1>7. CASE Destroy \/ Clear
  <2>1. CASE Destroy
    BY <2>1 DEF Destroy, May, list, play, dec
  <2>2. CASE Clear
    BY <2>2 DEF Clear, Unlink, HeadFree, dec
  <2> QED
    BY <1>7, <2>1, <2>2
<1>8. CASE PurgeSink
  BY <1>8 DEF PurgeSink, list, play, dec
<1>9. CASE RemoveSignal \/ ResizeSignal
  BY <1>9 DEF RemoveSignal, ResizeSignal, SignalDrain, DecoderAfterDrainSignal, LocalsSame, list, play
<1>10. CASE RemoveFree
  BY <1>10 DEF RemoveFree, play, dec
<1>11. CASE DetachFlush \/ DetachMap \/ AttachReset
  BY <1>11 DEF DetachFlush, DetachMap, AttachReset, list, play, dec
<1>12. CASE DestroyAbort
  BY <1>12 DEF DestroyAbort, HeadFree, SignalHead, DecoderAfterHeadSignal, LocalsSame, list
<1>13. CASE DestroyDrain
  BY <1>13 DEF DestroyDrain, SignalDrain, DecoderAfterDrainSignal, LocalsSame, list, play
<1>14. CASE Join \/ DetachAll
  BY <1>14 DEF Join, DetachAll, list, play, dec
<1> QED
  BY <1>1, <1>2, <1>3, <1>4, <1>5, <1>6, <1>7, <1>8, <1>9, <1>10, <1>11, <1>12, <1>13, <1>14
     DEF Application, Continue

LEMMA WakeConsume ==
  ASSUME ListInv, Exclusive, Resting, NEW s \in setup.sinks, Consume(s)
  PROVE  (Exclusive /\ Resting)'
<1> USE DEF Exclusive, Resting, Holding, AppHolding
<1>1. CASE GetSignal(s)
  BY <1>1 DEF GetSignal, SignalDrain, DecoderAfterDrainSignal, LocalsSame, list, play, app
<1>2. CASE ~GetSignal(s)
  BY <1>2 DEF Consume, GetBuffer, GetEnd, GetAborted, GetSleep, list, play, dec, app
<1> QED
  BY <1>1, <1>2

LEMMA WakeStep ==
  ASSUME ListInv, Exclusive, Resting, [Next]_vars
  PROVE  (Exclusive /\ Resting)'
<1>1. CASE DSpurious
  BY <1>1 DEF DSpurious, LocalsSame, list, play, app, Exclusive, Resting, Holding, AppHolding
<1>2. CASE UNCHANGED vars
  BY <1>2 DEF vars, list, play, dec, app, Exclusive, Resting, Holding, AppHolding
<1> QED
  BY <1>1, <1>2, WakeDecode, WakeApplication, WakeConsume DEF Next

--------------------------------------------------------------------------------
(* decode_head follows the list.                                           *)

LEMMA FollowDecode ==
  ASSUME IInv, Decode
  PROVE  Following'
<1>0. Listed' = Listed
  BY DecodeFrame DEF Listed, list, app
<1>1. CASE DLock \/ DQuit \/ DIdle \/ DSignalEnd \/ DWait \/ DWakeHead \/ DFile
  BY <1>0, <1>1 DEF IInv, Following, DLock, DQuit, DIdle, DSignalEnd, DWait, DWakeHead, DFile,
     NextSink, LocalsSame, play
<1>2. CASE DFull \/ DSleep \/ DWakeDrain \/ DRoom \/ DFail \/ DNoSeek \/ DSeek \/ DSeekFlush
  BY <1>0, <1>2 DEF IInv, Following, DFull, DSleep, DWakeDrain, DRoom, DFail, DNoSeek, DSeek, DSeekFlush,
     LocalsSame, play
<1>3. CASE DFlush \/ DEof \/ DDrain \/ DReadEnd \/ DReadPacket \/ DTake \/ DWalked \/ DReceived \/ DPut \/ DFault
  BY <1>0, <1>3 DEF IInv, Following, DFlush, DEof, DDrain, DReadEnd, DReadPacket, DTake, DWalked, DReceived, DPut, DFault,
     NextSink, LocalsSame, play, dec
<1>4. CASE DAdvance
  <2>1. ~strayed => nxt[decode_head] \in Listed \cup {Null}
    <3> SUFFICES ASSUME ~strayed PROVE nxt[decode_head] \in Listed \cup {Null}
      OBVIOUS
    <3>1. decode_head \in Listed
      BY <1>4, NullAssumption DEF DAdvance, IInv, Following, ListInv, Typed
    <3> QED
      BY <3>1 DEF IInv, ListInv, Links
  <2> QED
    BY <1>0, <1>4, <2>1 DEF IInv, Following, DAdvance, play
<1>5. CASE DStore
  BY <1>0, <1>5 DEF IInv, Following, DStore
<1> QED
  BY <1>1, <1>2, <1>3, <1>4, <1>5 DEF Decode

LEMMA FollowUnlink ==
  ASSUME IInv, apc \notin Removing, apc' \in Removing, NEW i \in alive, Unlink(i)
  PROVE  Following'
<1>1. Listed = alive /\ Listed' = alive \ {i}
  BY DEF Listed, Unlink
<1>2. nxt[i] \in (alive \ {i}) \cup {Null}
  BY <1>1, NoLoop DEF IInv, ListInv, Links
<1>3. /\ owner = "nobody" /\ UNCHANGED <<dpc, dnext, strayed>>
      /\ decode_head' = IF decode_head = i THEN nxt[i] ELSE decode_head
  BY DEF Unlink, HeadFree, dec
<1> QED
  BY <1>1, <1>2, <1>3 DEF IInv, Following, Exclusive, Holding

\* Whoever moves decode_head from outside holds the mutex, so that the decoder
\* is nowhere near its own store.
LEMMA FollowApplication ==
  ASSUME IInv, Application
  PROVE  Following'
<1>1. ASSUME NEW i \in Item, Insert(i) PROVE Following'
  <2>1. /\ Listed = alive /\ Listed' = alive \cup {i} /\ owner = "nobody"
        /\ UNCHANGED <<dnext, strayed>>
    BY <1>1 DEF Insert, May, HeadFree, LocalsSame, app, Listed, Removing
  <2>2. decode_head' \in {decode_head, i} /\ dpc' \in {dpc, "woken_head"}
    BY <1>1 DEF Insert, InsertBefore, InsertFirst, InsertLast, SignalHead, DecoderAfterHeadSignal
  <2> QED
    BY <2>1, <2>2 DEF IInv, Following, Exclusive, Holding
<1>2. ASSUME NEW i \in Item, RemoveItem(i) PROVE Following'
  <2>1. apc \notin Removing /\ apc' \in Removing /\ i \in alive /\ Unlink(i)
    BY <1>2 DEF RemoveItem, May, Removing
  <2> QED
    BY <2>1, FollowUnlink
<1>3. CASE Clear
  <2>1. apc \notin Removing /\ apc' \in Removing /\ head # Null /\ Unlink(head)
    BY <1>3 DEF Clear, Removing
  <2>2. head \in alive
    BY <2>1 DEF IInv, ListInv, Ends, Listed
  <2> QED
    BY <2>1, <2>2, FollowUnlink
<1>4. CASE RemoveFree
  <2>1. Listed' = Listed
    BY <1>4 DEF RemoveFree, Listed, Removing
  <2> QED
    BY <1>4, <2>1 DEF RemoveFree, IInv, Following, play, dec
<1>5. ASSUME NEW i \in Item, NEW target \in setup.seekTo, Seek(i, target) PROVE Following'
  <2>1. /\ Listed' = Listed /\ i \in Listed /\ owner = "nobody" /\ decode_head' = i
        /\ dpc' \in {dpc, "woken_head"} /\ UNCHANGED <<dnext, strayed>>
    BY <1>5 DEF Seek, May, HeadFree, SignalHead, DecoderAfterHeadSignal, LocalsSame, list, Listed, Removing
  <2> QED
    BY <2>1 DEF IInv, Following, Exclusive, Holding
<1>6. CASE PurgeSink \/ RemoveSignal
  <2>1. Listed' = Listed
    BY <1>6 DEF PurgeSink, RemoveSignal, Listed, Removing, list
  <2> QED
    BY <1>6, <2>1 DEF PurgeSink, RemoveSignal, SignalDrain, DecoderAfterDrainSignal, LocalsSame,
       IInv, Following, play, dec
<1>7. ASSUME UNCHANGED <<alive, decode_head, dnext, strayed>>, dpc' \in {dpc, "woken_head", "woken_drain"},
             apc \notin Removing, apc' \notin Removing
      PROVE  Following'
  BY <1>7 DEF IInv, Following, Listed
<1>8. CASE ResizeSignal \/ DetachFlush \/ DetachMap \/ AttachReset
  BY <1>7, <1>8 DEF ResizeSignal, DetachFlush, DetachMap, AttachReset, SignalDrain,
     DecoderAfterDrainSignal, LocalsSame, list, play, dec, Removing
<1>9. CASE DestroyAbort \/ DestroyDrain \/ Join \/ DetachAll \/ Destroy
  BY <1>7, <1>9 DEF DestroyAbort, DestroyDrain, Join, DetachAll, Destroy, May, SignalDrain, SignalHead,
     DecoderAfterDrainSignal, DecoderAfterHeadSignal, LocalsSame, list, play, dec, Removing
<1>10. ASSUME NEW m \in {"any", "every"}, SetFillMode(m) PROVE Following'
  BY <1>7, <1>10 DEF SetFillMode, May, list, dec, Removing
<1>11. ASSUME NEW s \in setup.sinks, Detach(s) \/ Attach(s) PROVE Following'
  BY <1>7, <1>11 DEF Detach, Attach, May, SignalDrain, DecoderAfterDrainSignal, LocalsSame, list,
     play, dec, Removing
<1>12. ASSUME NEW s \in Sink, NEW n \in setup.sizes, SetBufferSize(s, n) PROVE Following'
  BY <1>7, <1>12 DEF SetBufferSize, May, list, play, dec, Removing
<1> QED
  BY <1>1, <1>2, <1>3, <1>4, <1>5, <1>6, <1>8, <1>9, <1>10, <1>11, <1>12 DEF Application, Continue

LEMMA FollowStep ==
  ASSUME IInv, [Next]_vars
  PROVE  Following'
<1>1. CASE DSpurious
  BY <1>1 DEF DSpurious, LocalsSame, list, play, app, IInv, Following, Listed
<1>2. ASSUME NEW s \in setup.sinks, Consume(s) PROVE Following'
  BY <1>2 DEF Consume, GetBuffer, GetSignal, GetEnd, GetAborted, GetSleep, SignalDrain,
     DecoderAfterDrainSignal, LocalsSame, list, play, dec, app, IInv, Following, Listed
<1>3. CASE UNCHANGED vars
  BY <1>3 DEF vars, list, play, dec, app, IInv, Following, Listed
<1> QED
  BY <1>1, <1>2, <1>3, FollowDecode, FollowApplication DEF Next

--------------------------------------------------------------------------------
LEMMA Inductive == SafeSpec => []IInv
<1>1. Init => IInv
  BY ListInit DEF IInv, Init, Exclusive, Resting, Following, Holding, AppHolding
<1>2. IInv /\ [Next]_vars => IInv'
  BY ListStep, WakeStep, FollowStep DEF IInv
<1> QED
  BY <1>1, <1>2, PTL DEF SafeSpec

\* groove_playlist_insert and groove_playlist_remove keep the doubly linked list
\* whole, and decode_head on it, wherever the decode thread is.
THEOREM ListSafe == SafeSpec => []ListSound
<1>1. IInv => ListSound
  BY DEF IInv, ListInv, Following, ListSound, HeadListed
<1> QED
  BY <1>1, Inductive, PTL

\* decode_head_cond: the decoder that sleeps there has nothing to decode and was
\* not asked to quit.
THEOREM HeadWakes == SafeSpec => []HeadNotLost
<1>1. IInv => HeadNotLost
  BY DEF IInv, Resting, HeadNotLost
<1> QED
  BY <1>1, Inductive, PTL

--------------------------------------------------------------------------------
(* The sinks, in the order in which every_sink visits them.                 *)

MapOK == sink_map \in Seq(Sink) /\ Once(sink_map)

\* c, and those it visits after c.
Later(c) ==
  {t \in Attached : \E j, k \in DOMAIN sink_map : j <= k /\ sink_map[j] = c /\ sink_map[k] = t}

LEMMA VisitFirst ==
  ASSUME MapOK, First # Null
  PROVE  First \in Attached /\ Later(First) = Attached
<1>1. DOMAIN sink_map = 1 .. Len(sink_map) /\ Len(sink_map) \in Nat
  BY DEF MapOK
<1>2. sink_map # <<>> /\ First = Head(sink_map)
  BY DEF First
<1>3. 1 \in DOMAIN sink_map /\ sink_map[1] = First
  BY <1>1, <1>2 DEF MapOK
<1>4. First \in Attached
  BY <1>3 DEF Attached, Range
<1>5. ASSUME NEW t \in Attached PROVE t \in Later(First)
  <2>1. PICK k \in DOMAIN sink_map : sink_map[k] = t
    BY <1>5 DEF Attached, Range
  <2>2. 1 <= k
    BY <2>1, <1>1
  <2> QED
    BY <2>1, <2>2, <1>3, <1>5 DEF Later
<1> QED
  BY <1>4, <1>5 DEF Later

LEMMA VisitNext ==
  ASSUME MapOK, NEW c \in Attached
  PROVE  /\ c \in Later(c)
         /\ IF After(c) = Null THEN Later(c) = {c}
            ELSE After(c) \in Attached /\ Later(After(c)) = Later(c) \ {c}
<1>1. DOMAIN sink_map = 1 .. Len(sink_map) /\ Len(sink_map) \in Nat
      /\ \A j, k \in DOMAIN sink_map : sink_map[j] = sink_map[k] => j = k
  BY DEF MapOK, Once
<1>2. PICK p \in DOMAIN sink_map : sink_map[p] = c
  BY DEF Attached, Range
<1>3. After(c) = IF p = Len(sink_map) THEN Null ELSE sink_map[p + 1]
  <2>1. (CHOOSE k \in DOMAIN sink_map : sink_map[k] = c) = p
    BY <1>1, <1>2
  <2> DEFINE at == CHOOSE k \in DOMAIN sink_map : sink_map[k] = c
  <2>2. After(c) = IF at = Len(sink_map) THEN Null ELSE sink_map[at + 1]
    BY DEF After
  <2>3. at = p
    BY <2>1
  <2> HIDE DEF at
  <2> QED
    BY <2>2, <2>3
<1>4. \A t : t \in Later(c) <=> \E n \in DOMAIN sink_map : p <= n /\ sink_map[n] = t
  BY <1>1, <1>2 DEF Later, Attached, Range
<1>5. c \in Later(c)
  <2>1. p <= p
    BY <1>1
  <2> QED
    BY <2>1, <1>2, <1>4
<1>6. CASE p = Len(sink_map)
  <2>1. \A n \in DOMAIN sink_map : p <= n => n = p
    BY <1>1, <1>6
  <2>2. Later(c) = {c}
    BY <2>1, <1>2, <1>4, <1>5
  <2> QED
    BY <2>2, <1>3, <1>5, <1>6
<1>7. CASE p # Len(sink_map)
  <2>1. p + 1 \in DOMAIN sink_map
    BY <1>1, <1>2, <1>7
  <2> DEFINE d == sink_map[p + 1]
  <2>2. After(c) = d /\ d \in Attached /\ d \in Sink
    BY <2>1, <1>3, <1>7 DEF Attached, Range, MapOK
  <2>3. After(c) # Null
    BY <2>2, NullAssumption
  <2>4. \A t : t \in Later(d) <=> \E n \in DOMAIN sink_map : p + 1 <= n /\ sink_map[n] = t
    BY <2>1, <1>1 DEF Later, Attached, Range
  <2>5. \A n \in DOMAIN sink_map : p + 1 <= n <=> p <= n /\ n # p
    BY <1>1, <1>2
  <2>6. \A n \in DOMAIN sink_map : n # p <=> sink_map[n] # c
    BY <1>1, <1>2
  <2> HIDE DEF d
  <2>7. Later(d) = Later(c) \ {c}
    BY <2>4, <2>5, <2>6, <1>4
  <2> QED
    BY <2>2, <2>3, <2>7, <1>5
<1> QED
  BY <1>6, <1>7

\* A sink that comes may come anywhere, and changes nothing for the others.
LEMMA VisitAttach ==
  ASSUME MapOK, NEW s \in Sink, s \notin Attached, NEW k \in 1 .. Len(sink_map) + 1,
         sink_map' = InsertAt(sink_map, k, s)
  PROVE  /\ MapOK' /\ Attached' = Attached \cup {s}
         /\ \A c \in Attached : Later(c)' \ {s} = Later(c)
<1> DEFINE m  == sink_map
           mm == sink_map'
           up(n) == IF n < k THEN n ELSE n + 1
<1>1. m \in Seq(Sink) /\ DOMAIN m = 1 .. Len(m) /\ Len(m) \in Nat
      /\ \A i, j \in DOMAIN m : m[i] = m[j] => i = j
  BY DEF MapOK, Once
<1>0. k \in 1 .. Len(m) + 1
  OBVIOUS
<1>2. mm = (SubSeq(m, 1, k - 1) \o <<s>>) \o SubSeq(m, k, Len(m))
  BY DEF InsertAt
<1>3. mm \in Seq(Sink) /\ Len(mm) = Len(m) + 1
      /\ \A n \in 1 .. Len(m) + 1 : mm[n] = IF n < k THEN m[n] ELSE IF n = k THEN s ELSE m[n - 1]
  <2> DEFINE a == SubSeq(m, 1, k - 1)
             b == SubSeq(m, k, Len(m))
  <2>0. k \in Nat /\ 1 <= k /\ k <= Len(m) + 1
    BY <1>1
  <2>1. a \in Seq(Sink) /\ Len(a) = k - 1 /\ \A n \in 1 .. k - 1 : a[n] = m[n]
    BY <2>0, <1>1
  <2>2. b \in Seq(Sink) /\ Len(b) = Len(m) - k + 1 /\ \A n \in 1 .. Len(m) - k + 1 : b[n] = m[k + n - 1]
    BY <2>0, <1>1
  <2> HIDE DEF a, b
  <2>3. <<s>> \in Seq(Sink) /\ Len(<<s>>) = 1 /\ <<s>>[1] = s
    OBVIOUS
  <2> DEFINE u == a \o <<s>>
  <2>4. u \in Seq(Sink) /\ Len(u) = k /\ \A n \in 1 .. k : u[n] = IF n < k THEN m[n] ELSE s
    BY <2>0, <2>1, <2>3
  <2> HIDE DEF u
  <2>5. u \o b \in Seq(Sink) /\ Len(u \o b) = Len(m) + 1
        /\ \A n \in 1 .. Len(m) + 1 : (u \o b)[n] = IF n <= k THEN u[n] ELSE b[n - k]
    BY <2>0, <2>2, <2>4, <1>1
  <2>6. mm = u \o b
    BY <1>2 DEF u, a, b
  <2>7. ASSUME NEW n \in 1 .. Len(m) + 1 PROVE mm[n] = IF n < k THEN m[n] ELSE IF n = k THEN s ELSE m[n - 1]
    <3>1. CASE n <= k
      <4>1. n \in 1 .. k
        BY <3>1, <2>0
      <4> QED
        BY <4>1, <2>4, <2>5, <2>6
    <3>2. CASE ~(n <= k)
      <4>1. n - k \in 1 .. Len(m) - k + 1 /\ k + (n - k) - 1 = n - 1 /\ ~(n < k) /\ n # k
        BY <3>2, <2>0, <1>1
      <4> QED
        BY <4>1, <3>2, <2>2, <2>5, <2>6
    <3> QED
      BY <3>1, <3>2
  <2> QED
    BY <2>5, <2>6, <2>7
<1> HIDE DEF m, mm
<1>4. DOMAIN mm = 1 .. Len(m) + 1
  BY <1>3
<1>5. \A n \in DOMAIN m : up(n) \in DOMAIN mm /\ mm[up(n)] = m[n]
  BY <1>1, <1>3, <1>4
<1>6. \A n \in DOMAIN mm : n = k \/ \E i \in DOMAIN m : n = up(i)
  <2>1. ASSUME NEW n \in DOMAIN mm, n # k PROVE \E i \in DOMAIN m : n = up(i)
    <3>1. CASE n < k
      <4>1. n \in DOMAIN m /\ up(n) = n
        BY <2>1, <3>1, <1>0, <1>1, <1>4
      <4> QED
        BY <4>1
    <3>2. CASE ~(n < k)
      <4>1. n - 1 \in DOMAIN m /\ up(n - 1) = n
        BY <2>1, <3>2, <1>1, <1>4
      <4> QED
        BY <4>1
    <3> QED
      BY <3>1, <3>2
  <2> QED
    BY <2>1
<1>7. \A i, j \in DOMAIN m : i <= j <=> up(i) <= up(j)
  BY <1>1
<1>8. k \in DOMAIN mm /\ mm[k] = s /\ \A n \in DOMAIN m : m[n] # s
  <2>1. \A n \in DOMAIN m : m[n] # s
    BY DEF Attached, Range, m
  <2> QED
    BY <2>1, <1>0, <1>1, <1>3, <1>4
<1>9. \A i, j \in DOMAIN mm : mm[i] = mm[j] => i = j
  <2> HIDE DEF up
  <2> QED
    BY <1>1, <1>5, <1>6, <1>8
<1>10. MapOK'
  BY <1>3, <1>9 DEF MapOK, Once, mm
<1>11. Attached' = Attached \cup {s}
  <2> HIDE DEF up
  <2>1. Range(mm) = Range(m) \cup {s}
    BY <1>5, <1>6, <1>8 DEF Range
  <2> QED
    BY <2>1 DEF Attached, m, mm
<1>12. ASSUME NEW c \in Attached PROVE Later(c)' \ {s} = Later(c)
  <2> HIDE DEF up
  <2>1. c # s
    OBVIOUS
  <2>2. \A t : t \in Later(c) <=> \E i, j \in DOMAIN m : i <= j /\ m[i] = c /\ m[j] = t
    BY DEF Later, Attached, Range, m
  <2>3. \A t : t \in Later(c)' <=> \E i, j \in DOMAIN mm : i <= j /\ mm[i] = c /\ mm[j] = t
    BY DEF Later, Attached, Range, mm
  <2>4. ASSUME NEW t \in Later(c) PROVE t \in Later(c)' /\ t # s
    <3>1. PICK i \in DOMAIN m, j \in DOMAIN m : i <= j /\ m[i] = c /\ m[j] = t
      BY <2>2, <2>4
    <3> QED
      BY <3>1, <2>3, <1>5, <1>7, <1>8
  <2>5. ASSUME NEW t \in Later(c)', t # s PROVE t \in Later(c)
    <3>1. PICK i \in DOMAIN mm, j \in DOMAIN mm : i <= j /\ mm[i] = c /\ mm[j] = t
      BY <2>3, <2>5
    <3>2. i # k /\ j # k
      BY <3>1, <2>1, <2>5, <1>8
    <3>3. PICK ii \in DOMAIN m : i = up(ii)
      BY <3>2, <1>6
    <3>4. PICK jj \in DOMAIN m : j = up(jj)
      BY <3>2, <1>6
    <3> QED
      BY <3>1, <3>3, <3>4, <2>2, <1>5, <1>7
  <2> QED
    BY <2>4, <2>5
<1> QED
  BY <1>10, <1>11, <1>12

\* A sink that goes takes itself out of every such order, and nothing else.
LEMMA VisitDetach ==
  ASSUME MapOK, NEW s, sink_map' = Keep(sink_map, Sink \ {s})
  PROVE  /\ MapOK' /\ Attached' = Attached \ {s}
         /\ \A c \in Attached' : Later(c)' = Later(c) \ {s}
<1> DEFINE m  == sink_map
           mm == sink_map'
<1>1. m \in Seq(Sink) /\ DOMAIN m = 1 .. Len(m) /\ Len(m) \in Nat
      /\ \A i, j \in DOMAIN m : m[i] = m[j] => i = j
  BY DEF MapOK, Once
<1>2. mm \in Seq(Sink) /\ Range(mm) = Range(m) \cap (Sink \ {s})
  BY <1>1, KeepType, KeepRange
<1>3. \A j, k \in DOMAIN mm : j < k => \E i, n \in DOMAIN m : i < n /\ m[i] = mm[j] /\ m[n] = mm[k]
  BY <1>1, KeepOrder
<1> HIDE DEF m, mm
<1>4. DOMAIN mm = 1 .. Len(mm) /\ Len(mm) \in Nat
  BY <1>2
<1>5. \A j, k \in DOMAIN mm : mm[j] = mm[k] => j = k
  <2>1. ASSUME NEW j \in DOMAIN mm, NEW k \in DOMAIN mm, j < k, mm[j] = mm[k] PROVE FALSE
    <3>1. PICK i \in DOMAIN m, n \in DOMAIN m : i < n /\ m[i] = mm[j] /\ m[n] = mm[k]
      BY <1>3, <2>1
    <3>2. i = n
      BY <3>1, <2>1, <1>1
    <3> QED
      BY <3>1, <3>2, <1>1
  <2>2. \A j, k \in DOMAIN mm : j < k \/ k < j \/ j = k
    BY <1>4
  <2> QED
    BY <2>1, <2>2
<1>6. MapOK'
  BY <1>2, <1>5 DEF MapOK, Once, mm
<1>7. Attached' = Attached \ {s}
  <2>1. Range(m) \subseteq Sink
    BY <1>1 DEF Range
  <2>2. Range(mm) = Range(m) \ {s}
    BY <1>2, <2>1
  <2> QED
    BY <2>2 DEF Attached, m, mm
<1>8. ASSUME NEW c \in Attached' PROVE Later(c)' = Later(c) \ {s}
  <2>1. \A t : t \in Later(c) <=> \E i, j \in DOMAIN m : i <= j /\ m[i] = c /\ m[j] = t
    BY DEF Later, Attached, Range, m
  <2>2. \A t : t \in Later(c)' <=> \E i, j \in DOMAIN mm : i <= j /\ mm[i] = c /\ mm[j] = t
    BY DEF Later, Attached, Range, mm
  <2>3. \A t : t \in Attached' <=> \E j \in DOMAIN mm : mm[j] = t
    BY DEF Attached, Range, mm
  <2>4. ASSUME NEW t \in Later(c)' PROVE t \in Later(c) \ {s}
    <3>1. PICK i \in DOMAIN mm, j \in DOMAIN mm : i <= j /\ mm[i] = c /\ mm[j] = t
      BY <2>2, <2>4
    <3>2. t \in Attached \ {s} /\ c \in Attached
      BY <3>1, <2>3, <1>7, <1>8
    <3>3. CASE i = j
      <4>1. PICK n \in DOMAIN m : m[n] = c
        BY <3>2 DEF Attached, Range, m
      <4>2. n <= n
        BY <1>1
      <4> QED
        BY <3>1, <3>2, <3>3, <4>1, <4>2, <2>1
    <3>4. CASE i # j
      <4>1. i < j
        BY <3>1, <3>4, <1>4
      <4>2. PICK a \in DOMAIN m, b \in DOMAIN m : a < b /\ m[a] = c /\ m[b] = t
        BY <4>1, <3>1, <1>3
      <4>3. a <= b
        BY <4>2, <1>1
      <4> QED
        BY <4>2, <4>3, <3>2, <2>1
    <3> QED
      BY <3>3, <3>4
  <2>5. ASSUME NEW t \in Later(c) \ {s} PROVE t \in Later(c)'
    <3>1. PICK a \in DOMAIN m, b \in DOMAIN m : a <= b /\ m[a] = c /\ m[b] = t
      BY <2>1, <2>5
    <3>2. t \in Attached'
      BY <2>5, <1>7 DEF Later
    <3>3. PICK i \in DOMAIN mm : mm[i] = c
      BY <1>8, <2>3
    <3>4. PICK j \in DOMAIN mm : mm[j] = t
      BY <3>2, <2>3
    <3>5. i <= j
      <4>1. SUFFICES ASSUME j < i PROVE FALSE
        BY <1>4
      <4>2. PICK x \in DOMAIN m, y \in DOMAIN m : x < y /\ m[x] = t /\ m[y] = c
        BY <4>1, <3>3, <3>4, <1>3
      <4>3. x = b /\ y = a
        BY <4>2, <3>1, <1>1
      <4> QED
        BY <4>2, <4>3, <3>1, <1>1
    <3> QED
      BY <3>3, <3>4, <3>5, <2>2
  <2> QED
    BY <2>4, <2>5
<1> QED
  BY <1>6, <1>7, <1>8

--------------------------------------------------------------------------------
(* What the steps change of the sinks, and the types.                       *)

Stays == Next \/ UNCHANGED vars

LEMMA QueueMoves ==
  ASSUME Stays
  PROVE  \/ UNCHANGED <<audioq, contains_end>>
         \/ DSignalEnd \/ DFlush \/ DPut \/ PurgeSink \/ DetachFlush \/ DetachAll
         \/ \E s \in setup.sinks : GetBuffer(s) \/ GetEnd(s)
<1> DEFINE Same == UNCHANGED <<audioq, contains_end>>
<1>1. CASE UNCHANGED vars
  BY <1>1 DEF vars, sink
<1>2. CASE Decode \/ DSpurious
  <2>1. CASE DLock \/ DQuit \/ DIdle \/ DWait \/ DWakeHead \/ DFile \/ DSpurious
    BY <2>1 DEF DLock, DQuit, DIdle, DWait, DWakeHead, DFile, DSpurious, sink
  <2>2. CASE DFull \/ DSleep \/ DWakeDrain \/ DRoom \/ DFail \/ DNoSeek \/ DSeek \/ DSeekFlush
    BY <2>2 DEF DFull, DSleep, DWakeDrain, DRoom, DFail, DNoSeek, DSeek, DSeekFlush, sink
  <2>3. CASE DEof \/ DDrain \/ DReadEnd \/ DReadPacket \/ DTake \/ DWalked \/ DReceived \/ DAdvance \/ DStore \/ DFault
    BY <2>3 DEF DEof, DDrain, DReadEnd, DReadPacket, DTake, DWalked, DReceived, DAdvance, DStore, DFault, sink
  <2> QED
    BY <1>2, <2>1, <2>2, <2>3 DEF Decode
<1>3. ASSUME NEW s \in setup.sinks, Consume(s)
      PROVE  Same \/ GetBuffer(s) \/ GetEnd(s)
  BY <1>3 DEF Consume, GetSignal, GetAborted, GetSleep
<1>4. CASE Application
  <2>1. ASSUME NEW i \in Item, Insert(i) \/ RemoveItem(i) PROVE Same
    BY <2>1 DEF Insert, RemoveItem, Unlink, sink
  <2>2. ASSUME NEW i \in Item, NEW target \in setup.seekTo, Seek(i, target) PROVE Same
    BY <2>2 DEF Seek, sink
  <2>3. ASSUME NEW m \in {"any", "every"}, SetFillMode(m) PROVE Same
    BY <2>3 DEF SetFillMode, sink
  <2>4. ASSUME NEW s \in setup.sinks, Detach(s) \/ Attach(s) PROVE Same
    BY <2>4 DEF Detach, Attach
  <2>5. ASSUME NEW s \in Sink, NEW n \in setup.sizes, SetBufferSize(s, n) PROVE Same
    BY <2>5 DEF SetBufferSize
  <2>6. CASE Destroy \/ RemoveSignal \/ RemoveFree \/ ResizeSignal \/ DetachMap \/ AttachReset
    BY <2>6 DEF Destroy, RemoveSignal, RemoveFree, ResizeSignal, DetachMap, AttachReset, sink
  <2>7. CASE Clear \/ DestroyAbort \/ DestroyDrain \/ Join
    BY <2>7 DEF Clear, Unlink, DestroyAbort, DestroyDrain, Join, sink
  <2> QED
    BY <1>4, <2>1, <2>2, <2>3, <2>4, <2>5, <2>6, <2>7 DEF Application, Continue
<1> QED
  BY <1>1, <1>2, <1>3, <1>4 DEF Stays, Next

LEMMA DecodeMap ==
  ASSUME Decode
  PROVE  UNCHANGED sink_map
<1>1. CASE DLock \/ DQuit \/ DIdle \/ DSignalEnd \/ DWait \/ DWakeHead \/ DFile
  BY <1>1 DEF DLock, DQuit, DIdle, DSignalEnd, DWait, DWakeHead, DFile, play
<1>2. CASE DFull \/ DSleep \/ DWakeDrain \/ DRoom \/ DFail \/ DNoSeek \/ DSeek \/ DSeekFlush
  BY <1>2 DEF DFull, DSleep, DWakeDrain, DRoom, DFail, DNoSeek, DSeek, DSeekFlush, play
<1>3. CASE DFlush \/ DEof \/ DDrain \/ DReadEnd \/ DReadPacket \/ DTake \/ DWalked \/ DReceived \/ DPut \/ DAdvance \/ DStore \/ DFault
  BY <1>3 DEF DFlush, DEof, DDrain, DReadEnd, DReadPacket, DTake, DWalked, DReceived, DPut, DAdvance, DStore, DFault, play
<1> QED
  BY <1>1, <1>2, <1>3 DEF Decode

LEMMA MapMoves ==
  ASSUME Stays
  PROVE  \/ UNCHANGED sink_map
         \/ DetachMap \/ DetachAll \/ \E s \in setup.sinks : Attach(s)
<1>1. CASE UNCHANGED vars
  BY <1>1 DEF vars, play
<1>2. CASE Decode \/ DSpurious
  BY <1>2, DecodeMap DEF DSpurious, play
<1>3. ASSUME NEW s \in setup.sinks, Consume(s) PROVE UNCHANGED sink_map
  BY <1>3 DEF Consume, GetBuffer, GetEnd, GetSignal, GetAborted, GetSleep, play
<1>4. ASSUME NEW i \in Item, Insert(i) \/ RemoveItem(i) PROVE UNCHANGED sink_map
  BY <1>4 DEF Insert, RemoveItem, Unlink
<1>5. ASSUME NEW i \in Item, NEW target \in setup.seekTo, Seek(i, target) PROVE UNCHANGED sink_map
  BY <1>5 DEF Seek
<1>6. ASSUME NEW m \in {"any", "every"}, SetFillMode(m) PROVE UNCHANGED sink_map
  BY <1>6 DEF SetFillMode
<1>7. ASSUME NEW s \in setup.sinks, Detach(s) PROVE UNCHANGED sink_map
  BY <1>7 DEF Detach, play
<1>8. ASSUME NEW s \in Sink, NEW n \in setup.sizes, SetBufferSize(s, n) PROVE UNCHANGED sink_map
  BY <1>8 DEF SetBufferSize, play
<1>9. CASE Destroy \/ PurgeSink \/ RemoveSignal \/ RemoveFree \/ ResizeSignal \/ DetachFlush \/ AttachReset
  BY <1>9 DEF Destroy, PurgeSink, RemoveSignal, RemoveFree, ResizeSignal, DetachFlush, AttachReset, play
<1>10. CASE Clear \/ DestroyAbort \/ DestroyDrain \/ Join
  BY <1>10 DEF Clear, Unlink, DestroyAbort, DestroyDrain, Join, play
<1> QED
  BY <1>1, <1>2, <1>3, <1>4, <1>5, <1>6, <1>7, <1>8, <1>9, <1>10 DEF Stays, Next, Application, Continue

LEMMA SetupStays ==
  ASSUME Stays
  PROVE  setup' = setup
BY DEF Stays, Next, vars

\* Which sink a call is at.
CallInv ==
  /\ apc \in {"purge", "clear_purge", "detach_all"} => acur \in Attached
  /\ apc \in {"detach_flush", "detach_map"} => arg \in Attached /\ "detach" \in Calls
  /\ apc \in {"detach_all", "destroyed"} => dpc = "done"

LEMMA CallStep ==
  ASSUME setup \in Setups, MapOK, CallInv, Stays
  PROVE  CallInv'
<1>0. setup' = setup /\ Calls' = Calls
  BY SetupStays DEF Calls
<1>1. First # Null => First \in Attached
  BY VisitFirst
<1>2. ASSUME UNCHANGED <<sink_map, apc, acur, arg>>, dpc = "done" => dpc' = "done" PROVE CallInv'
  BY <1>0, <1>2 DEF CallInv, Attached
<1>3. CASE UNCHANGED vars
  BY <1>2, <1>3 DEF vars, play, dec, app
<1>4. CASE DSpurious
  BY <1>2, <1>4 DEF DSpurious, play, app
<1>5. CASE Decode
  <2>1. UNCHANGED app
    BY <1>5, DecodeFrame
  <2>2. UNCHANGED sink_map
    BY <1>5, DecodeMap
  <2>3. dpc = "done" => dpc' = "done"
    BY <1>5 DEF Decode, DLock, DQuit, DIdle, DSignalEnd, DWait, DWakeHead, DFile, DFull, DSleep,
       DWakeDrain, DRoom, DFail, DNoSeek, DSeek, DSeekFlush, DFlush, DEof, DDrain, DReadEnd, DReadPacket, DTake, DWalked, DReceived, DPut,
       DAdvance, DStore, DFault, dec
  <2> QED
    BY <1>2, <2>1, <2>2, <2>3 DEF app
<1>6. ASSUME NEW s \in setup.sinks, Consume(s) PROVE CallInv'
  <2>1. UNCHANGED <<app, play>> /\ dpc' \in {dpc, DecoderAfterDrainSignal}
    BY <1>6 DEF Consume, GetBuffer, GetEnd, GetSignal, GetAborted, GetSleep, SignalDrain, dec
  <2> QED
    BY <1>2, <2>1 DEF app, play, DecoderAfterDrainSignal
<1>7. ASSUME apc' \notin {"purge", "clear_purge", "detach_all", "detach_flush", "detach_map", "destroyed"}
      PROVE  CallInv'
  BY <1>7 DEF CallInv
<1>8. ASSUME NEW i \in Item, Insert(i) PROVE CallInv'
  BY <1>7, <1>8 DEF Insert, May, app
<1>9. CASE Clear \/ \E i \in Item : RemoveItem(i)
  <2>1. /\ apc' = "purge" \/ apc' = "clear_purge" => First # Null
        /\ apc' \in {"signal", "clear_signal", "purge", "clear_purge"}
        /\ acur' = First /\ UNCHANGED sink_map
    BY <1>9 DEF RemoveItem, Clear, Unlink
  <2> QED
    BY <1>1, <2>1 DEF CallInv, Attached
<1>10. ASSUME NEW i \in Item, NEW target \in setup.seekTo, Seek(i, target) PROVE CallInv'
  BY <1>7, <1>10 DEF Seek, May
<1>11. ASSUME NEW m \in {"any", "every"}, SetFillMode(m) PROVE CallInv'
  BY <1>7, <1>11 DEF SetFillMode, May
<1>12. ASSUME NEW s \in setup.sinks, Attach(s) PROVE CallInv'
  BY <1>7, <1>12 DEF Attach
<1>13. ASSUME NEW s \in setup.sinks, Detach(s) PROVE CallInv'
  BY <1>0, <1>13 DEF Detach, May, play, CallInv, Attached
<1>14. ASSUME NEW s \in Sink, NEW n \in setup.sizes, SetBufferSize(s, n) PROVE CallInv'
  BY <1>7, <1>14 DEF SetBufferSize, May
<1>15. CASE Destroy \/ RemoveSignal \/ RemoveFree \/ ResizeSignal \/ DetachMap \/ AttachReset
  BY <1>7, <1>15 DEF Destroy, RemoveSignal, RemoveFree, ResizeSignal, DetachMap, AttachReset
<1>16. CASE DestroyAbort \/ DestroyDrain
  BY <1>7, <1>16 DEF DestroyAbort, DestroyDrain
<1>17. CASE DetachFlush
  BY <1>0, <1>17 DEF DetachFlush, CallInv, play, Attached
<1>18. CASE PurgeSink
  <2>1. acur \in Attached /\ UNCHANGED sink_map
    BY <1>18 DEF PurgeSink, CallInv, play
  <2>2. After(acur) # Null => After(acur) \in Attached
    BY <2>1, VisitNext
  <2> QED
    BY <1>18, <2>1, <2>2 DEF PurgeSink, CallInv, Attached
<1>19. CASE Join
  BY <1>1, <1>19 DEF Join, CallInv, play, dec, Attached
<1>20. CASE DetachAll
  BY <1>20 DEF DetachAll, CallInv, dec
<1> QED
  BY <1>3, <1>4, <1>5, <1>6, <1>8, <1>9, <1>10, <1>11, <1>12, <1>13, <1>14, <1>15, <1>16, <1>17,
     <1>18, <1>19, <1>20 DEF Stays, Next, Application, Continue

Queue == Seq(Buffer \cup {End})

SinksOK ==
  /\ MapOK
  /\ audioq \in [Sink -> Queue]
  /\ contains_end \in [Sink -> BOOLEAN]
  /\ min_size \in [Sink -> setup.sizes] /\ request \in [Sink -> setup.sizes \cup {-1}]
  /\ consumer \in [Sink -> {"idle", "asleep", "woken", "signal"}]
  /\ cur \in Sink \cup {Null} /\ acur \in Sink \cup {Null}

\* The decode thread's files, and what it is putting.
FilesOK ==
  /\ {decode_head, dfile, dnext} \subseteq Item \cup {Null}
  /\ owner \in {"nobody", "decoder", "app"}
  /\ fpos \in [Item -> 0 .. Packets] /\ seek_pos \in [Item -> -1 .. Packets]
  /\ seek_flush \in [Item -> BOOLEAN]
  /\ dpc \in {"check", "sleep", "asleep_drain", "seek", "flush", "read", "receive", "put"} => dfile \in Item
  /\ dpc = "flush" => seek_pos[dfile] >= 0
  /\ due \in [Sink -> 0 .. setup.most] /\ held \in Buffer \cup {Null}
  /\ dpc = "put" => held \in Buffer /\ cur \in Sink
  /\ budget \in 0 .. setup.budget

TypeInv == setup \in Setups /\ ListInv /\ SinksOK /\ FilesOK /\ CallInv

LEMMA AttachedType ==
  ASSUME MapOK
  PROVE  Attached \subseteq Sink
BY DEF MapOK, Attached, Range

LEMMA ExamplesAttached == Examples \subseteq Attached
BY DEF Examples, Attached, Range

LEMMA QueueType ==
  ASSUME TypeInv, Stays
  PROVE  audioq' \in [Sink -> Queue]' /\ contains_end' \in [Sink -> BOOLEAN]
<1>1. Buffer' = Buffer /\ Queue' = Queue
  BY SetupStays DEF Buffer, Packets, Queue
<1>2. audioq \in [Sink -> Queue] /\ contains_end \in [Sink -> BOOLEAN] /\ Attached \subseteq Sink
  BY AttachedType DEF TypeInv, SinksOK
<1>3. <<>> \in Queue
  BY DEF Queue
<1>4. \A q \in Queue, b \in Buffer \cup {End} : Append(q, b) \in Queue
  BY AppendProperties DEF Queue
<1>5. \A q \in Queue : q # <<>> => Tail(q) \in Queue
  BY HeadTailRange DEF Queue
<1>6. SUFFICES audioq' \in [Sink -> Queue] /\ contains_end' \in [Sink -> BOOLEAN]
  BY <1>1
<1>7. CASE UNCHANGED <<audioq, contains_end>>
  BY <1>2, <1>7
<1>8. CASE DSignalEnd
  BY <1>2, <1>4, <1>8 DEF DSignalEnd
<1>9. CASE DFlush
  BY <1>2, <1>3, <1>9 DEF DFlush
<1>10. CASE DPut
  <2>1. held \in Buffer /\ cur \in Sink
    BY <1>10 DEF DPut, TypeInv, FilesOK
  <2>2. audioq' = [audioq EXCEPT ![cur] = Append(@, held)] /\ contains_end' = contains_end
    BY <1>10 DEF DPut
  <2> QED
    BY <1>2, <1>4, <2>1, <2>2
<1>11. CASE PurgeSink
  <2> DEFINE kept == Keep(audioq[acur], {b \in Buffer : b.item # arg} \cup {End})
  <2>1. acur \in Sink
    BY <1>2, <1>11 DEF PurgeSink, TypeInv, CallInv
  <2>2. kept \in Queue
    BY <1>2, <2>1, KeepType DEF Queue
  <2>3. audioq' = [audioq EXCEPT ![acur] = kept] /\ contains_end' = contains_end
    BY <1>11 DEF PurgeSink
  <2> HIDE DEF kept
  <2> QED
    BY <1>2, <2>1, <2>2, <2>3
<1>12. CASE DetachFlush
  BY <1>2, <1>3, <1>12 DEF DetachFlush
<1>13. CASE DetachAll
  BY <1>2, <1>3, <1>13 DEF DetachAll
<1>14. ASSUME NEW s \in setup.sinks, GetBuffer(s) \/ GetEnd(s)
       PROVE  audioq' \in [Sink -> Queue] /\ contains_end' \in [Sink -> BOOLEAN]
  <2>1. s \in Sink
    BY SetupsAssumption DEF TypeInv
  <2>2. /\ audioq[s] # <<>> /\ audioq' = [audioq EXCEPT ![s] = Tail(@)]
        /\ contains_end' \in {contains_end, [contains_end EXCEPT ![s] = FALSE]}
    BY <1>14 DEF GetBuffer, GetEnd
  <2>3. Tail(audioq[s]) \in Queue
    BY <1>2, <1>5, <2>1, <2>2
  <2> QED
    BY <1>2, <2>1, <2>2, <2>3
<1> QED
  BY QueueMoves, <1>7, <1>8, <1>9, <1>10, <1>11, <1>12, <1>13, <1>14

\* A reader sleeps, is woken or signals only where its queue's mutex lets it.
LEMMA ReaderType ==
  ASSUME TypeInv, Stays
  PROVE  consumer' \in [Sink -> {"idle", "asleep", "woken", "signal"}]
<1>1. consumer \in [Sink -> {"idle", "asleep", "woken", "signal"}]
  BY DEF TypeInv, SinksOK
<1>2. ASSUME NEW s, WakeReader(s) PROVE consumer' \in [Sink -> {"idle", "asleep", "woken", "signal"}]
  BY <1>1, <1>2 DEF WakeReader
<1>3. CASE UNCHANGED consumer
  BY <1>1, <1>3
<1>4. ASSUME NEW s \in setup.sinks, Consume(s)
      PROVE  consumer' \in [Sink -> {"idle", "asleep", "woken", "signal"}]
  <2>1. \E c \in {"idle", "asleep", "woken", "signal"} : consumer' = [consumer EXCEPT ![s] = c]
    <3>1. CASE GetBuffer(s)
      BY <3>1 DEF GetBuffer
    <3>2. CASE ~GetBuffer(s)
      BY <1>4, <3>2 DEF Consume, GetEnd, GetSignal, GetAborted, GetSleep
    <3> QED
      BY <3>1, <3>2
  <2> QED
    BY <1>1, <2>1
<1>5. CASE Decode \/ DSpurious
  <2>1. CASE DSignalEnd \/ DPut
    BY <1>2, <2>1 DEF DSignalEnd, DPut
  <2>2. CASE DLock \/ DQuit \/ DIdle \/ DWait \/ DWakeHead \/ DFile \/ DSpurious
    BY <1>3, <2>2 DEF DLock, DQuit, DIdle, DWait, DWakeHead, DFile, DSpurious, sink
  <2>3. CASE DFull \/ DSleep \/ DWakeDrain \/ DRoom \/ DFail \/ DNoSeek \/ DSeek \/ DSeekFlush
    BY <1>3, <2>3 DEF DFull, DSleep, DWakeDrain, DRoom, DFail, DNoSeek, DSeek, DSeekFlush, sink
  <2>4. CASE DFlush \/ DEof \/ DDrain \/ DReadEnd \/ DReadPacket \/ DTake \/ DWalked \/ DReceived \/ DAdvance \/ DStore \/ DFault
    BY <1>3, <2>4 DEF DFlush, DEof, DDrain, DReadEnd, DReadPacket, DTake, DWalked, DReceived, DAdvance, DStore, DFault, sink
  <2> QED
    BY <1>5, <2>1, <2>2, <2>3, <2>4 DEF Decode
<1>6. CASE Application
  <2>1. ASSUME NEW i \in Item, Insert(i) \/ RemoveItem(i) PROVE UNCHANGED consumer
    BY <2>1 DEF Insert, RemoveItem, Unlink, sink
  <2>2. ASSUME NEW i \in Item, NEW target \in setup.seekTo, Seek(i, target) PROVE UNCHANGED consumer
    BY <2>2 DEF Seek, sink
  <2>3. ASSUME NEW m \in {"any", "every"}, SetFillMode(m) PROVE UNCHANGED consumer
    BY <2>3 DEF SetFillMode, sink
  <2>4. ASSUME NEW s \in setup.sinks, Attach(s) PROVE UNCHANGED consumer
    BY <2>4 DEF Attach
  <2>5. ASSUME NEW s \in setup.sinks, Detach(s) PROVE WakeReader(s)
    BY <2>5 DEF Detach
  <2>6. ASSUME NEW s \in Sink, NEW n \in setup.sizes, SetBufferSize(s, n) PROVE UNCHANGED consumer
    BY <2>6 DEF SetBufferSize
  <2>7. CASE Destroy \/ PurgeSink \/ RemoveSignal \/ RemoveFree \/ ResizeSignal \/ DetachFlush \/ DetachMap
    BY <1>3, <2>7 DEF Destroy, PurgeSink, RemoveSignal, RemoveFree, ResizeSignal, DetachFlush, DetachMap, sink
  <2>8. CASE AttachReset \/ Clear \/ DestroyAbort \/ DestroyDrain \/ Join
    BY <1>3, <2>8 DEF AttachReset, Clear, Unlink, DestroyAbort, DestroyDrain, Join, sink
  <2>9. CASE DetachAll
    BY <1>2, <2>9 DEF DetachAll
  <2> QED
    BY <1>2, <1>3, <1>6, <2>1, <2>2, <2>3, <2>4, <2>5, <2>6, <2>7, <2>8, <2>9 DEF Application, Continue
<1>7. CASE UNCHANGED vars
  BY <1>3, <1>7 DEF vars, sink
<1> QED
  BY <1>4, <1>5, <1>6, <1>7 DEF Stays, Next

LEMMA SizesType ==
  ASSUME TypeInv, Stays
  PROVE  min_size' \in [Sink -> setup.sizes] /\ request' \in [Sink -> setup.sizes \cup {-1}]
<1>1. min_size \in [Sink -> setup.sizes] /\ request \in [Sink -> setup.sizes \cup {-1}]
  BY DEF TypeInv, SinksOK
<1> DEFINE Same == UNCHANGED <<min_size, request>>
<1>2. CASE Decode \/ DSpurious
  <2>1. CASE DLock \/ DQuit \/ DIdle \/ DSignalEnd \/ DWait \/ DFile \/ DSpurious
    BY <1>1, <2>1 DEF DLock, DQuit, DIdle, DSignalEnd, DWait, DFile, DSpurious, sink
  <2>2. CASE DFull \/ DSleep \/ DWakeDrain \/ DRoom \/ DFail \/ DNoSeek \/ DSeek \/ DSeekFlush
    BY <1>1, <2>2 DEF DFull, DSleep, DWakeDrain, DRoom, DFail, DNoSeek, DSeek, DSeekFlush, sink
  <2>3. CASE DFlush \/ DEof \/ DDrain \/ DReadEnd \/ DReadPacket \/ DTake \/ DWalked \/ DReceived \/ DPut \/ DAdvance \/ DStore \/ DFault
    BY <1>1, <2>3 DEF DFlush, DEof, DDrain, DReadEnd, DReadPacket, DTake, DWalked, DReceived, DPut, DAdvance, DStore, DFault, sink
  <2>4. CASE DWakeHead
    <3>1. PICK asked \in SUBSET Attached :
            /\ asked = {s \in Attached : request[s] # -1}
            /\ min_size' = [s \in Sink |-> IF s \in asked THEN request[s] ELSE min_size[s]]
            /\ request' = [s \in Sink |-> IF s \in asked THEN -1 ELSE request[s]]
      BY <2>4 DEF DWakeHead
    <3> QED
      BY <1>1, <3>1
  <2> QED
    BY <1>2, <2>1, <2>2, <2>3, <2>4 DEF Decode
<1>3. ASSUME NEW s \in setup.sinks, Consume(s) PROVE Same
  BY <1>3 DEF Consume, GetBuffer, GetEnd, GetSignal, GetAborted, GetSleep
<1>4. CASE Application
  <2>1. ASSUME NEW i \in Item, Insert(i) \/ RemoveItem(i) PROVE Same
    BY <2>1 DEF Insert, RemoveItem, Unlink, sink
  <2>2. ASSUME NEW i \in Item, NEW target \in setup.seekTo, Seek(i, target) PROVE Same
    BY <2>2 DEF Seek, sink
  <2>3. ASSUME NEW m \in {"any", "every"}, SetFillMode(m) PROVE Same
    BY <2>3 DEF SetFillMode, sink
  <2>4. ASSUME NEW s \in setup.sinks, Detach(s) \/ Attach(s) PROVE Same
    BY <2>4 DEF Detach, Attach
  <2>5. ASSUME NEW s \in Sink, NEW n \in setup.sizes, SetBufferSize(s, n)
        PROVE  min_size' \in [Sink -> setup.sizes] /\ request' \in [Sink -> setup.sizes \cup {-1}]
    BY <1>1, <2>5 DEF SetBufferSize
  <2>6. CASE Destroy \/ PurgeSink \/ RemoveSignal \/ RemoveFree \/ ResizeSignal \/ DetachFlush \/ DetachMap
    BY <1>1, <2>6 DEF Destroy, PurgeSink, RemoveSignal, RemoveFree, ResizeSignal, DetachFlush, DetachMap, sink
  <2>7. CASE AttachReset \/ Clear \/ DestroyAbort \/ DestroyDrain \/ Join \/ DetachAll
    BY <1>1, <2>7 DEF AttachReset, Clear, Unlink, DestroyAbort, DestroyDrain, Join, DetachAll, sink
  <2> QED
    BY <1>1, <1>4, <2>1, <2>2, <2>3, <2>4, <2>5, <2>6, <2>7 DEF Application, Continue
<1>5. CASE UNCHANGED vars
  BY <1>1, <1>5 DEF vars, sink
<1> QED
  BY <1>1, <1>2, <1>3, <1>4, <1>5 DEF Stays, Next

LEMMA MapType ==
  ASSUME TypeInv, Stays
  PROVE  MapOK'
<1>1. MapOK
  BY DEF TypeInv, SinksOK
<1>2. CASE UNCHANGED sink_map
  BY <1>1, <1>2 DEF MapOK, Once
<1>3. CASE DetachMap
  BY <1>1, <1>3, VisitDetach DEF DetachMap
<1>4. CASE DetachAll
  BY <1>1, <1>4, VisitDetach DEF DetachAll
<1>5. ASSUME NEW s \in setup.sinks, Attach(s) PROVE MapOK'
  <2>1. s \in Sink /\ s \notin Attached
    BY <1>5, SetupsAssumption DEF TypeInv, Attach
  <2>2. PICK k \in 1 .. Len(sink_map) + 1 : sink_map' = InsertAt(sink_map, k, s)
    BY <1>5 DEF Attach
  <2> QED
    BY <1>1, <2>1, <2>2, VisitAttach
<1> QED
  BY <1>2, <1>3, <1>4, <1>5, MapMoves

\* every_sink goes from one attached sink to the next, or is done.
LEMMA CursorType ==
  ASSUME TypeInv, Stays
  PROVE  cur' \in Sink \cup {Null} /\ acur' \in Sink \cup {Null}
<1>1. MapOK /\ cur \in Sink \cup {Null} /\ acur \in Sink \cup {Null} /\ Attached \subseteq Sink
  BY AttachedType DEF TypeInv, SinksOK
<1>2. First \in Sink \cup {Null}
  BY <1>1, VisitFirst
<1>3. \A c \in Attached : After(c) \in Sink \cup {Null}
  BY <1>1, VisitNext
<1>4. CASE Decode \/ DSpurious
  <2>1. acur' = acur
    BY <1>4, DecodeFrame DEF app, DSpurious
  <2>2. CASE DSignalEnd \/ DFlush \/ DPut
    BY <1>3, <2>1, <2>2, <1>1 DEF DSignalEnd, DFlush, DPut, NextSink
  <2>3. CASE DIdle \/ DSeekFlush \/ DDrain \/ DReadPacket \/ DWalked
    BY <1>2, <2>1, <2>3, <1>1 DEF DIdle, DSeekFlush, DDrain, DReadPacket, DWalked
  <2>7. CASE DTake
    BY <1>1, <2>1, <2>7, ExamplesAttached DEF DTake
  <2>4. CASE DLock \/ DQuit \/ DWait \/ DWakeHead \/ DFile \/ DSpurious
    BY <1>1, <2>1, <2>4 DEF DLock, DQuit, DWait, DWakeHead, DFile, DSpurious, LocalsSame
  <2>5. CASE DFull \/ DSleep \/ DWakeDrain \/ DRoom \/ DFail \/ DNoSeek \/ DSeek
    BY <1>1, <2>1, <2>5 DEF DFull, DSleep, DWakeDrain, DRoom, DFail, DNoSeek, DSeek, LocalsSame
  <2>6. CASE DEof \/ DReadEnd \/ DReceived \/ DAdvance \/ DStore \/ DFault
    BY <1>1, <2>1, <2>6 DEF DEof, DReadEnd, DReceived, DAdvance, DStore, DFault, LocalsSame, dec
  <2> QED
    BY <1>4, <2>2, <2>3, <2>4, <2>5, <2>6, <2>7 DEF Decode
<1>5. ASSUME NEW s \in setup.sinks, Consume(s) PROVE UNCHANGED <<cur, acur>>
  BY <1>5 DEF Consume, GetBuffer, GetEnd, GetSignal, GetAborted, GetSleep, LocalsSame, dec, app
<1>6. CASE Application
  <2>1. ASSUME NEW i \in Item, Insert(i) PROVE UNCHANGED <<cur, acur>>
    BY <2>1 DEF Insert, LocalsSame, app
  <2>2. CASE Clear \/ \E i \in Item : RemoveItem(i)
    BY <1>1, <1>2, <2>2 DEF RemoveItem, Clear, Unlink, dec
  <2>3. ASSUME NEW i \in Item, NEW target \in setup.seekTo, Seek(i, target) PROVE UNCHANGED <<cur, acur>>
    BY <2>3 DEF Seek, LocalsSame
  <2>4. ASSUME NEW m \in {"any", "every"}, SetFillMode(m) PROVE UNCHANGED <<cur, acur>>
    BY <2>4 DEF SetFillMode, dec
  <2>5. ASSUME NEW s \in setup.sinks, Detach(s) \/ Attach(s) PROVE UNCHANGED <<cur, acur>>
    BY <2>5 DEF Detach, Attach, LocalsSame, dec
  <2>6. ASSUME NEW s \in Sink, NEW n \in setup.sizes, SetBufferSize(s, n) PROVE UNCHANGED <<cur, acur>>
    BY <2>6 DEF SetBufferSize, dec
  <2>7. CASE PurgeSink
    <3>1. acur \in Attached
      BY <2>7 DEF PurgeSink, TypeInv, CallInv
    <3> QED
      BY <2>7, <3>1, <1>1, <1>3 DEF PurgeSink, dec
  <2>8. CASE Join
    BY <1>1, <1>2, <2>8 DEF Join, dec
  <2>9. CASE Destroy \/ RemoveSignal \/ RemoveFree \/ ResizeSignal \/ DetachFlush \/ DetachMap
    BY <1>1, <2>9 DEF Destroy, RemoveSignal, RemoveFree, ResizeSignal, DetachFlush, DetachMap, LocalsSame, dec, app
  <2>10. CASE AttachReset \/ DestroyAbort \/ DestroyDrain \/ DetachAll
    BY <1>1, <2>10 DEF AttachReset, DestroyAbort, DestroyDrain, DetachAll, LocalsSame, dec
  <2> QED
    BY <1>1, <1>2, <1>6, <2>1, <2>2, <2>3, <2>4, <2>5, <2>6, <2>7, <2>8, <2>9, <2>10
       DEF Application, Continue
<1>7. CASE UNCHANGED vars
  BY <1>1, <1>7 DEF vars, dec, app
<1> QED
  BY <1>1, <1>4, <1>5, <1>6, <1>7 DEF Stays, Next

LEMMA FilesDecode ==
  ASSUME TypeInv, Decode, setup' = setup
  PROVE  FilesOK'
<1>1. Packets' = Packets /\ Packets \in Nat /\ Buffer' = Buffer
  BY SetupsAssumption DEF Packets, Buffer, TypeInv
<1>2. UNCHANGED budget
  BY DecodeFrame DEF app
<1>3. FilesOK /\ alive \subseteq Item /\ nxt \in [Item -> Item \cup {Null}]
  BY DEF TypeInv, ListInv, Typed
<1> USE DEF FilesOK
<1>4. CASE DLock \/ DQuit \/ DIdle \/ DSignalEnd \/ DWait \/ DWakeHead
  BY <1>1, <1>2, <1>3, <1>4 DEF DLock, DQuit, DIdle, DSignalEnd, DWait, DWakeHead, NextSink, LocalsSame,
     play, file, graph
<1>5. CASE DFile
  BY <1>1, <1>2, <1>3, <1>5 DEF DFile, play, file, graph
<1>6. CASE DFull \/ DSleep \/ DWakeDrain \/ DRoom \/ DNoSeek
  BY <1>1, <1>2, <1>3, <1>6 DEF DFull, DSleep, DWakeDrain, DRoom, DNoSeek, LocalsSame, play, file, graph
<1>7. CASE DSeek
  <2>1. dfile \in Item /\ seek_pos[dfile] \in 0 .. Packets /\ fpos[dfile] \in 0 .. Packets
    BY <1>1, <1>3, <1>7 DEF DSeek
  <2>2. SeekDone(seek_pos[dfile]) \/ SeekDone(fpos[dfile])
    BY <1>7 DEF DSeek
  <2>3. fpos' \in [Item -> 0 .. Packets] /\ seek_pos' \in [Item -> -1 .. Packets] /\ seek_flush' = seek_flush
    BY <1>1, <1>3, <2>1, <2>2 DEF SeekDone
  <2> QED
    BY <1>1, <1>2, <1>3, <1>7, <2>3 DEF DSeek, LocalsSame, play, graph
<1>8. CASE DSeekFlush
  BY <1>1, <1>2, <1>3, <1>8 DEF DSeekFlush, FlushPending, play, file, graph
<1>9. CASE DFlush
  <2>1. dfile \in Item /\ seek_pos[dfile] \in 0 .. Packets
    BY <1>1, <1>3, <1>9 DEF DFlush
  <2>2. CASE After(cur) = Null
    <3>0. SeekDone(seek_pos[dfile])
      BY <1>9, <2>2 DEF DFlush
    <3>1. fpos' \in [Item -> 0 .. Packets] /\ seek_pos' \in [Item -> -1 .. Packets] /\ seek_flush' = seek_flush
      BY <1>1, <1>3, <2>1, <3>0 DEF SeekDone
    <3> QED
      BY <1>1, <1>2, <1>3, <1>9, <2>2, <3>1 DEF DFlush, NextSink, play, graph
  <2>3. CASE After(cur) # Null
    BY <1>1, <1>2, <1>3, <1>9, <2>1, <2>3 DEF DFlush, NextSink, play, file, graph
  <2> QED
    BY <2>2, <2>3
<1>10. CASE DEof \/ DReadEnd \/ DAdvance
  BY <1>1, <1>2, <1>3, <1>10 DEF DEof, DReadEnd, DAdvance, LocalsSame, play, file, graph
<1>11. CASE DReadPacket
  <2>1. dfile \in Item /\ fpos[dfile] \in 0 .. Packets /\ fpos[dfile] < Packets
    BY <1>3, <1>11 DEF DReadPacket
  <2>2. fpos[dfile] + 1 \in 0 .. Packets /\ fpos' = [fpos EXCEPT ![dfile] = fpos[dfile] + 1]
    BY <1>1, <1>11, <2>1 DEF DReadPacket
  <2>3. fpos' \in [Item -> 0 .. Packets]
    BY <1>1, <1>3, <2>1, <2>2
  <2> QED
    BY <1>1, <1>2, <1>3, <1>11, <2>1, <2>3 DEF DReadPacket, play
<1>12. CASE DTake
  <2>1. dfile \in Item /\ fpos[dfile] \in 0 .. Packets /\ decode_head \in Item
    BY <1>3, <1>12 DEF DTake
  <2>2. PICK e \in Examples, n \in setup.bytes :
          /\ n <= due[setup.format[e]]
          /\ due' = [due EXCEPT ![setup.format[e]] = @ - n]
          /\ held' = [item |-> decode_head, src |-> dfile, pos |-> fpos[dfile], size |-> n]
          /\ cur' = e
    BY <1>12 DEF DTake
  <2>3. n \in Nat /\ setup.most \in Nat /\ e \in Sink /\ setup.format[e] \in Sink
    BY ExamplesAttached, AttachedType, SetupsAssumption DEF TypeInv, SinksOK
  <2>4. due[setup.format[e]] \in 0 .. setup.most
    BY <1>3, <2>3
  <2>5. due[setup.format[e]] - n \in 0 .. setup.most
    BY <2>2, <2>3, <2>4
  <2>6. due' \in [Sink -> 0 .. setup.most]
    BY <1>3, <2>2, <2>3, <2>5
  <2>7. held' \in Buffer
    BY <2>1, <2>2 DEF Buffer
  <2> QED
    BY <1>1, <1>2, <1>3, <1>12, <2>1, <2>2, <2>3, <2>6, <2>7 DEF DTake, play, file
<1>13. CASE DPut
  <2>1. MapOK /\ cur \in Attached
    BY <1>13 DEF DPut, TypeInv, SinksOK
  <2>2. After(cur) # Null => After(cur) \in Sink
    BY <2>1, VisitNext, AttachedType
  <2> QED
    BY <1>1, <1>2, <1>3, <1>13, <2>2 DEF DPut, play, file
<1>14. CASE DDrain \/ DWalked
  BY <1>1, <1>2, <1>3, <1>14 DEF DDrain, DWalked, play, file, graph
<1>15. Whole \in [Sink -> 0 .. setup.most]
  BY SetupsAssumption DEF Whole, TypeInv
<1>16. CASE DFail \/ DReceived
  <2>1. dpc' \in {"advance", "top"}
    BY <1>16 DEF DFail, DReceived
  <2> QED
    BY <1>1, <1>2, <1>3, <1>15, <1>16, <2>1 DEF DFail, DReceived, play, file
<1>17. CASE DStore
  <2>1. seek_pos' \in [Item -> -1 .. Packets] /\ seek_flush' \in [Item -> BOOLEAN] /\ fpos' = fpos
    <3>1. CASE dnext = Null
      BY <1>3, <1>17, <3>1 DEF DStore, file
    <3>2. CASE dnext # Null
      <4>1. /\ seek_pos' = [seek_pos EXCEPT ![dnext] = 0]
            /\ seek_flush' = [seek_flush EXCEPT ![dnext] = FALSE] /\ fpos' = fpos
        BY <1>17, <3>2 DEF DStore
      <4>2. 0 \in -1 .. Packets
        BY <1>1
      <4> QED
        BY <1>1, <1>3, <4>1, <4>2
    <3> QED
      BY <3>1, <3>2
  <2> QED
    BY <1>1, <1>2, <1>3, <1>17, <2>1, NullAssumption DEF DStore, graph
<1>18. CASE DFault
  BY <1>1, <1>2, <1>3, <1>18 DEF DFault, dec, play, file, graph
<1> QED
  BY <1>4, <1>5, <1>6, <1>7, <1>8, <1>9, <1>10, <1>11, <1>12, <1>13, <1>14, <1>16, <1>17, <1>18 DEF Decode

LEMMA FilesStep ==
  ASSUME TypeInv, Stays
  PROVE  FilesOK'
<1>1. Packets' = Packets /\ Packets \in Nat /\ setup' = setup /\ Buffer' = Buffer
  BY SetupStays, SetupsAssumption DEF Packets, Buffer, TypeInv
<1>2. FilesOK /\ alive \subseteq Item /\ fresh \subseteq Item /\ nxt \in [Item -> Item \cup {Null}]
      /\ setup.budget \in Nat /\ setup.seekTo \subseteq 0 .. Packets
  BY SetupsAssumption DEF TypeInv, ListInv, Typed, Packets
<1> DEFINE Steps == {dpc, "woken_head", "woken_drain"}
<1>3. ASSUME decode_head' \in Item \cup {Null}, UNCHANGED <<dfile, cur, dnext, graph, file>>, owner' \in {owner, "nobody", "app"},
             dpc' \in Steps, budget' \in 0 .. setup.budget
      PROVE  FilesOK'
  BY <1>1, <1>2, <1>3 DEF FilesOK, file, graph
<1>4. CASE UNCHANGED vars
  BY <1>2, <1>3, <1>4 DEF vars, dec, play, app, FilesOK
<1>5. CASE Decode
  BY <1>1, <1>5, FilesDecode
<1>6. CASE DSpurious
  BY <1>2, <1>3, <1>6 DEF DSpurious, LocalsSame, play, app, FilesOK
<1>7. ASSUME NEW s \in setup.sinks, Consume(s) PROVE FilesOK'
  BY <1>2, <1>3, <1>7 DEF Consume, GetBuffer, GetEnd, GetSignal, GetAborted, GetSleep, SignalDrain,
     DecoderAfterDrainSignal, LocalsSame, dec, play, app, FilesOK
<1>8. ASSUME NEW i \in Item, Insert(i) PROVE FilesOK'
  <2>1. dpc' \in {dpc, "woken_head"} /\ decode_head' \in Item \cup {Null}
        /\ UNCHANGED <<dfile, cur, dnext, due, held, owner, budget, fpos>>
    BY <1>2, <1>8 DEF Insert, InsertBefore, InsertFirst, InsertLast, SignalHead, DecoderAfterHeadSignal,
       LocalsSame, graph, app, file, FilesOK
  <2>2. \/ UNCHANGED <<seek_pos, seek_flush>>
        \/ seek_pos' = [seek_pos EXCEPT ![i] = 0] /\ seek_flush' = [seek_flush EXCEPT ![i] = FALSE]
    BY <1>8 DEF Insert, InsertBefore, InsertFirst, InsertLast, file
  <2>3. /\ seek_pos' \in [Item -> -1 .. Packets] /\ \A j \in Item : seek_pos[j] >= 0 => seek_pos'[j] >= 0
        /\ seek_flush' \in [Item -> BOOLEAN]
    <3>1. CASE UNCHANGED <<seek_pos, seek_flush>>
      BY <1>2, <3>1 DEF FilesOK
    <3>2. CASE seek_pos' = [seek_pos EXCEPT ![i] = 0] /\ seek_flush' = [seek_flush EXCEPT ![i] = FALSE]
      <4>1. seek_pos \in [Item -> -1 .. Packets] /\ seek_flush \in [Item -> BOOLEAN] /\ 0 \in -1 .. Packets
        BY <1>1, <1>2 DEF FilesOK
      <4>2. \A j \in Item : seek_pos[j] >= 0 => seek_pos'[j] >= 0
        BY <3>2, <4>1
      <4> QED
        BY <3>2, <4>1, <4>2
    <3> QED
      BY <2>2, <3>1, <3>2
  <2> QED
    BY <1>1, <1>2, <2>1, <2>3 DEF FilesOK
<1>9. CASE Clear \/ \E i \in Item : RemoveItem(i)
  <2>1. \E j \in Item \cup {Null} : decode_head' = IF decode_head = j THEN nxt[j] ELSE decode_head
    <3>1. head \in Item \cup {Null}
      BY DEF TypeInv, ListInv, Typed, Ends, Listed
    <3> QED
      BY <1>9, <3>1 DEF RemoveItem, Clear, Unlink
  <2>2. decode_head' \in Item \cup {Null}
    <3>1. CASE \E i \in Item : RemoveItem(i)
      BY <1>2, <3>1 DEF RemoveItem, Unlink, FilesOK
    <3>2. CASE Clear
      <4>1. head \in Item
        BY <3>2 DEF Clear, TypeInv, ListInv, Typed, Ends, Listed
      <4> QED
        BY <1>2, <3>2, <4>1 DEF Clear, Unlink, FilesOK
    <3> QED
      BY <1>9, <3>1, <3>2
  <2> QED
    BY <1>2, <1>3, <1>9, <2>2 DEF RemoveItem, Clear, Unlink, dec, FilesOK
<1>10. ASSUME NEW i \in Item, NEW target \in setup.seekTo, Seek(i, target) PROVE FilesOK'
  <2>1. target \in 0 .. Packets /\ seek_pos' = [seek_pos EXCEPT ![i] = target] /\ decode_head' = i
        /\ seek_flush' = [seek_flush EXCEPT ![i] = TRUE]
        /\ UNCHANGED <<dfile, cur, dnext, due, held, owner, fpos>>
        /\ budget > 0 /\ budget' = budget - 1 /\ dpc' \in {dpc, "woken_head"}
    BY <1>2, <1>10 DEF Seek, Spend, SignalHead, DecoderAfterHeadSignal, LocalsSame, graph
  <2>2. /\ seek_pos' \in [Item -> -1 .. Packets] /\ \A j \in Item : seek_pos[j] >= 0 => seek_pos'[j] >= 0
        /\ seek_flush' \in [Item -> BOOLEAN]
    BY <1>1, <1>2, <2>1 DEF FilesOK
  <2>3. budget' \in 0 .. setup.budget
    BY <1>2, <2>1 DEF FilesOK
  <2> QED
    BY <1>1, <1>2, <2>1, <2>2, <2>3 DEF FilesOK
<1>11. budget > 0 => budget - 1 \in 0 .. setup.budget
  BY <1>2 DEF FilesOK
<1>12. ASSUME NEW m \in {"any", "every"}, SetFillMode(m) PROVE FilesOK'
  BY <1>2, <1>3, <1>11, <1>12 DEF SetFillMode, Spend, dec, FilesOK
<1>13. ASSUME NEW s \in setup.sinks, Detach(s) \/ Attach(s) PROVE FilesOK'
  BY <1>2, <1>3, <1>11, <1>13 DEF Detach, Attach, Spend, SignalDrain, DecoderAfterDrainSignal, LocalsSame, dec,
     play, FilesOK
<1>14. ASSUME NEW s \in Sink, NEW n \in setup.sizes, SetBufferSize(s, n) PROVE FilesOK'
  BY <1>2, <1>3, <1>11, <1>14 DEF SetBufferSize, Spend, dec, play, FilesOK
<1>15. CASE Destroy \/ PurgeSink \/ RemoveSignal \/ RemoveFree \/ ResizeSignal \/ DetachFlush
  BY <1>2, <1>3, <1>15 DEF Destroy, PurgeSink, RemoveSignal, RemoveFree, ResizeSignal, DetachFlush,
     SignalDrain, DecoderAfterDrainSignal, LocalsSame, dec, play, app, FilesOK
<1>16. CASE DetachMap \/ AttachReset \/ DestroyAbort \/ DestroyDrain \/ Join \/ DetachAll
  BY <1>2, <1>3, <1>16 DEF DetachMap, AttachReset, DestroyAbort, DestroyDrain, Join, DetachAll, SignalHead,
     DecoderAfterHeadSignal, SignalDrain, DecoderAfterDrainSignal, LocalsSame, dec, play, FilesOK
<1> QED
  BY <1>4, <1>5, <1>6, <1>7, <1>8, <1>9, <1>10, <1>12, <1>13, <1>14, <1>15, <1>16
     DEF Stays, Next, Application, Continue

LEMMA Smallest ==
  ASSUME NEW S \in SUBSET Nat, S # {}
  PROVE  MinOf(S) \in S
<1> DEFINE R == OpToRel(<, Nat)
<1>1. IsWellFoundedOn(R, Nat)
  BY NatLessThanWellFounded
<1>2. \A y, x \in Nat : y < x => <<y, x>> \in R
  BY DEF OpToRel
<1> HIDE DEF R
<1>3. PICK x \in S : \A y \in S : <<y, x>> \notin R
  BY <1>1, WFMin
<1>4. ASSUME NEW y \in S PROVE x <= y
  <2>1. x \in Nat /\ y \in Nat /\ ~(y < x)
    BY <1>2, <1>3
  <2> QED
    BY <2>1
<1> QED
  BY <1>3, <1>4 DEF MinOf

LEMMA TypeInit == Init => TypeInv
<1> SUFFICES ASSUME Init PROVE TypeInv
  OBVIOUS
<1>1. /\ setup \in Setups /\ setup.items \subseteq Item /\ setup.sinks \subseteq Sink
      /\ setup.map \in Seq(setup.sinks) /\ Once(setup.map)
      /\ setup.packets \in Nat /\ setup.most \in Nat /\ setup.budget \in Nat
      /\ setup.sizes # {} /\ setup.sizes \subseteq Nat
  BY SetupsAssumption DEF Init
<1>2. ListInv
  BY ListInit
<1>3. MapOK
  <2>1. \A A \in SUBSET Sink : Seq(A) \subseteq Seq(Sink)
    OBVIOUS
  <2>2. sink_map = setup.map
    BY DEF Init
  <2> QED
    BY <1>1, <2>1, <2>2 DEF MapOK
<1>4. MinOf(setup.sizes) \in setup.sizes
  BY <1>1, Smallest
<1>5. SinksOK
  <2>1. <<>> \in Queue
    BY DEF Queue
  <2> QED
    BY <1>3, <1>4, <2>1 DEF Init, SinksOK
<1>6. FilesOK
  <2>1. Whole \in [Sink -> 0 .. setup.most]
    BY <1>1 DEF Whole
  <2> QED
    BY <1>1, <2>1 DEF Init, FilesOK, Packets
<1> QED
  BY <1>1, <1>2, <1>5, <1>6 DEF TypeInv, CallInv, Init

LEMMA TypeStep ==
  ASSUME TypeInv, Stays
  PROVE  TypeInv'
<1>1. setup' = setup /\ setup' \in Setups
  BY SetupStays DEF TypeInv
<1>2. ListInv'
  BY ListStep DEF TypeInv, Stays
<1>3. SinksOK'
  BY <1>1, MapType, QueueType, ReaderType, SizesType, CursorType DEF SinksOK
<1>4. FilesOK'
  BY FilesStep
<1>5. CallInv'
  BY CallStep DEF TypeInv, SinksOK
<1> QED
  BY <1>1, <1>2, <1>3, <1>4, <1>5 DEF TypeInv

LEMMA TypeSafe == SafeSpec => []TypeInv
<1>1. TypeInv /\ [Next]_vars => TypeInv'
  BY TypeStep DEF Stays
<1> QED
  BY <1>1, TypeInit, PTL DEF SafeSpec

LEMMA TypeEnough ==
  ASSUME TypeInv
  PROVE  TypeOK
<1>1. {head, tail, decode_head, dfile, dnext} \subseteq Item \cup {Null}
  BY DEF TypeInv, ListInv, Typed, Ends, Listed, FilesOK
<1> QED
  BY <1>1 DEF TypeOK, TypeInv, ListInv, Typed, SinksOK, MapOK, FilesOK, Queue

--------------------------------------------------------------------------------
(* The flag of the end of the playlist.                                     *)

LEMMA EndFlagStep ==
  ASSUME TypeInv, EndFlagSound, Stays
  PROVE  EndFlagSound'
<1> DEFINE Flagged(c, q) == \A s \in Sink : c[s] => End \in Range(q[s])
<1>1. /\ audioq \in [Sink -> Seq(Buffer \cup {End})] /\ contains_end \in [Sink -> BOOLEAN]
      /\ Attached \subseteq Sink /\ Flagged(contains_end, audioq)
  BY AttachedType DEF TypeInv, SinksOK, Queue, EndFlagSound
<1>2. SUFFICES Flagged(contains_end', audioq')
  BY DEF EndFlagSound
<1>3. ASSUME NEW s \in Sink, NEW q, audioq' = [audioq EXCEPT ![s] = q],
             contains_end' = [contains_end EXCEPT ![s] = FALSE]
      PROVE  Flagged(contains_end', audioq')
  BY <1>1, <1>3
<1>4. ASSUME NEW s \in Sink, NEW q, audioq' = [audioq EXCEPT ![s] = q],
             contains_end' = contains_end, End \in Range(audioq[s]) => End \in Range(q)
      PROVE  Flagged(contains_end', audioq')
  BY <1>1, <1>4
<1> HIDE DEF Flagged
<1>5. CASE UNCHANGED <<audioq, contains_end>>
  BY <1>1, <1>5 DEF Flagged
<1>6. CASE DSignalEnd
  <2> DEFINE q == Append(audioq[cur], End)
  <2>1. cur \in Sink /\ Range(q) = Range(audioq[cur]) \cup {End}
    BY <1>1, <1>6, RangeAppend DEF DSignalEnd
  <2>2. audioq' = [audioq EXCEPT ![cur] = q] /\ contains_end' = [contains_end EXCEPT ![cur] = TRUE]
    BY <1>6 DEF DSignalEnd
  <2> HIDE DEF q
  <2> QED
    BY <1>1, <2>1, <2>2 DEF Flagged
<1>7. CASE DFlush
  BY <1>1, <1>3, <1>7 DEF DFlush
<1>8. CASE DPut
  <2> DEFINE q == Append(audioq[cur], held)
  <2>1. cur \in Sink /\ held \in Buffer
    BY <1>8 DEF DPut, TypeInv, FilesOK
  <2>2. audioq[cur] \in Seq(Buffer \cup {End}) /\ held \in Buffer \cup {End}
    BY <1>1, <2>1
  <2>3. Range(q) = Range(audioq[cur]) \cup {held}
    BY <2>2, RangeAppend
  <2>4. audioq' = [audioq EXCEPT ![cur] = q] /\ contains_end' = contains_end
    BY <1>8 DEF DPut
  <2> HIDE DEF q
  <2> QED
    BY <1>4, <2>1, <2>3, <2>4
<1>9. CASE PurgeSink
  <2> DEFINE S == {b \in Buffer : b.item # arg} \cup {End}
             q == Keep(audioq[acur], S)
  <2>1. acur \in Sink
    BY <1>1, <1>9 DEF PurgeSink, TypeInv, CallInv
  <2>2. Range(q) = Range(audioq[acur]) \cap S /\ End \in S
    BY <1>1, <2>1, KeepRange
  <2>3. audioq' = [audioq EXCEPT ![acur] = q] /\ contains_end' = contains_end
    BY <1>9 DEF PurgeSink
  <2> HIDE DEF q, S
  <2> QED
    BY <1>4, <2>1, <2>2, <2>3
<1>10. CASE DetachFlush
  BY <1>1, <1>3, <1>10 DEF DetachFlush, TypeInv, CallInv
<1>11. CASE DetachAll
  BY <1>1, <1>3, <1>11 DEF DetachAll, TypeInv, CallInv
<1>12. ASSUME NEW s \in setup.sinks, GetBuffer(s) PROVE Flagged(contains_end', audioq')
  <2> DEFINE q == Tail(audioq[s])
  <2>1. s \in Sink
    BY SetupsAssumption DEF TypeInv
  <2>2. audioq[s] # <<>> /\ Head(audioq[s]) # End /\ audioq' = [audioq EXCEPT ![s] = q]
        /\ contains_end' = contains_end
    BY <1>12 DEF GetBuffer
  <2>3. Range(audioq[s]) = {Head(audioq[s])} \cup Range(q)
    BY <1>1, <2>1, <2>2, HeadTailRange
  <2> HIDE DEF q
  <2> QED
    BY <1>4, <2>1, <2>2, <2>3
<1>13. ASSUME NEW s \in setup.sinks, GetEnd(s) PROVE Flagged(contains_end', audioq')
  <2>1. s \in Sink
    BY SetupsAssumption DEF TypeInv
  <2> QED
    BY <1>3, <1>13, <2>1 DEF GetEnd
<1> QED
  BY QueueMoves, <1>5, <1>6, <1>7, <1>8, <1>9, <1>10, <1>11, <1>12, <1>13

\* "contains_end_of_playlist": whoever is told that the end is in a queue finds
\* the sentinel there, however takes, flushes and purges come between.
THEOREM EndFlagSafe == SafeSpec => []EndFlagSound
<1>1. Init => EndFlagSound
  BY DEF Init, EndFlagSound
<1>2. TypeInv /\ EndFlagSound /\ [Next]_vars => EndFlagSound'
  BY EndFlagStep DEF Stays
<1> QED
  BY <1>1, <1>2, TypeSafe, PTL DEF SafeSpec

--------------------------------------------------------------------------------
(* How full a sink is.                                                      *)

Total(queue) == BytesUpto(queue)[Len(queue)]

TotalStep(f, s, n) == IF n = 0 THEN 0 ELSE f[n - 1] + Bytes(s[n])

LEMMA TotalDef ==
  ASSUME NEW T, NEW s \in Seq(T)
  PROVE  \A n \in 0 .. Len(s) : BytesUpto(s)[n] = TotalStep(BytesUpto(s), s, n)
<1> DEFINE Upto(n, f) == f = [m \in 0 .. n |-> TotalStep(f, s, m)]
           L == {n \in Nat : \E f : Upto(n, f)}
<1>1. 0 \in L
  <2> DEFINE f == [m \in 0 .. 0 |-> 0]
  <2>1. Upto(0, f)
    BY DEF TotalStep
  <2> QED
    BY <2>1
<1>2. ASSUME NEW n \in L PROVE n + 1 \in L
  <2>1. PICK f : Upto(n, f)
    BY <1>2
  <2> DEFINE g == [m \in 0 .. n + 1 |-> IF m = n + 1 THEN TotalStep(f, s, m) ELSE f[m]]
  <2>2. ASSUME NEW m \in 0 .. n + 1 PROVE g[m] = TotalStep(g, s, m)
    <3>1. CASE m = n + 1
      BY <3>1, <2>1 DEF TotalStep
    <3>2. CASE m # n + 1
      <4>1. m \in 0 .. n /\ g[m] = f[m] /\ f[m] = TotalStep(f, s, m)
        BY <3>2, <2>1
      <4>2. m # 0 => m - 1 \in 0 .. n + 1 /\ m - 1 # n + 1
        BY <4>1
      <4>3. m # 0 => g[m - 1] = f[m - 1]
        BY <4>2
      <4> HIDE DEF g
      <4> QED
        BY <4>1, <4>3 DEF TotalStep
    <3> QED
      BY <3>1, <3>2
  <2>3. Upto(n + 1, g)
    BY <2>2
  <2> HIDE DEF g
  <2>4. \E h : Upto(n + 1, h)
    BY <2>3
  <2> QED
    BY <2>4
<1>3. L = Nat
  <2>1. L \in SUBSET Nat
    OBVIOUS
  <2> HIDE DEF L
  <2> QED
    BY <1>1, <1>2, <2>1, NatInd
<1>4. PICK f : Upto(Len(s), f)
  BY <1>3
<1>5. BytesUpto(s) = CHOOSE g : g = [m \in 0 .. Len(s) |-> TotalStep(g, s, m)]
  BY DEF BytesUpto, TotalStep
<1>6. Upto(Len(s), BytesUpto(s))
  BY <1>4, <1>5
<1> QED
  BY <1>6

LEMMA TotalEmpty == Total(<<>>) = 0
<1>1. <<>> \in Seq({}) /\ Len(<<>>) = 0 /\ 0 \in 0 .. 0
  OBVIOUS
<1>2. BytesUpto(<<>>)[0] = TotalStep(BytesUpto(<<>>), <<>>, 0)
  BY <1>1, TotalDef
<1> QED
  BY <1>1, <1>2 DEF Total, TotalStep

LEMMA TotalAppend ==
  ASSUME NEW T, NEW s \in Seq(T), NEW x \in T
  PROVE  Total(Append(s, x)) = Total(s) + Bytes(x)
<1> DEFINE t == Append(s, x)
<1>1. t \in Seq(T) /\ Len(t) = Len(s) + 1 /\ t[Len(t)] = x /\ \A n \in 1 .. Len(s) : t[n] = s[n]
  BY AppendProperties
<1>2. \A n \in 0 .. Len(s) : BytesUpto(s)[n] = TotalStep(BytesUpto(s), s, n)
  BY TotalDef
<1>3. \A n \in 0 .. Len(t) : BytesUpto(t)[n] = TotalStep(BytesUpto(t), t, n)
  BY <1>1, TotalDef
<1> HIDE DEF t
<1> DEFINE L == {n \in Nat : n <= Len(s) => BytesUpto(t)[n] = BytesUpto(s)[n]}
<1>4. 0 \in L
  BY <1>1, <1>2, <1>3 DEF TotalStep
<1>5. ASSUME NEW n \in L PROVE n + 1 \in L
  <2>1. SUFFICES ASSUME n + 1 <= Len(s) PROVE BytesUpto(t)[n + 1] = BytesUpto(s)[n + 1]
    OBVIOUS
  <2>2. BytesUpto(t)[n] = BytesUpto(s)[n] /\ t[n + 1] = s[n + 1]
    BY <2>1, <1>1
  <2>3. n + 1 \in 0 .. Len(s) /\ n + 1 \in 0 .. Len(t) /\ n + 1 # 0 /\ (n + 1) - 1 = n
    BY <2>1, <1>1
  <2> QED
    BY <2>2, <2>3, <1>2, <1>3 DEF TotalStep
<1>6. L = Nat
  <2>1. L \in SUBSET Nat
    OBVIOUS
  <2> HIDE DEF L
  <2> QED
    BY <1>4, <1>5, <2>1, NatInd
<1>7. BytesUpto(t)[Len(s)] = BytesUpto(s)[Len(s)]
  BY <1>6
<1>8. BytesUpto(t)[Len(t)] = BytesUpto(t)[Len(s)] + Bytes(x)
  BY <1>1, <1>3 DEF TotalStep
<1> QED
  BY <1>7, <1>8 DEF Total, t

LEMMA TotalNat ==
  ASSUME NEW T, \A x \in T : Bytes(x) \in Nat, NEW s \in Seq(T)
  PROVE  Total(s) \in Nat
<1> DEFINE P == {u \in Seq(T) : Total(u) \in Nat}
<1>1. <<>> \in P
  BY TotalEmpty
<1>2. ASSUME NEW u \in P, NEW x \in T PROVE Append(u, x) \in P
  <2>1. Append(u, x) \in Seq(T)
    BY AppendProperties
  <2>2. Total(Append(u, x)) = Total(u) + Bytes(x)
    BY TotalAppend
  <2>3. Total(u) \in Nat /\ Bytes(x) \in Nat
    OBVIOUS
  <2> QED
    BY <2>1, <2>2, <2>3
<1>3. P = Seq(T)
  <2>1. P \in SUBSET Seq(T)
    OBVIOUS
  <2> HIDE DEF P
  <2> QED
    BY <1>1, <1>2, <2>1, SeqInd
<1> QED
  BY <1>3

LEMMA TotalConcat ==
  ASSUME NEW T, \A x \in T : Bytes(x) \in Nat, NEW r \in Seq(T), NEW s \in Seq(T)
  PROVE  Total(r \o s) = Total(r) + Total(s)
<1> DEFINE P == {u \in Seq(T) : Total(r \o u) = Total(r) + Total(u)}
<1>1. <<>> \in P
  <2>1. r \o <<>> = r /\ Total(r) \in Nat
    BY ConcatEmptySeq, TotalNat
  <2>2. <<>> \in Seq(T)
    OBVIOUS
  <2> QED
    BY <2>1, <2>2, TotalEmpty
<1>2. ASSUME NEW u \in P, NEW x \in T PROVE Append(u, x) \in P
  <2>1. u \in Seq(T) /\ Total(r \o u) = Total(r) + Total(u)
    OBVIOUS
  <2> HIDE DEF P
  <2>2. Total(r) \in Nat
    BY TotalNat
  <2>3. Total(u) \in Nat
    BY <2>1, TotalNat
  <2>4. r \o u \in Seq(T)
    BY <2>1, ConcatProperties
  <2>5. Append(u, x) \in Seq(T)
    BY <2>1, AppendProperties
  <2>6. \A a, b \in Seq(T) : a \o Append(b, x) = Append(a \o b, x)
    OBVIOUS
  <2>7. r \o Append(u, x) = Append(r \o u, x)
    BY <2>1, <2>6
  <2>8. Total(Append(r \o u, x)) = Total(r \o u) + Bytes(x)
    BY <2>4, TotalAppend
  <2>9. Total(Append(u, x)) = Total(u) + Bytes(x)
    BY <2>1, TotalAppend
  <2>10. Bytes(x) \in Nat
    OBVIOUS
  <2>11. Total(r \o Append(u, x)) = Total(r) + Total(Append(u, x))
    BY <2>1, <2>2, <2>3, <2>7, <2>8, <2>9, <2>10
  <2> QED
    BY <2>5, <2>11 DEF P
<1>3. P = Seq(T)
  <2>1. P \in SUBSET Seq(T)
    OBVIOUS
  <2> HIDE DEF P
  <2> QED
    BY <1>1, <1>2, <2>1, SeqInd
<1> QED
  BY <1>3

LEMMA TotalHeadTail ==
  ASSUME NEW T, \A x \in T : Bytes(x) \in Nat, NEW s \in Seq(T), s # <<>>
  PROVE  Total(s) = Bytes(Head(s)) + Total(Tail(s))
<1>1. Head(s) \in T /\ Tail(s) \in Seq(T)
  BY HeadTailProperties
<1>2. <<Head(s)>> \in Seq(T) /\ <<>> \in Seq(T)
  BY <1>1
<1>3. Total(<<Head(s)>>) = Bytes(Head(s))
  <2>1. Append(<<>>, Head(s)) = <<Head(s)>>
    OBVIOUS
  <2>2. Total(Append(<<>>, Head(s))) = Total(<<>>) + Bytes(Head(s))
    BY <1>1, <1>2, TotalAppend
  <2>3. Bytes(Head(s)) \in Nat
    BY <1>1
  <2> QED
    BY <2>1, <2>2, <2>3, TotalEmpty
<1>4. s = <<Head(s)>> \o Tail(s)
  <2>1. Len(<<Head(s)>> \o Tail(s)) = Len(s) /\ <<Head(s)>> \o Tail(s) \in Seq(T)
    BY <1>1, <1>2
  <2>2. \A n \in 1 .. Len(s) : (<<Head(s)>> \o Tail(s))[n] = s[n]
    BY <1>1, <1>2
  <2> QED
    BY <2>1, <2>2, SeqEqual
<1>5. Total(<<Head(s)>> \o Tail(s)) = Total(<<Head(s)>>) + Total(Tail(s))
  BY <1>1, <1>2, TotalConcat
<1> QED
  BY <1>3, <1>4, <1>5

\* A purge, or what is left of it, is no more than there was.
LEMMA TotalKeep ==
  ASSUME NEW T, NEW S, \A x \in T : Bytes(x) \in Nat, NEW s \in Seq(T)
  PROVE  Total(Keep(s, S)) <= Total(s)
<1> DEFINE P == {u \in Seq(T) : Total(Keep(u, S)) <= Total(u)}
<1>1. <<>> \in P
  BY KeepEmpty, TotalEmpty
<1>2. ASSUME NEW u \in P, NEW x \in T PROVE Append(u, x) \in P
  <2>1. u \in Seq(T) /\ Total(Keep(u, S)) <= Total(u)
    OBVIOUS
  <2> HIDE DEF P
  <2>2. Keep(u, S) \in Seq(T)
    BY <2>1, KeepType
  <2>3. Total(Keep(u, S)) \in Nat
    BY <2>2, TotalNat
  <2>4. Total(u) \in Nat
    BY <2>1, TotalNat
  <2>5. Append(u, x) \in Seq(T)
    BY <2>1, AppendProperties
  <2>6. Keep(Append(u, x), S) = IF x \in S THEN Append(Keep(u, S), x) ELSE Keep(u, S)
    BY <2>1, KeepAppend
  <2>7. Total(Append(u, x)) = Total(u) + Bytes(x)
    BY <2>1, TotalAppend
  <2>8. Total(Append(Keep(u, S), x)) = Total(Keep(u, S)) + Bytes(x)
    BY <2>2, TotalAppend
  <2>9. Bytes(x) \in Nat
    OBVIOUS
  <2>10. Total(Keep(Append(u, x), S)) <= Total(Append(u, x))
    BY <2>1, <2>3, <2>4, <2>6, <2>7, <2>8, <2>9
  <2> QED
    BY <2>5, <2>10 DEF P
<1>3. P = Seq(T)
  <2>1. P \in SUBSET Seq(T)
    OBVIOUS
  <2> HIDE DEF P
  <2> QED
    BY <1>1, <1>2, <2>1, SeqInd
<1> QED
  BY <1>3

LEMMA BytesType ==
  ASSUME setup \in Setups
  PROVE  \A x \in Buffer \cup {End} : Bytes(x) \in Nat /\ (x \in Buffer => Bytes(x) <= x.size /\ x.size \in Nat)
<1>1. \A x \in Buffer : x.size \in Nat
  BY SetupsAssumption DEF Buffer
<1> QED
  BY <1>1 DEF Bytes

LEMMA SizeType ==
  ASSUME TypeInv, NEW s \in Sink
  PROVE  Size(s) \in Nat /\ min_size[s] \in Nat
<1>1. audioq[s] \in Seq(Buffer \cup {End}) /\ min_size[s] \in Nat
  BY SetupsAssumption DEF TypeInv, SinksOK, Queue
<1>2. Total(audioq[s]) \in Nat
  BY <1>1, BytesType, TotalNat DEF TypeInv
<1> QED
  BY <1>1, <1>2 DEF Size, Total

LEMMA SizeSame == \A s : audioq'[s] = audioq[s] => Size(s)' = Size(s)
BY DEF Size, BytesUpto, Bytes

LEMMA SizeNext ==
  ASSUME NEW s \in Sink
  PROVE  Size(s) = Total(audioq[s]) /\ Size(s)' = Total(audioq'[s])
BY DEF Size, Total, BytesUpto, Bytes

\* The sentinel does not count.
LEMMA SizeTake ==
  ASSUME TypeInv, NEW s \in Sink, audioq[s] # <<>>,
         audioq' = [audioq EXCEPT ![s] = Tail(@)]
  PROVE  /\ Size(s)' = Size(s) - Bytes(Head(audioq[s]))
         /\ Bytes(Head(audioq[s])) \in Nat
         /\ \A t \in Sink \ {s} : Size(t)' = Size(t)
<1> DEFINE q == audioq[s]
<1>1. q \in Seq(Buffer \cup {End}) /\ audioq'[s] = Tail(q) /\ \A t \in Sink \ {s} : audioq'[t] = audioq[t]
  BY DEF TypeInv, SinksOK, Queue
<1>2. Head(q) \in Buffer \cup {End} /\ Tail(q) \in Seq(Buffer \cup {End})
  BY <1>1, HeadTailRange
<1>3. \A x \in Buffer \cup {End} : Bytes(x) \in Nat
  BY BytesType DEF TypeInv
<1>4. Total(q) = Bytes(Head(q)) + Total(Tail(q))
  BY <1>1, <1>3, TotalHeadTail
<1>5. Total(Tail(q)) \in Nat
  BY <1>2, <1>3, TotalNat
<1>6. Size(s)' = Size(s) - Bytes(Head(q))
  BY <1>1, <1>2, <1>3, <1>4, <1>5, SizeNext
<1> QED
  BY <1>1, <1>2, <1>3, <1>6, SizeSame

LEMMA FullSame ==
  ASSUME UNCHANGED <<fill, sink_map>>, \A s \in Attached : IsFull(s) => IsFull(s)', DetectFull
  PROVE  DetectFull'
<1>1. Attached' = Attached
  BY DEF Attached
<1>2. CASE fill = "every"
  BY <1>1, <1>2 DEF DetectFull, EverySinkFull
<1>3. CASE fill # "every"
  BY <1>1, <1>3 DEF DetectFull, AnySinkFull
<1> QED
  BY <1>2, <1>3

--------------------------------------------------------------------------------
(* The sleep on sink_drain_cond.  The reason for it has to last from the     *)
(* check, under drain_cond_mutex, to the sleep and through it.              *)

Rousing == {"purge", "signal", "clear_purge", "clear_signal", "resize", "detach_map"}

Expected ==
  \/ DetectFull
  \/ \E s \in Sink : consumer[s] = "signal"
  \/ apc \in Rousing

\* Where a detach is expected, there is no second sink for it to forget.
DrainInv ==
  Signalled =>
    /\ dpc \in {"sleep", "asleep_drain"} => Expected
    /\ "detach" \in Calls => \A s, t \in Attached : s = t

LEMMA LoneStep ==
  ASSUME TypeInv, DrainInv, Stays, Signalled
  PROVE  "detach" \in Calls => \A s, t \in Attached' : s = t
<1> SUFFICES ASSUME "detach" \in Calls PROVE \A s, t \in Attached' : s = t
  OBVIOUS
<1>1. "attach" \notin Calls /\ \A s, t \in Attached : s = t
  BY DEF DrainInv, Signalled
<1>2. Attached' \subseteq Attached
  <2>1. MapOK
    BY DEF TypeInv, SinksOK
  <2>2. CASE UNCHANGED sink_map
    BY <2>2 DEF Attached
  <2>3. CASE DetachMap
    BY <2>1, <2>3, VisitDetach DEF DetachMap
  <2>4. CASE DetachAll
    BY <2>1, <2>4, VisitDetach DEF DetachAll
  <2>5. ASSUME NEW s \in setup.sinks, Attach(s) PROVE FALSE
    BY <1>1, <2>5 DEF Attach, May
  <2> QED
    BY <2>2, <2>3, <2>4, <2>5, MapMoves
<1> QED
  BY <1>1, <1>2

LEMMA DrainStep ==
  ASSUME TypeInv, DrainInv, Stays
  PROVE  DrainInv'
<1>0. setup' = setup /\ Calls' = Calls /\ Signalled' = Signalled
  BY SetupStays DEF Calls, Signalled
<1>1. SUFFICES ASSUME Signalled, dpc' \in {"sleep", "asleep_drain"} PROVE Expected'
  BY <1>0, LoneStep DEF DrainInv
<1>2. MapOK /\ \A s \in Attached : s \in Sink
  BY AttachedType DEF TypeInv, SinksOK
<1>3. ASSUME UNCHANGED <<fill, sink_map, audioq, min_size>>, DetectFull PROVE DetectFull'
  <2>1. \A s \in Attached : IsFull(s) => IsFull(s)'
    BY <1>0, <1>3, SizeSame DEF IsFull
  <2> QED
    BY <1>3, <2>1, FullSame
<1>4. ASSUME UNCHANGED <<fill, sink_map, audioq, min_size>>,
             \A s \in Sink : consumer[s] = "signal" => consumer'[s] = "signal",
             apc \in Rousing => apc' \in Rousing, Expected
      PROVE  Expected'
  BY <1>3, <1>4 DEF Expected
<1>5. dpc \in {"sleep", "asleep_drain"} => Expected
  BY <1>1 DEF DrainInv
<1>6. CASE UNCHANGED vars
  BY <1>1, <1>4, <1>5, <1>6 DEF vars, play, dec, sink, app
<1>7. CASE Decode
  <2>1. DFull \/ DSleep
    <3>1. ~DLock /\ ~DQuit /\ ~DIdle /\ ~DSignalEnd /\ ~DWait /\ ~DWakeHead /\ ~DFile
      BY <1>1 DEF DLock, DQuit, DIdle, DSignalEnd, DWait, DWakeHead, DFile, NextSink
    <3>2. ~DWakeDrain /\ ~DRoom /\ ~DFail /\ ~DNoSeek /\ ~DSeek /\ ~DSeekFlush
      BY <1>1 DEF DWakeDrain, DRoom, DFail, DNoSeek, DSeek, DSeekFlush
    <3>3. ~DFlush /\ ~DEof /\ ~DDrain /\ ~DReadEnd /\ ~DReadPacket /\ ~DTake /\ ~DAdvance /\ ~DStore
      BY <1>1 DEF DFlush, DEof, DDrain, DReadEnd, DReadPacket, DTake, DAdvance, DStore, NextSink
    <3>5. ~DPut /\ ~DWalked /\ ~DReceived
      BY <1>1 DEF DPut, DWalked, DReceived
    <3>4. ~DFault
      BY <1>1 DEF DFault, dec
    <3> QED
      BY <1>7, <3>1, <3>2, <3>3, <3>4, <3>5 DEF Decode
  <2>2. CASE DFull
    <3>1. Expected
      BY <2>2 DEF DFull, Expected
    <3> QED
      BY <1>4, <2>2, <3>1 DEF DFull, play, sink, app
  <2>3. CASE DSleep
    BY <1>4, <1>5, <2>3 DEF DSleep, play, sink, app
  <2> QED
    BY <2>1, <2>2, <2>3
<1>8. CASE DSpurious
  BY <1>1, <1>8 DEF DSpurious
<1>9. ASSUME NEW s \in setup.sinks, Consume(s) PROVE Expected'
  <2>0. s \in Sink /\ consumer \in [Sink -> {"idle", "asleep", "woken", "signal"}]
    BY SetupsAssumption DEF TypeInv, SinksOK
  <2>1. ~GetSignal(s)
    BY <1>1 DEF GetSignal, DrainFree, SignalDrain, DecoderAfterDrainSignal
  <2>2. Expected
    BY <1>1, <1>5, <1>9, <2>1 DEF Consume, GetBuffer, GetEnd, GetAborted, GetSleep, dec
  <2>3. UNCHANGED <<fill, sink_map, min_size, apc>>
    BY <1>9 DEF Consume, GetBuffer, GetEnd, GetSignal, GetAborted, GetSleep, play, app
  <2>4. \A t \in Sink : consumer[t] = "signal" => consumer'[t] = "signal"
    <3>1. consumer[s] # "signal"
      BY <1>9, <2>1 DEF Consume, GetBuffer, GetEnd, GetAborted, GetSleep, InLoop
    <3>2. \A t \in Sink \ {s} : consumer'[t] = consumer[t]
      BY <1>9, <2>0 DEF Consume, GetBuffer, GetEnd, GetSignal, GetAborted, GetSleep
    <3> QED
      BY <3>1, <3>2
  <2>5. CASE GetAborted(s) \/ GetSleep(s)
    BY <1>4, <2>2, <2>3, <2>4, <2>5 DEF GetAborted, GetSleep
  <2>6. CASE GetBuffer(s) \/ GetEnd(s)
    <3>1. audioq[s] # <<>> /\ audioq' = [audioq EXCEPT ![s] = Tail(@)]
      BY <2>6 DEF GetBuffer, GetEnd
    <3>2. /\ Size(s)' = Size(s) - Bytes(Head(audioq[s])) /\ Bytes(Head(audioq[s])) \in Nat
          /\ \A t \in Sink \ {s} : Size(t)' = Size(t)
      BY <2>0, <3>1, SizeTake
    <3>3. Size(s) \in Nat /\ min_size[s] \in Nat
      BY <2>0, SizeType
    <3>4. consumer'[s] = "signal" \/ (IsFull(s) => IsFull(s)')
      <4>1. CASE GetEnd(s)
        <5>1. Bytes(Head(audioq[s])) = 0
          BY <4>1 DEF GetEnd, Bytes
        <5> QED
          BY <2>3, <3>2, <3>3, <5>1 DEF IsFull
      <4>2. CASE GetBuffer(s)
        <5> DEFINE n == Head(audioq[s]).size
        <5>1. /\ n = Bytes(Head(audioq[s]))
              /\ consumer' = [consumer EXCEPT ![s] = IF Size(s) - n < min_size[s] THEN "signal" ELSE "idle"]
          BY <4>2 DEF GetBuffer, Bytes
        <5> HIDE DEF n
        <5>2. CASE Size(s) - n < min_size[s]
          BY <5>1, <5>2, <2>0
        <5>3. CASE ~(Size(s) - n < min_size[s])
          BY <2>3, <3>2, <3>3, <5>1, <5>3 DEF IsFull
        <5> QED
          BY <5>2, <5>3
      <4> QED
        BY <2>6, <4>1, <4>2
    <3>5. CASE consumer'[s] = "signal"
      BY <2>0, <3>5 DEF Expected
    <3>6. CASE IsFull(s) => IsFull(s)'
      <4>1. \A t \in Attached : IsFull(t) => IsFull(t)'
        <5> SUFFICES ASSUME NEW t \in Attached, IsFull(t), t # s PROVE IsFull(t)'
          BY <3>6
        <5> QED
          BY <1>2, <2>3, <3>2 DEF IsFull
      <4>2. DetectFull => DetectFull'
        BY <2>3, <4>1, FullSame
      <4> QED
        BY <2>2, <2>3, <2>4, <4>2 DEF Expected
    <3> QED
      BY <3>4, <3>5, <3>6
  <2> QED
    BY <1>9, <2>1, <2>5, <2>6 DEF Consume
<1>10. CASE Application
  <2>1. ASSUME NEW i \in Item, Insert(i) PROVE Expected'
    <3>1. dpc \in {"sleep", "asleep_drain"}
      BY <1>1, <2>1 DEF Insert, InsertBefore, InsertFirst, InsertLast, SignalHead, DecoderAfterHeadSignal
    <3> QED
      BY <1>4, <1>5, <2>1, <3>1 DEF Insert, sink, app
  <2>2. CASE Clear \/ \E i \in Item : RemoveItem(i)
    BY <2>2 DEF RemoveItem, Clear, Expected, Rousing
  <2>3. ASSUME NEW i \in Item, NEW target \in setup.seekTo, Seek(i, target) PROVE Expected'
    <3>1. dpc \in {"sleep", "asleep_drain"}
      BY <1>1, <2>3 DEF Seek, SignalHead, DecoderAfterHeadSignal
    <3> QED
      BY <1>4, <1>5, <2>3, <3>1 DEF Seek, sink
  <2>4. ASSUME NEW m \in {"any", "every"}, SetFillMode(m) PROVE FALSE
    BY <1>1, <2>4 DEF SetFillMode, May, Signalled
  <2>5. ASSUME NEW s \in setup.sinks, Attach(s) PROVE FALSE
    BY <1>1, <2>5 DEF Attach, DrainFree, SignalDrain, DecoderAfterDrainSignal
  <2>6. ASSUME NEW s \in setup.sinks, Detach(s) PROVE Expected'
    <3>1. dpc \in {"sleep", "asleep_drain"} /\ apc = "idle"
      BY <1>1, <2>6 DEF Detach, May, dec
    <3>2. \A t \in Sink : consumer[t] = "signal" => consumer'[t] = "signal"
      BY <2>6 DEF Detach, WakeReader, TypeInv, SinksOK
    <3> QED
      BY <1>4, <1>5, <2>6, <3>1, <3>2 DEF Detach, play, Rousing
  <2>7. ASSUME NEW s \in Sink, NEW n \in setup.sizes, SetBufferSize(s, n) PROVE Expected'
    <3>1. Expected /\ apc \notin Rousing /\ UNCHANGED <<fill, sink_map, audioq, consumer>>
      BY <1>1, <1>5, <2>7 DEF SetBufferSize, May, Rousing, dec, play
    <3>2. CASE apc' = "resize"
      BY <3>2 DEF Expected, Rousing
    <3>3. CASE UNCHANGED min_size /\ UNCHANGED apc
      BY <1>4, <3>1, <3>3
    <3>4. CASE Size(s) >= n /\ min_size' = [min_size EXCEPT ![s] = n]
      <4>1. min_size \in [Sink -> setup.sizes] /\ \A t \in Sink : Size(t)' = Size(t)
        BY <1>0, <3>1, SizeSame DEF TypeInv, SinksOK
      <4>2. \A t \in Attached : IsFull(t) => IsFull(t)'
        BY <1>2, <3>4, <4>1 DEF IsFull
      <4>3. DetectFull => DetectFull'
        BY <3>1, <4>2, FullSame
      <4> QED
        BY <3>1, <4>3 DEF Expected
    <3>5. \/ apc' = "resize" \/ UNCHANGED <<min_size, apc>>
          \/ Size(s) >= n /\ min_size' = [min_size EXCEPT ![s] = n]
      <4>1. Size(s) \in Nat /\ n \in Nat
        BY SizeType, SetupsAssumption DEF TypeInv
      <4> QED
        BY <2>7, <4>1 DEF SetBufferSize
    <3> QED
      BY <3>2, <3>3, <3>4, <3>5
  <2>8. CASE PurgeSink
    BY <2>8 DEF PurgeSink, Expected, Rousing
  <2>9. CASE RemoveSignal \/ ResizeSignal \/ DestroyDrain
    BY <1>1, <2>9 DEF RemoveSignal, ResizeSignal, DestroyDrain, DrainFree, SignalDrain, DecoderAfterDrainSignal
  <2>10. CASE RemoveFree \/ AttachReset \/ Destroy
    BY <1>1, <1>4, <1>5, <2>10 DEF RemoveFree, AttachReset, Destroy, May, play, dec, sink, Rousing
  <2>11. CASE DetachFlush
    BY <2>11 DEF DetachFlush, Expected, Rousing
  <2>12. CASE DetachMap
    <3>1. arg \in Attached /\ "detach" \in Calls
      BY <2>12 DEF DetachMap, TypeInv, CallInv
    <3>2. \A s \in Attached : s = arg
      BY <1>1, <3>1 DEF DrainInv
    <3>3. Attached' = Attached \ {arg}
      BY <1>2, <2>12, VisitDetach DEF DetachMap
    <3>4. Attached' = {}
      BY <3>2, <3>3
    <3> QED
      BY <3>4 DEF Expected, DetectFull, EverySinkFull, AnySinkFull
  <2>13. CASE DestroyAbort
    BY <1>1, <1>4, <1>5, <2>13 DEF DestroyAbort, SignalHead, DecoderAfterHeadSignal, sink, Rousing
  <2>14. CASE Join \/ DetachAll
    BY <1>1, <2>14 DEF Join, DetachAll, TypeInv, CallInv, dec
  <2> QED
    BY <1>10, <2>1, <2>2, <2>3, <2>4, <2>5, <2>6, <2>7, <2>8, <2>9, <2>10, <2>11, <2>12, <2>13, <2>14
       DEF Application, Continue
<1> QED
  BY <1>6, <1>7, <1>8, <1>9, <1>10 DEF Stays, Next

\* The places of the decode thread are its own: others only wake it.
LEMMA OtherSteps ==
  ASSUME Stays, ~Decode
  PROVE  UNCHANGED <<dfile, cur, due, held>> /\ dpc' \in {dpc, "woken_head", "woken_drain"}
<1> USE DEF SignalHead, SignalDrain, DecoderAfterHeadSignal, DecoderAfterDrainSignal, graph
<1>1. CASE UNCHANGED vars
  BY <1>1 DEF vars, dec
<1>2. CASE DSpurious
  BY <1>2 DEF DSpurious, LocalsSame
<1>3. ASSUME NEW s \in setup.sinks, Consume(s)
      PROVE  UNCHANGED <<dfile, cur, due, held>> /\ dpc' \in {dpc, "woken_head", "woken_drain"}
  BY <1>3 DEF Consume, GetBuffer, GetEnd, GetSignal, GetAborted, GetSleep, LocalsSame, dec
<1>4. ASSUME NEW i \in Item, Insert(i)
      PROVE  UNCHANGED <<dfile, cur, due, held>> /\ dpc' \in {dpc, "woken_head", "woken_drain"}
  BY <1>4 DEF Insert, InsertBefore, InsertFirst, InsertLast, LocalsSame
<1>5. CASE Clear \/ \E i \in Item : RemoveItem(i)
  BY <1>5 DEF RemoveItem, Clear, Unlink, dec
<1>6. ASSUME NEW i \in Item, NEW target \in setup.seekTo, Seek(i, target)
      PROVE  UNCHANGED <<dfile, cur, due, held>> /\ dpc' \in {dpc, "woken_head", "woken_drain"}
  BY <1>6 DEF Seek, LocalsSame
<1>7. ASSUME NEW m \in {"any", "every"}, SetFillMode(m) PROVE UNCHANGED dec
  BY <1>7 DEF SetFillMode
<1>8. ASSUME NEW s \in setup.sinks, Detach(s) \/ Attach(s)
      PROVE  UNCHANGED <<dfile, cur, due, held>> /\ dpc' \in {dpc, "woken_head", "woken_drain"}
  BY <1>8 DEF Detach, Attach, LocalsSame, dec
<1>9. ASSUME NEW s \in Sink, NEW n \in setup.sizes, SetBufferSize(s, n) PROVE UNCHANGED dec
  BY <1>9 DEF SetBufferSize
<1>10. CASE Destroy \/ PurgeSink \/ RemoveSignal \/ RemoveFree \/ ResizeSignal \/ DetachFlush \/ AttachReset
  BY <1>10 DEF Destroy, PurgeSink, RemoveSignal, RemoveFree, ResizeSignal, DetachFlush, AttachReset, LocalsSame, dec
<1>11. CASE DetachMap \/ DestroyAbort \/ DestroyDrain \/ Join \/ DetachAll
  BY <1>11 DEF DetachMap, DestroyAbort, DestroyDrain, Join, DetachAll, LocalsSame, dec
<1> QED
  BY <1>1, <1>2, <1>3, <1>4, <1>5, <1>6, <1>7, <1>8, <1>9, <1>10, <1>11 DEF dec, Stays, Next, Application, Continue

\* A request to flush that the decode thread sleeps through came while it slept.
HeardInv == dpc \in {"sleep", "asleep_drain"} => (FlushPending => unheard)

LEMMA HeardStep ==
  ASSUME TypeInv, HeardInv, Stays
  PROVE  HeardInv'
<1>1. SUFFICES ASSUME dpc' \in {"sleep", "asleep_drain"} PROVE FlushPending' => unheard'
  BY DEF HeardInv
<1>2. seek_pos \in [Item -> -1 .. Packets] /\ seek_flush \in [Item -> BOOLEAN]
  BY DEF TypeInv, FilesOK
<1>3. CASE Decode
  <2>1. CASE DFull \/ DSleep
    BY <2>1 DEF HeardInv, DFull, DSleep, FlushPending, LocalsSame, file
  <2>2. CASE DLock \/ DQuit \/ DIdle \/ DSignalEnd \/ DWait \/ DWakeHead \/ DFile
    BY <1>1, <2>2 DEF DLock, DQuit, DIdle, DSignalEnd, DWait, DWakeHead, DFile, NextSink
  <2>3. CASE DWakeDrain \/ DRoom \/ DFail \/ DNoSeek \/ DSeek \/ DSeekFlush \/ DFlush
    BY <1>1, <2>3 DEF DWakeDrain, DRoom, DFail, DNoSeek, DSeek, DSeekFlush, DFlush, NextSink
  <2>4. CASE DEof \/ DDrain \/ DReadEnd \/ DReadPacket \/ DTake \/ DAdvance \/ DStore
    BY <1>1, <2>4 DEF DEof, DDrain, DReadEnd, DReadPacket, DTake, DAdvance, DStore
  <2>5. CASE DPut \/ DWalked \/ DReceived
    BY <1>1, <2>5 DEF DPut, DWalked, DReceived
  <2>6. CASE DFault
    BY <1>1, <2>6 DEF HeardInv, DFault, FlushPending, dec, file
  <2> QED
    BY <1>3, <2>1, <2>2, <2>3, <2>4, <2>5, <2>6 DEF Decode
<1>4. CASE ~Decode
  <2>1. dfile' = dfile /\ dpc \in {"sleep", "asleep_drain"} /\ dfile \in Item
    BY <1>1, <1>4, OtherSteps DEF TypeInv, FilesOK
  <2>2. FlushPending => unheard
    BY <2>1 DEF HeardInv
  <2>3. CASE UNCHANGED file
    BY <2>1, <2>2, <2>3 DEF FlushPending, file
  <2>4. ASSUME NEW i \in Item, Insert(i) PROVE FlushPending' => unheard'
    <3>1. \/ UNCHANGED file
          \/ /\ seek_pos' = [seek_pos EXCEPT ![i] = 0] /\ seek_flush' = [seek_flush EXCEPT ![i] = FALSE]
             /\ UNCHANGED unheard
      BY <2>4 DEF Insert, InsertBefore, InsertFirst, InsertLast
    <3>2. CASE UNCHANGED file
      BY <2>3, <3>2
    <3>3. CASE ~UNCHANGED file
      <4>1. dfile = i => ~FlushPending'
        BY <1>2, <2>1, <3>1, <3>3 DEF FlushPending
      <4>2. dfile # i => FlushPending' = FlushPending
        BY <1>2, <2>1, <3>1, <3>3 DEF FlushPending
      <4> QED
        BY <2>2, <3>1, <3>3, <4>1, <4>2
    <3> QED
      BY <3>2, <3>3
  <2>5. ASSUME NEW i \in Item, NEW target \in setup.seekTo, Seek(i, target) PROVE unheard'
    BY <2>1, <2>5 DEF Seek
  <2>6. CASE UNCHANGED vars
    BY <2>3, <2>6 DEF vars
  <2>7. CASE DSpurious
    BY <2>3, <2>7 DEF DSpurious
  <2>8. ASSUME NEW s \in setup.sinks, Consume(s) PROVE UNCHANGED file
    BY <2>8 DEF Consume, GetBuffer, GetEnd, GetSignal, GetAborted, GetSleep
  <2>9. CASE Clear \/ \E i \in Item : RemoveItem(i)
    BY <2>3, <2>9 DEF RemoveItem, Clear, Unlink
  <2>10. ASSUME NEW m \in {"any", "every"}, SetFillMode(m) PROVE UNCHANGED file
    BY <2>10 DEF SetFillMode
  <2>11. ASSUME NEW s \in setup.sinks, Detach(s) \/ Attach(s) PROVE UNCHANGED file
    BY <2>11 DEF Detach, Attach
  <2>12. ASSUME NEW s \in Sink, NEW n \in setup.sizes, SetBufferSize(s, n) PROVE UNCHANGED file
    BY <2>12 DEF SetBufferSize
  <2>13. CASE Destroy \/ PurgeSink \/ RemoveSignal \/ RemoveFree \/ ResizeSignal \/ DetachFlush \/ AttachReset
    BY <2>3, <2>13 DEF Destroy, PurgeSink, RemoveSignal, RemoveFree, ResizeSignal, DetachFlush, AttachReset
  <2>14. CASE DetachMap \/ DestroyAbort \/ DestroyDrain \/ Join \/ DetachAll
    BY <2>3, <2>14 DEF DetachMap, DestroyAbort, DestroyDrain, Join, DetachAll
  <2> QED
    BY <1>4, <2>3, <2>4, <2>5, <2>6, <2>7, <2>8, <2>9, <2>10, <2>11, <2>12, <2>13, <2>14
       DEF Stays, Next, Application, Continue
<1> QED
  BY <1>3, <1>4

\* sink_drain_cond: while the decode thread sleeps for room there is none, or
\* whoever made some is on its way to signal; and no request to flush was there
\* when it went to sleep.
THEOREM DrainWakes == SafeSpec => []DrainNotLost
<1>1. Init => DrainInv /\ HeardInv
  <2> SUFFICES ASSUME Init, Signalled, "detach" \in Calls PROVE \A s, t \in Attached : s = t
    BY DEF DrainInv, HeardInv, Init
  <2>1. sink_map = setup.map /\ Len(sink_map) <= 1 /\ sink_map \in Seq(setup.sinks)
    BY SetupsAssumption DEF Init, Signalled
  <2>2. PICK n \in Nat : Len(sink_map) = n /\ DOMAIN sink_map = 1 .. n
    BY <2>1
  <2>3. \A j, k \in DOMAIN sink_map : j = k
    BY <2>1, <2>2
  <2> QED
    BY <2>3 DEF Attached, Range
<1>2. TypeInv /\ DrainInv /\ HeardInv /\ [Next]_vars => (DrainInv /\ HeardInv)'
  BY DrainStep, HeardStep DEF Stays
<1>3. DrainInv /\ HeardInv => DrainNotLost
  BY DEF DrainInv, HeardInv, DrainNotLost, Expected, SignalComing, Rousing
<1> QED
  BY <1>1, <1>2, <1>3, TypeSafe, PTL DEF SafeSpec

--------------------------------------------------------------------------------
(* Whom the buffers in the queues belong to.  A removal takes the item out   *)
(* of the list first and out of the queues one by one: until every_sink has  *)
(* been there, a queue may hold it.                                         *)

Purging == {"purge", "clear_purge"}

Owned(s) == Listed \cup {i \in {arg} : apc \in Purging /\ s \in Later(acur)}

Sound(q, S) == \A b \in Range(q) : b # End => b.item \in S /\ b.item = b.src

Reading == {"check", "seek", "flush", "read", "receive", "put"}

\* A sink that has never been attached has heard nothing.
NewEmpty == ~Reattached /\ "attach" \in Calls => \A s \in Sink \ Attached : audioq[s] = <<>>

\* What is being decoded, and what is being put.
Labelled ==
  /\ dpc \in Reading => dfile = decode_head
  /\ dpc = "put" => held.item = dfile /\ held.src = dfile

AudioInv ==
  ~strayed /\ ~Reattached =>
    /\ \A s \in Attached : Sound(audioq[s], Owned(s))
    /\ Labelled

LEMMA StrayedStays ==
  ASSUME Stays, ~strayed'
  PROVE  ~strayed
<1>1. CASE UNCHANGED vars
  BY <1>1 DEF vars, dec
<1>2. CASE Decode \/ DSpurious
  <2>1. CASE DLock \/ DQuit \/ DIdle \/ DSignalEnd \/ DWait \/ DWakeHead \/ DFile \/ DSpurious
    BY <2>1 DEF DLock, DQuit, DIdle, DSignalEnd, DWait, DWakeHead, DFile, DSpurious, LocalsSame
  <2>2. CASE DFull \/ DSleep \/ DWakeDrain \/ DRoom \/ DFail \/ DNoSeek \/ DSeek \/ DSeekFlush
    BY <2>2 DEF DFull, DSleep, DWakeDrain, DRoom, DFail, DNoSeek, DSeek, DSeekFlush, LocalsSame
  <2>3. CASE DFlush \/ DEof \/ DDrain \/ DReadEnd \/ DReadPacket \/ DTake \/ DWalked \/ DReceived \/ DPut \/ DAdvance \/ DStore \/ DFault
    BY <2>3 DEF DFlush, DEof, DDrain, DReadEnd, DReadPacket, DTake, DWalked, DReceived, DPut, DAdvance, DStore, DFault, LocalsSame, dec
  <2> QED
    BY <1>2, <2>1, <2>2, <2>3 DEF Decode
<1>3. ASSUME NEW s \in setup.sinks, Consume(s) PROVE UNCHANGED strayed
  BY <1>3 DEF Consume, GetBuffer, GetEnd, GetSignal, GetAborted, GetSleep, LocalsSame, dec
<1>4. ASSUME NEW i \in Item, Insert(i) PROVE UNCHANGED strayed
  BY <1>4 DEF Insert, LocalsSame
<1>5. CASE Clear \/ \E i \in Item : RemoveItem(i)
  BY <1>5 DEF RemoveItem, Clear, Unlink, dec
<1>6. ASSUME NEW i \in Item, NEW target \in setup.seekTo, Seek(i, target) PROVE UNCHANGED strayed
  BY <1>6 DEF Seek, LocalsSame
<1>7. ASSUME NEW m \in {"any", "every"}, SetFillMode(m) PROVE UNCHANGED strayed
  BY <1>7 DEF SetFillMode, dec
<1>8. ASSUME NEW s \in setup.sinks, Detach(s) \/ Attach(s) PROVE UNCHANGED strayed
  BY <1>8 DEF Detach, Attach, LocalsSame, dec
<1>9. ASSUME NEW s \in Sink, NEW n \in setup.sizes, SetBufferSize(s, n) PROVE UNCHANGED strayed
  BY <1>9 DEF SetBufferSize, dec
<1>10. CASE Destroy \/ PurgeSink \/ RemoveSignal \/ RemoveFree \/ ResizeSignal \/ DetachFlush \/ AttachReset
  BY <1>10 DEF Destroy, PurgeSink, RemoveSignal, RemoveFree, ResizeSignal, DetachFlush, AttachReset, LocalsSame, dec
<1>11. CASE DetachMap \/ DestroyAbort \/ DestroyDrain \/ Join \/ DetachAll
  BY <1>11 DEF DetachMap, DestroyAbort, DestroyDrain, Join, DetachAll, LocalsSame, dec
<1> QED
  BY <1>1, <1>2, <1>3, <1>4, <1>5, <1>6, <1>7, <1>8, <1>9, <1>10, <1>11 DEF Stays, Next, Application, Continue

\* Nobody moves decode_head away from the file that is being decoded.
LEMMA ReadingStep ==
  ASSUME IInv, Stays, ~strayed, ~strayed', Labelled
  PROVE  dpc' \in Reading => dfile' = decode_head'
<1>0. dpc \in Reading => dfile = decode_head
  BY DEF Labelled
<1> USE DEF Reading
<1>1. dpc \in Reading => owner = "decoder"
  BY DEF IInv, Exclusive, Holding
<1>2. ASSUME UNCHANGED <<dfile, decode_head>>, dpc' \in Reading => dpc \in Reading
      PROVE  dpc' \in Reading => dfile' = decode_head'
  BY <1>0, <1>2
<1>3. CASE UNCHANGED vars
  BY <1>2, <1>3 DEF vars, play, dec
<1>4. CASE Decode \/ DSpurious
  <2>1. CASE DLock \/ DQuit \/ DIdle \/ DSignalEnd \/ DWait \/ DWakeHead \/ DFile \/ DSpurious
    BY <2>1 DEF DLock, DQuit, DIdle, DSignalEnd, DWait, DWakeHead, DFile, DSpurious, NextSink, LocalsSame, play
  <2>2. CASE DFull \/ DSleep \/ DWakeDrain \/ DRoom \/ DFail \/ DNoSeek \/ DSeek \/ DSeekFlush
    BY <1>2, <2>2 DEF DFull, DSleep, DWakeDrain, DRoom, DFail, DNoSeek, DSeek, DSeekFlush, LocalsSame, play
  <2>3. CASE DFlush \/ DEof \/ DDrain \/ DReadEnd \/ DReadPacket \/ DTake \/ DWalked \/ DReceived \/ DPut \/ DAdvance \/ DFault
    BY <1>2, <2>3 DEF DFlush, DEof, DDrain, DReadEnd, DReadPacket, DTake, DWalked, DReceived, DPut, DAdvance, DFault, NextSink, LocalsSame, play, dec
  <2>4. CASE DStore
    BY <2>4 DEF DStore
  <2> QED
    BY <1>4, <2>1, <2>2, <2>3, <2>4 DEF Decode
<1>5. ASSUME NEW s \in setup.sinks, Consume(s) PROVE dpc' \in Reading => dfile' = decode_head'
  BY <1>2, <1>5 DEF Consume, GetBuffer, GetEnd, GetSignal, GetAborted, GetSleep, SignalDrain,
     DecoderAfterDrainSignal, LocalsSame, dec, play
<1>6. ASSUME owner = "nobody", dpc' \in {dpc, "woken_head", "woken_drain"}
      PROVE  dpc' \in Reading => dfile' = decode_head'
  BY <1>1, <1>6
<1>7. ASSUME NEW i \in Item, Insert(i) PROVE dpc' \in Reading => dfile' = decode_head'
  BY <1>6, <1>7 DEF Insert, HeadFree, InsertBefore, InsertFirst, InsertLast, SignalHead, DecoderAfterHeadSignal
<1>8. CASE Clear \/ \E i \in Item : RemoveItem(i)
  BY <1>6, <1>8 DEF RemoveItem, Clear, Unlink, HeadFree, dec
<1>9. ASSUME NEW i \in Item, NEW target \in setup.seekTo, Seek(i, target)
      PROVE  dpc' \in Reading => dfile' = decode_head'
  BY <1>6, <1>9 DEF Seek, HeadFree, SignalHead, DecoderAfterHeadSignal
<1>10. ASSUME NEW m \in {"any", "every"}, SetFillMode(m) PROVE dpc' \in Reading => dfile' = decode_head'
  BY <1>6, <1>10 DEF SetFillMode, HeadFree, dec
<1>11. ASSUME NEW s \in setup.sinks, Detach(s) \/ Attach(s) PROVE dpc' \in Reading => dfile' = decode_head'
  BY <1>2, <1>11 DEF Detach, Attach, SignalDrain, DecoderAfterDrainSignal, LocalsSame, dec, play
<1>12. ASSUME NEW s \in Sink, NEW n \in setup.sizes, SetBufferSize(s, n)
       PROVE  dpc' \in Reading => dfile' = decode_head'
  BY <1>2, <1>12 DEF SetBufferSize, dec, play
<1>13. CASE Destroy \/ PurgeSink \/ RemoveSignal \/ RemoveFree \/ ResizeSignal \/ DetachFlush \/ AttachReset
  BY <1>2, <1>13 DEF Destroy, PurgeSink, RemoveSignal, RemoveFree, ResizeSignal, DetachFlush, AttachReset,
     SignalDrain, DecoderAfterDrainSignal, LocalsSame, dec, play
<1>14. CASE DetachMap \/ DestroyAbort \/ DestroyDrain \/ Join \/ DetachAll
  BY <1>2, <1>14 DEF DetachMap, DestroyAbort, DestroyDrain, Join, DetachAll, SignalHead, SignalDrain,
     DecoderAfterHeadSignal, DecoderAfterDrainSignal, LocalsSame, dec, play
<1> QED
  BY <1>3, <1>4, <1>5, <1>7, <1>8, <1>9, <1>10, <1>11, <1>12, <1>13, <1>14 DEF Stays, Next, Application, Continue

LEMMA LabelStep ==
  ASSUME IInv, Stays, ~strayed, ~strayed', Labelled
  PROVE  Labelled'
<1>1. dpc' \in Reading => dfile' = decode_head'
  BY ReadingStep
<1>2. ASSUME dpc' = "put" PROVE held'.item = dfile' /\ held'.src = dfile'
  <2>1. CASE ~Decode
    BY <1>2, <2>1, OtherSteps DEF Labelled
  <2>2. CASE DTake
    <3>1. dfile' = dfile /\ dfile = decode_head /\ held'.item = decode_head /\ held'.src = dfile
      BY <2>2 DEF DTake, Labelled, Reading
    <3> QED
      BY <3>1
  <2>3. CASE DPut
    BY <1>2, <2>3 DEF DPut, Labelled
  <2>4. CASE DFault
    BY <1>2, <2>4 DEF DFault, dec, graph, Labelled
  <2>5. CASE DLock \/ DQuit \/ DIdle \/ DSignalEnd \/ DWait \/ DWakeHead \/ DFile
    BY <1>2, <2>5 DEF DLock, DQuit, DIdle, DSignalEnd, DWait, DWakeHead, DFile, NextSink
  <2>6. CASE DFull \/ DSleep \/ DWakeDrain \/ DRoom \/ DFail \/ DNoSeek \/ DSeek \/ DSeekFlush
    BY <1>2, <2>6 DEF DFull, DSleep, DWakeDrain, DRoom, DFail, DNoSeek, DSeek, DSeekFlush
  <2>7. CASE DFlush \/ DEof \/ DDrain \/ DReadEnd \/ DReadPacket \/ DAdvance \/ DStore
    BY <1>2, <2>7 DEF DFlush, DEof, DDrain, DReadEnd, DReadPacket, DAdvance, DStore, NextSink
  <2>8. CASE DWalked \/ DReceived
    BY <1>2, <2>8 DEF DWalked, DReceived
  <2> QED
    BY <2>1, <2>2, <2>3, <2>4, <2>5, <2>6, <2>7, <2>8 DEF Decode
<1> QED
  BY <1>1, <1>2 DEF Labelled

\* What a queue may hold it may hold after any step but the purge of that queue.
LEMMA OwnedUnlink ==
  ASSUME TypeInv, apc \notin Removing, NEW i \in alive, Unlink(i), NEW s \in Attached,
         apc' \in {"purge", "signal", "clear_purge", "clear_signal"}, First # Null => apc' \in Purging
  PROVE  Owned(s) \subseteq Owned(s)'
<1>1. MapOK /\ UNCHANGED <<sink_map, alive>> /\ arg' = i /\ acur' = First
  BY DEF TypeInv, SinksOK, Unlink
<1>2. First # Null
  <2>1. sink_map # <<>>
    BY DEF Attached, Range
  <2>2. Head(sink_map) \in Sink
    BY <1>1, <2>1, HeadTailRange DEF MapOK
  <2> QED
    BY <2>1, <2>2, NullAssumption DEF First
<1>3. Later(First) = Attached
  BY <1>1, <1>2, VisitFirst
<1>4. Later(acur)' = Later(First)
  BY <1>1 DEF Later, Attached
<1>5. Owned(s) = alive
  BY DEF Owned, Listed, Purging, Removing
<1>6. Listed' = alive \ {i}
  BY <1>1 DEF Listed, Removing
<1> QED
  BY <1>1, <1>2, <1>3, <1>4, <1>5, <1>6 DEF Owned

LEMMA OwnedStep ==
  ASSUME TypeInv, Stays, ~PurgeSink, NEW s \in Attached
  PROVE  Owned(s) \subseteq Owned(s)'
<1>1. ASSUME UNCHANGED <<list, sink_map, app>> PROVE Owned(s)' = Owned(s)
  BY <1>1 DEF Owned, Listed, Later, Attached, list, app
<1>2. CASE UNCHANGED vars
  BY <1>1, <1>2 DEF vars, play
<1>3. CASE Decode
  BY <1>1, <1>3, DecodeMap, DecodeFrame
<1>4. CASE DSpurious
  BY <1>1, <1>4 DEF DSpurious, play
<1>5. ASSUME NEW t \in setup.sinks, Consume(t) PROVE Owned(s)' = Owned(s)
  BY <1>1, <1>5 DEF Consume, GetBuffer, GetEnd, GetSignal, GetAborted, GetSleep, play
<1>6. ASSUME apc \notin Removing, apc' \notin Removing, alive \subseteq alive' PROVE Owned(s) \subseteq Owned(s)'
  BY <1>6 DEF Owned, Listed, Purging, Removing
<1>7. ASSUME NEW i \in Item, Insert(i) PROVE Owned(s) \subseteq Owned(s)'
  BY <1>6, <1>7 DEF Insert, May, app, Removing
<1>8. ASSUME NEW i \in Item, RemoveItem(i) PROVE Owned(s) \subseteq Owned(s)'
  BY <1>8, OwnedUnlink DEF RemoveItem, May, Removing, Purging
<1>9. CASE Clear
  <2>1. head \in alive
    BY <1>9 DEF Clear, TypeInv, ListInv, Ends, Listed
  <2> QED
    BY <1>9, <2>1, OwnedUnlink DEF Clear, Removing, Purging
<1>10. CASE RemoveSignal
  BY <1>10 DEF RemoveSignal, Owned, Listed, Purging, Removing, list
<1>11. CASE RemoveFree
  BY <1>11 DEF RemoveFree, Owned, Listed, Purging, Removing
<1>12. ASSUME NEW i \in Item, NEW target \in setup.seekTo, Seek(i, target) PROVE Owned(s) \subseteq Owned(s)'
  BY <1>6, <1>12 DEF Seek, May, list, Removing
<1>13. ASSUME NEW m \in {"any", "every"}, SetFillMode(m) PROVE Owned(s) \subseteq Owned(s)'
  BY <1>6, <1>13 DEF SetFillMode, May, list, Removing
<1>14. ASSUME NEW t \in setup.sinks, Detach(t) \/ Attach(t) PROVE Owned(s) \subseteq Owned(s)'
  BY <1>6, <1>14 DEF Detach, Attach, May, list, Removing
<1>15. ASSUME NEW t \in Sink, NEW n \in setup.sizes, SetBufferSize(t, n) PROVE Owned(s) \subseteq Owned(s)'
  BY <1>6, <1>15 DEF SetBufferSize, May, list, Removing
<1>16. CASE Destroy \/ ResizeSignal \/ DetachFlush \/ DetachMap \/ AttachReset
  BY <1>6, <1>16 DEF Destroy, ResizeSignal, DetachFlush, DetachMap, AttachReset, May, list, Removing
<1>17. CASE DestroyAbort \/ DestroyDrain \/ Join \/ DetachAll
  BY <1>6, <1>17 DEF DestroyAbort, DestroyDrain, Join, DetachAll, list, Removing
<1> QED
  BY <1>2, <1>3, <1>4, <1>5, <1>7, <1>8, <1>9, <1>10, <1>11, <1>12, <1>13, <1>14, <1>15, <1>16, <1>17
     DEF Stays, Next, Application, Continue

\* The purge of one queue.
LEMMA PurgeStep ==
  ASSUME TypeInv, PurgeSink, setup' = setup, \A s \in Attached : Sound(audioq[s], Owned(s)), NEW s \in Attached
  PROVE  Sound(audioq'[s], Owned(s)')
<1> DEFINE S == {b \in Buffer : b.item # arg} \cup {End}
           q == Keep(audioq[acur], S)
<1>1. /\ MapOK /\ acur \in Attached /\ apc \in Purging /\ audioq \in [Sink -> Seq(Buffer \cup {End})]
      /\ s \in Sink /\ acur \in Sink
  BY AttachedType DEF PurgeSink, TypeInv, SinksOK, CallInv, Queue, Purging
<1>2. /\ audioq' = [audioq EXCEPT ![acur] = q] /\ acur' = After(acur)
      /\ UNCHANGED <<sink_map, alive, arg>>
      /\ IF After(acur) = Null THEN apc' \notin Purging ELSE apc' \in Purging
      /\ apc \in Removing /\ apc' \in Removing
  BY DEF PurgeSink, play, list, Purging, Removing
<1>3. Listed' = Listed
  BY <1>2 DEF Listed
<1>4. \A t \in Attached : Owned(t) = Listed \cup {i \in {arg} : t \in Later(acur)}
  BY <1>1 DEF Owned
<1>5. Owned(s)' = Listed \cup {i \in {arg} : s \in Later(acur) /\ s # acur}
  <2>1. CASE After(acur) = Null
    <3>1. Later(acur) = {acur}
      BY <1>1, <2>1, VisitNext
    <3> QED
      BY <1>2, <1>3, <2>1, <3>1 DEF Owned
  <2>2. CASE After(acur) # Null
    <3>1. Later(After(acur)) = Later(acur) \ {acur}
      BY <1>1, <2>2, VisitNext
    <3>2. Later(acur)' = Later(After(acur))
      BY <1>2 DEF Later, Attached
    <3> QED
      BY <1>2, <1>3, <2>2, <3>1, <3>2 DEF Owned
  <2> QED
    BY <2>1, <2>2
<1>6. Range(q) = Range(audioq[acur]) \cap S
  BY <1>1, KeepRange
<1>7. \A b \in S : b # End => b.item # arg
  OBVIOUS
<1> HIDE DEF q, S
<1>8. CASE s = acur
  <2>1. audioq'[s] = q
    BY <1>1, <1>2, <1>8
  <2>2. Sound(q, Listed)
    BY <1>1, <1>4, <1>6, <1>7 DEF Sound
  <2> QED
    BY <1>5, <2>1, <2>2 DEF Sound
<1>9. CASE s # acur
  BY <1>1, <1>2, <1>4, <1>5, <1>9 DEF Sound
<1> QED
  BY <1>8, <1>9

LEMMA AudioQueues ==
  ASSUME IInv, TypeInv, Stays, ~strayed, Labelled,
         \A s \in Attached : Sound(audioq[s], Owned(s)), NEW s \in Attached
  PROVE  Sound(audioq'[s], Owned(s)')
<1>1. audioq \in [Sink -> Seq(Buffer \cup {End})] /\ s \in Sink /\ setup' = setup
  BY AttachedType, SetupStays DEF TypeInv, SinksOK, Queue
<1>2. CASE PurgeSink
  BY <1>1, <1>2, PurgeStep
<1>3. CASE ~PurgeSink
  <2>1. Owned(s) \subseteq Owned(s)' /\ Listed \subseteq Owned(s)
    BY <1>3, OwnedStep DEF Owned
  <2>2. SUFFICES Sound(audioq'[s], Owned(s))
    BY <2>1 DEF Sound
  <2>3. CASE audioq'[s] = audioq[s]
    BY <2>3
  <2>4. CASE audioq'[s] = <<>>
    BY <2>4 DEF Sound, Range
  <2>5. CASE DSignalEnd /\ cur = s
    <3>1. audioq'[s] = Append(audioq[s], End)
      BY <1>1, <2>5 DEF DSignalEnd
    <3>2. Range(audioq'[s]) = Range(audioq[s]) \cup {End}
      BY <1>1, <3>1, RangeAppend
    <3> QED
      BY <3>2 DEF Sound
  <2>6. CASE DPut /\ cur = s
    <3>1. audioq'[s] = Append(audioq[s], held)
      BY <1>1, <2>6 DEF DPut
    <3>2. held \in Buffer /\ held.item = held.src /\ held.item = decode_head
      BY <2>6 DEF DPut, Labelled, Reading, TypeInv, FilesOK
    <3>3. decode_head \in Listed
      <4>1. decode_head # Null
        BY <3>2, NullAssumption DEF Buffer
      <4> QED
        BY <4>1 DEF IInv, Following
    <3>4. Range(audioq'[s]) = Range(audioq[s]) \cup {held}
      BY <1>1, <3>1, <3>2, RangeAppend
    <3> QED
      BY <2>1, <3>2, <3>3, <3>4 DEF Sound
  <2>7. CASE audioq[s] # <<>> /\ audioq'[s] = Tail(audioq[s])
    <3>1. Range(audioq'[s]) \subseteq Range(audioq[s])
      BY <1>1, <2>7, HeadTailRange
    <3> QED
      BY <3>1 DEF Sound
  <2>8. CASE UNCHANGED <<audioq, contains_end>>
    BY <2>3, <2>8
  <2>9. CASE DSignalEnd
    BY <1>1, <2>3, <2>5, <2>9 DEF DSignalEnd
  <2>10. CASE DFlush
    BY <1>1, <2>3, <2>4, <2>10 DEF DFlush
  <2>11. CASE DPut
    BY <1>1, <2>3, <2>6, <2>11 DEF DPut
  <2>12. CASE DetachFlush
    BY <1>1, <2>3, <2>4, <2>12 DEF DetachFlush
  <2>13. CASE DetachAll
    BY <1>1, <2>3, <2>4, <2>13 DEF DetachAll
  <2>14. ASSUME NEW t \in setup.sinks, GetBuffer(t) \/ GetEnd(t) PROVE Sound(audioq'[s], Owned(s))
    BY <1>1, <2>3, <2>7, <2>14 DEF GetBuffer, GetEnd
  <2> QED
    BY <1>3, <2>8, <2>9, <2>10, <2>11, <2>12, <2>13, <2>14, QueueMoves
<1> QED
  BY <1>2, <1>3

LEMMA NewEmptyStep ==
  ASSUME TypeInv, NewEmpty, Stays
  PROVE  /\ NewEmpty'
         /\ ~Reattached => \A s \in Attached' \ Attached : "attach" \in Calls /\ audioq'[s] = <<>>
<1>0. setup' = setup /\ Calls' = Calls /\ Reattached' = Reattached
  BY SetupStays DEF Calls, Reattached
<1>1. SUFFICES ASSUME ~Reattached
               PROVE  /\ \A s \in Attached' \ Attached : "attach" \in Calls /\ audioq'[s] = <<>>
                      /\ "attach" \in Calls => \A s \in Sink \ Attached' : audioq'[s] = <<>>
  BY <1>0 DEF NewEmpty
<1>2. "attach" \in Calls => \A s \in Sink \ Attached : audioq[s] = <<>>
  BY <1>1 DEF NewEmpty
<1>3. /\ audioq \in [Sink -> Queue] /\ MapOK
      /\ \A s \in setup.sinks : s \in Sink
      /\ \A s \in Attached : s \in Sink
  BY SetupsAssumption, AttachedType DEF TypeInv, SinksOK
<1>6. \A s \in Attached' \ Attached : "attach" \in Calls /\ audioq'[s] = <<>>
  <2>1. CASE UNCHANGED sink_map
    BY <2>1 DEF Attached
  <2>2. CASE DetachMap
    BY <1>3, <2>2, VisitDetach DEF DetachMap
  <2>3. CASE DetachAll
    BY <1>3, <2>3, VisitDetach DEF DetachAll
  <2>4. ASSUME NEW s \in setup.sinks, Attach(s) PROVE \A t \in Attached' \ Attached : "attach" \in Calls /\ audioq'[t] = <<>>
    <3>1. s \in Sink \ Attached /\ "attach" \in Calls /\ audioq' = audioq
      BY <1>3, <2>4 DEF Attach, May
    <3>2. PICK k \in 1 .. Len(sink_map) + 1 : sink_map' = InsertAt(sink_map, k, s)
      BY <2>4 DEF Attach
    <3>3. Attached' = Attached \cup {s}
      BY <1>3, <3>1, <3>2, VisitAttach
    <3> QED
      BY <1>2, <3>1, <3>3
  <2> QED
    BY <2>1, <2>2, <2>3, <2>4, MapMoves
<1>8. ASSUME "attach" \in Calls, NEW s \in Sink \ Attached' PROVE audioq'[s] = <<>>
  <2>1. ~DetachMap /\ \A t \in Sink \ Attached : audioq[t] = <<>>
    BY <1>1, <1>2, <1>8 DEF DetachMap, Reattached, TypeInv, CallInv
  <2>2. s \notin Attached \/ (DetachAll /\ s = acur)
    <3>1. CASE UNCHANGED sink_map
      BY <1>8, <3>1 DEF Attached
    <3>2. CASE DetachAll
      <4>1. Attached' = Attached \ {acur}
        BY <1>3, <3>2, VisitDetach DEF DetachAll
      <4> QED
        BY <1>8, <3>2, <4>1
    <3>3. ASSUME NEW t \in setup.sinks, Attach(t) PROVE s \notin Attached
      <4>1. t \in Sink \ Attached
        BY <1>3, <3>3 DEF Attach
      <4>2. PICK k \in 1 .. Len(sink_map) + 1 : sink_map' = InsertAt(sink_map, k, t)
        BY <3>3 DEF Attach
      <4>3. Attached' = Attached \cup {t}
        BY <1>3, <4>1, <4>2, VisitAttach
      <4> QED
        BY <1>8, <4>3
    <3> QED
      BY <2>1, <3>1, <3>2, <3>3, MapMoves
  <2>3. CASE DetachAll /\ s = acur
    BY <1>3, <2>3 DEF DetachAll
  <2>4. CASE s \notin Attached
    <3>1. audioq[s] = <<>>
      BY <2>1, <2>4
    <3>2. CASE UNCHANGED <<audioq, contains_end>>
      BY <3>1, <3>2
    <3>3. CASE DSignalEnd \/ DFlush \/ DPut
      BY <1>3, <2>4, <3>1, <3>3 DEF DSignalEnd, DFlush, DPut
    <3>4. CASE PurgeSink
      BY <1>3, <2>4, <3>1, <3>4 DEF PurgeSink, TypeInv, CallInv
    <3>5. CASE DetachFlush \/ DetachAll
      BY <1>3, <3>1, <3>5 DEF DetachFlush, DetachAll
    <3>6. ASSUME NEW t \in setup.sinks, GetBuffer(t) \/ GetEnd(t) PROVE audioq'[s] = <<>>
      BY <1>3, <3>1, <3>6 DEF GetBuffer, GetEnd
    <3> QED
      BY <3>2, <3>3, <3>4, <3>5, <3>6, QueueMoves
  <2> QED
    BY <2>2, <2>3, <2>4
<1> QED
  BY <1>6, <1>8

LEMMA AudioStep ==
  ASSUME IInv, TypeInv, NewEmpty, AudioInv, Stays
  PROVE  AudioInv'
<1>0. Reattached' = Reattached
  BY SetupStays DEF Calls, Reattached
<1>1. SUFFICES ASSUME ~strayed', ~Reattached
               PROVE  (\A s \in Attached' : Sound(audioq'[s], Owned(s)')) /\ Labelled'
  BY <1>0 DEF AudioInv
<1>2. ~strayed /\ (\A s \in Attached : Sound(audioq[s], Owned(s))) /\ Labelled
  BY <1>1, StrayedStays DEF AudioInv
<1>3. Labelled'
  BY <1>1, <1>2, LabelStep
<1>4. \A s \in Attached : Sound(audioq'[s], Owned(s)')
  BY <1>2, AudioQueues
<1>5. \A s \in Attached' \ Attached : audioq'[s] = <<>>
  BY <1>1, NewEmptyStep
<1>6. \A S : Sound(<<>>, S)
  BY DEF Sound, Range
<1> QED
  BY <1>3, <1>4, <1>5, <1>6

LEMMA AudioSafe == SafeSpec => [](NewEmpty /\ AudioInv)
<1>1. Init => NewEmpty /\ AudioInv
  <2>1. Init => \A s \in Attached : s \in Sink
    BY TypeInit, AttachedType DEF TypeInv, SinksOK
  <2> QED
    BY <2>1 DEF Init, NewEmpty, AudioInv, Labelled, Sound, Range, Reading
<1>2. IInv /\ TypeInv /\ NewEmpty /\ AudioInv /\ [Next]_vars => (NewEmpty /\ AudioInv)'
  BY NewEmptyStep, AudioStep DEF Stays
<1> QED
  BY <1>1, <1>2, TypeSafe, Inductive, PTL DEF SafeSpec

\* groove_playlist_remove: as long as the decoder keeps to its mutex, no buffer
\* that a reader can still take refers to an item that has been freed, and every
\* buffer is labelled with the item whose file it was decoded from.
THEOREM NothingDangles == SafeSpec => []NoDanglingItem
<1>1. TypeInv /\ AudioInv => NoDanglingItem
  <2> SUFFICES ASSUME TypeInv, AudioInv, ~strayed, ~Reattached, NEW s \in Attached, NEW k \in DOMAIN audioq[s],
                      audioq[s][k] # End
               PROVE  audioq[s][k].item \in alive /\ audioq[s][k].item = audioq[s][k].src
    BY DEF NoDanglingItem
  <2>1. audioq[s][k] \in Range(audioq[s]) /\ Sound(audioq[s], Owned(s))
    BY DEF AudioInv, Range
  <2>2. Owned(s) \subseteq alive
    BY DEF Owned, Listed, Purging, TypeInv, ListInv, Typed, Removing
  <2> QED
    BY <2>1, <2>2 DEF Sound
<1> QED
  BY <1>1, TypeSafe, AudioSafe, PTL

--------------------------------------------------------------------------------
(* every_sink_flush, while sinks come and go between two of its steps.      *)

\* The sinks that every_sink has left behind are empty.
FlushInv ==
  ~Reattached /\ dpc = "flush" =>
    /\ cur \in Attached \/ "detach" \in Calls
    /\ cur \in Attached => \A s \in Attached \ Later(cur) : audioq[s] = <<>>

LEMMA FlushDecode ==
  ASSUME TypeInv, FlushInv, Decode, setup' = setup
  PROVE  FlushInv' /\ (~Reattached /\ dpc = "flush" /\ dpc' = "read" => \A s \in Attached : audioq'[s] = <<>>)
<1>0. Calls' = Calls /\ Reattached' = Reattached
  BY DEF Calls, Reattached
<1>1. /\ MapOK /\ audioq \in [Sink -> Queue] /\ UNCHANGED sink_map
      /\ Attached' = Attached /\ \A c : Later(c)' = Later(c)
      /\ \A s \in Attached : s \in Sink
  <2>1. UNCHANGED sink_map
    BY DecodeMap
  <2>2. Attached' = Attached
    BY <2>1 DEF Attached
  <2> QED
    BY <2>1, <2>2, AttachedType DEF TypeInv, SinksOK, Later
<1>2. CASE DSeekFlush
  <2>1. dpc = "seek" /\ dpc' = "flush" /\ cur' = First /\ First # Null
    BY <1>2 DEF DSeekFlush
  <2>2. First \in Attached /\ Later(First) = Attached
    BY <1>1, <2>1, VisitFirst
  <2> QED
    BY <1>1, <2>1, <2>2 DEF FlushInv
<1>3. CASE DFlush
  <2>1. dpc = "flush" /\ cur \in Attached /\ cur' = After(cur)
        /\ dpc' = (IF After(cur) = Null THEN "read" ELSE "flush") /\ audioq' = [audioq EXCEPT ![cur] = <<>>]
    BY <1>3 DEF DFlush, NextSink
  <2>2. ~Reattached => \A s \in Attached \ (Later(cur) \ {cur}) : audioq'[s] = <<>>
    <3> SUFFICES ASSUME ~Reattached, NEW s \in Attached \ (Later(cur) \ {cur}) PROVE audioq'[s] = <<>>
      OBVIOUS
    <3>1. CASE s = cur
      BY <1>1, <2>1, <3>1
    <3>2. CASE s # cur
      <4>1. audioq[s] = <<>>
        BY <2>1, <3>2 DEF FlushInv
      <4> QED
        BY <1>1, <2>1, <3>2, <4>1
    <3> QED
      BY <3>1, <3>2
  <2>3. CASE After(cur) = Null
    <3>1. Later(cur) = {cur}
      BY <1>1, <2>1, <2>3, VisitNext
    <3> QED
      BY <2>1, <2>2, <2>3, <3>1 DEF FlushInv
  <2>4. CASE After(cur) # Null
    <3>1. After(cur) \in Attached /\ Later(After(cur)) = Later(cur) \ {cur}
      BY <1>1, <2>1, <2>4, VisitNext
    <3>2. Later(cur)' = Later(cur) \ {cur}
      BY <1>1, <2>1, <3>1 DEF Later
    <3> QED
      BY <1>0, <1>1, <2>1, <2>2, <2>4, <3>1, <3>2 DEF FlushInv
  <2> QED
    BY <2>3, <2>4
<1>4. ASSUME dpc' # "flush", dpc # "flush"
      PROVE  FlushInv' /\ (~Reattached /\ dpc = "flush" /\ dpc' = "read" => \A s \in Attached : audioq'[s] = <<>>)
  BY <1>4 DEF FlushInv
<1>5. CASE DLock \/ DQuit \/ DIdle \/ DSignalEnd \/ DWait \/ DWakeHead \/ DFile
  BY <1>4, <1>5 DEF DLock, DQuit, DIdle, DSignalEnd, DWait, DWakeHead, DFile, NextSink
<1>6. CASE DFull \/ DSleep \/ DWakeDrain \/ DRoom \/ DFail \/ DNoSeek \/ DSeek
  BY <1>4, <1>6 DEF DFull, DSleep, DWakeDrain, DRoom, DFail, DNoSeek, DSeek
<1>7. CASE DEof \/ DDrain \/ DReadEnd \/ DReadPacket \/ DTake \/ DWalked \/ DReceived \/ DPut \/ DAdvance \/ DStore
  BY <1>4, <1>7 DEF DEof, DDrain, DReadEnd, DReadPacket, DTake, DWalked, DReceived, DPut, DAdvance, DStore, NextSink
<1>8. CASE DFault
  <2>1. UNCHANGED <<cur, dpc, audioq>>
    BY <1>8 DEF DFault, dec, sink
  <2>2. Later(cur)' = Later(cur)
    BY <1>1, <2>1 DEF Later
  <2> QED
    BY <1>0, <1>1, <2>1, <2>2 DEF FlushInv
<1> QED
  BY <1>2, <1>3, <1>5, <1>6, <1>7, <1>8 DEF Decode

LEMMA FlushOthers ==
  ASSUME TypeInv, NewEmpty, FlushInv, Stays, ~Decode
  PROVE  FlushInv' /\ (dpc = "flush" => dpc' # "read")
<1>0. setup' = setup /\ Calls' = Calls /\ Reattached' = Reattached
  BY SetupStays DEF Calls, Reattached
<1>1. cur' = cur /\ (dpc' \in {"flush", "read"} => dpc = dpc')
  BY OtherSteps
<1>2. SUFFICES ASSUME ~Reattached, dpc = "flush", dpc' = "flush"
               PROVE  /\ cur \in Attached' \/ "detach" \in Calls
                      /\ cur \in Attached' => \A s \in Attached' \ Later(cur)' : audioq'[s] = <<>>
  BY <1>0, <1>1 DEF FlushInv
<1>3. /\ MapOK /\ audioq \in [Sink -> Queue]
      /\ \A s \in setup.sinks : s \in Sink
      /\ \A s \in Attached : s \in Sink
  BY SetupsAssumption, AttachedType DEF TypeInv, SinksOK
<1>4. /\ cur \in Attached \/ "detach" \in Calls
      /\ cur \in Attached => \A s \in Attached \ Later(cur) : audioq[s] = <<>>
  BY <1>2 DEF FlushInv
<1>5. ASSUME NEW s \in Attached, audioq[s] = <<>> PROVE audioq'[s] = <<>>
  <2>1. CASE UNCHANGED <<audioq, contains_end>>
    BY <1>5, <2>1
  <2>2. CASE PurgeSink
    <3> DEFINE S == {b \in Buffer : b.item # arg} \cup {End}
    <3>1. audioq' = [audioq EXCEPT ![acur] = Keep(@, S)]
      BY <2>2 DEF PurgeSink
    <3>2. Keep(<<>>, S) = <<>>
      BY KeepEmpty
    <3> HIDE DEF S
    <3> QED
      BY <1>3, <1>5, <3>1, <3>2
  <2>3. CASE DetachFlush \/ DetachAll
    BY <1>3, <1>5, <2>3 DEF DetachFlush, DetachAll
  <2>4. ASSUME NEW t \in setup.sinks, GetBuffer(t) \/ GetEnd(t) PROVE audioq'[s] = <<>>
    BY <1>3, <1>5, <2>4 DEF GetBuffer, GetEnd
  <2>5. ~DSignalEnd /\ ~DFlush /\ ~DPut
    BY DEF Decode
  <2> QED
    BY <2>1, <2>2, <2>3, <2>4, <2>5, QueueMoves
<1>6. \A s \in Attached' \ Attached : audioq'[s] = <<>>
  BY <1>2, NewEmptyStep
<1>7. \A c : c = cur => Later(cur)' = Later(c)'
  BY <1>1 DEF Later
<1>8. /\ cur \in Attached /\ cur \in Attached' => \A s \in Attached \cap Attached' : s \in Later(cur) => s \in Later(cur)'
      /\ "detach" \notin Calls => Attached \subseteq Attached'
  <2>1. CASE UNCHANGED sink_map
    <3>1. Attached' = Attached
      BY <2>1 DEF Attached
    <3>2. Later(cur)' = Later(cur)
      BY <1>1, <2>1, <3>1 DEF Later
    <3> QED
      BY <3>1, <3>2
  <2>2. CASE DetachMap
    <3>1. "detach" \in Calls
      BY <2>2 DEF DetachMap, TypeInv, CallInv
    <3>2. Attached' = Attached \ {arg} /\ \A c \in Attached' : Later(c)' = Later(c) \ {arg}
      BY <1>3, <2>2, VisitDetach DEF DetachMap
    <3> QED
      BY <1>7, <3>1, <3>2
  <2>3. CASE DetachAll
    BY <1>2, <2>3 DEF DetachAll, TypeInv, CallInv
  <2>4. CASE \E t \in setup.sinks : Attach(t)
    <3>1. PICK t \in setup.sinks : Attach(t)
      BY <2>4
    <3>2. t \in Sink /\ t \notin Attached
      BY <1>3, <3>1 DEF Attach
    <3>3. PICK k \in 1 .. Len(sink_map) + 1 : sink_map' = InsertAt(sink_map, k, t)
      BY <3>1 DEF Attach
    <3>4. Attached' = Attached \cup {t} /\ \A c \in Attached : Later(c)' \ {t} = Later(c)
      BY <1>3, <3>2, <3>3, VisitAttach
    <3> QED
      BY <1>7, <3>2, <3>4
  <2> QED
    BY <2>1, <2>2, <2>3, <2>4, MapMoves
<1>9. ASSUME cur \in Attached', NEW s \in Attached' \ Later(cur)' PROVE audioq'[s] = <<>>
  <2>1. CASE s \notin Attached
    BY <1>6, <2>1
  <2>2. CASE s \in Attached /\ cur \in Attached
    BY <1>4, <1>5, <1>8, <1>9, <2>2
  <2>3. CASE cur \notin Attached
    <3>1. "detach" \in Calls
      BY <1>4, <2>3
    <3>2. "attach" \in Calls
      BY <1>2, <1>9, <2>3, NewEmptyStep
    <3> QED
      BY <1>2, <3>1, <3>2 DEF Reattached
  <2> QED
    BY <2>1, <2>2, <2>3
<1> QED
  BY <1>4, <1>8, <1>9

\* decode_one_frame: a seek that flushes leaves nothing of the old position in
\* the queue of any sink that is attached when the decoder goes on to read.
THEOREM SeekFlushesAll == SafeSpec => SeekLeavesNoStaleAudio
<1>1. Init => FlushInv
  BY DEF Init, FlushInv
<1>2. TypeInv /\ NewEmpty /\ FlushInv /\ [Next]_vars => FlushInv'
  <2>1. [Next]_vars => Stays /\ (Decode => Decode)
    BY DEF Stays
  <2> QED
    BY <2>1, FlushDecode, FlushOthers, SetupStays
<1>3. TypeInv /\ NewEmpty /\ FlushInv /\ [Next]_vars =>
        [~Reattached /\ dpc = "flush" /\ dpc' = "read" => \A s \in Attached : audioq'[s] = <<>>]_vars
  <2> SUFFICES ASSUME TypeInv, NewEmpty, FlushInv, Next
               PROVE  ~Reattached /\ dpc = "flush" /\ dpc' = "read" => \A s \in Attached : audioq'[s] = <<>>
    OBVIOUS
  <2>1. Stays
    BY DEF Stays
  <2> QED
    BY <2>1, FlushDecode, FlushOthers, SetupStays
<1> QED
  BY <1>1, <1>2, <1>3, TypeSafe, AudioSafe, PTL DEF SafeSpec, SeekLeavesNoStaleAudio

--------------------------------------------------------------------------------
(* Back pressure.  The room a sink still has is counted in calls: each one   *)
(* that has been spent and is not an unanswered request to flush leaves      *)
(* room for one more packet.  A flush that is pending lets the decoder past  *)
(* its check, and answering it makes that room, whether the seek fails or    *)
(* not.  From the check on the room is kept for what the turn may still      *)
(* bring, also against sinks that come while it is handed out.              *)

Asked == {i \in Item : seek_pos[i] >= 0 /\ seek_flush[i]}

AskedOK == IsFiniteSet(Asked)

Slack == setup.budget - budget - Cardinality(Asked)

Cap(s)     == min_size[s] - 1 + setup.most * (1 + Slack)
Fits(s, n) == Size(s) + n <= Cap(s)

Due(s) == due[setup.format[s]]

RoomInv ==
  AnyFull =>
    /\ fill = "any" /\ \A s \in Sink : request[s] = -1
    /\ Slack >= 0
    /\ \A s \in Sink : Fits(s, 0)
    /\ dpc \in {"seek", "flush"} => dfile \in Asked \/ \A s \in Attached : Fits(s, setup.most)
    /\ dpc = "read" => \A s \in Attached : Fits(s, setup.most)
    /\ dpc \in {"receive", "put"} => \A s \in Attached : Fits(s, Due(s))
    /\ dpc = "put" => Due(cur) + held.size <= setup.most
    /\ dpc = "put" /\ cur \in Attached =>
         \A s \in Later(cur) : SameEntry(s, cur) => Fits(s, Due(s) + held.size)

LEMMA AskedMoves ==
  ASSUME TypeInv, Stays
  PROVE  \/ Asked' = Asked /\ budget' \in {budget, budget - 1}
         \/ budget' = budget /\ \E i \in Item : Asked' = Asked \ {i}
         \/ budget' = budget - 1 /\ \E i \in Item : Asked' = Asked \cup {i}
<1> DEFINE Moves == \/ Asked' = Asked /\ budget' \in {budget, budget - 1}
                    \/ budget' = budget /\ \E i \in Item : Asked' = Asked \ {i}
                    \/ budget' = budget - 1 /\ \E i \in Item : Asked' = Asked \cup {i}
<1>0. seek_pos \in [Item -> -1 .. Packets] /\ seek_flush \in [Item -> BOOLEAN] /\ Packets \in Nat /\ dfile \in Item \cup {Null} /\ dnext \in Item \cup {Null}
  BY SetupsAssumption DEF TypeInv, FilesOK, Packets
<1>1. ASSUME UNCHANGED <<seek_pos, seek_flush>>, budget' \in {budget, budget - 1} PROVE Moves
  BY <1>1 DEF Asked
<1>2. ASSUME NEW i \in Item, seek_pos' = [seek_pos EXCEPT ![i] = -1], UNCHANGED <<seek_flush, budget>> PROVE Moves
  <2>1. Asked' = Asked \ {i}
    BY <1>0, <1>2 DEF Asked
  <2> QED
    BY <1>2, <2>1
<1>3. ASSUME NEW i \in Item, seek_pos' = [seek_pos EXCEPT ![i] = 0], seek_flush' = [seek_flush EXCEPT ![i] = FALSE],
             UNCHANGED budget
      PROVE  Moves
  <2>1. Asked' = Asked \ {i}
    BY <1>0, <1>3 DEF Asked
  <2> QED
    BY <1>3, <2>1
<1>4. CASE UNCHANGED vars
  BY <1>1, <1>4 DEF vars, file, app
<1>5. CASE Decode
  <2>0. UNCHANGED budget
    BY <1>5, DecodeFrame DEF app
  <2>1. CASE DLock \/ DQuit \/ DIdle \/ DSignalEnd \/ DWait \/ DWakeHead \/ DFile
    BY <1>1, <2>0, <2>1 DEF DLock, DQuit, DIdle, DSignalEnd, DWait, DWakeHead, DFile, file
  <2>2. CASE DFull \/ DSleep \/ DWakeDrain \/ DRoom \/ DFail \/ DNoSeek \/ DSeekFlush
    BY <1>1, <2>0, <2>2 DEF DFull, DSleep, DWakeDrain, DRoom, DFail, DNoSeek, DSeekFlush, file
  <2>3. CASE DEof \/ DDrain \/ DReadEnd \/ DReadPacket \/ DTake \/ DWalked \/ DReceived \/ DPut \/ DAdvance \/ DFault
    BY <1>1, <2>0, <2>3 DEF DEof, DDrain, DReadEnd, DReadPacket, DTake, DWalked, DReceived, DPut, DAdvance, DFault, file
  <2>4. CASE DSeek \/ DFlush
    <3>1. dfile \in Item
      BY <2>4 DEF DSeek, DFlush, TypeInv, FilesOK
    <3>2. UNCHANGED file \/ (seek_pos' = [seek_pos EXCEPT ![dfile] = -1] /\ UNCHANGED seek_flush)
      BY <2>4 DEF DSeek, DFlush, SeekDone
    <3> QED
      BY <1>1, <1>2, <2>0, <3>1, <3>2 DEF file
  <2>5. CASE DStore
    BY <1>0, <1>1, <1>3, <2>0, <2>5 DEF DStore, file
  <2> QED
    BY <1>5, <2>1, <2>2, <2>3, <2>4, <2>5 DEF Decode
<1>6. CASE DSpurious
  BY <1>1, <1>6 DEF DSpurious, file, app
<1>7. ASSUME NEW s \in setup.sinks, Consume(s) PROVE Moves
  BY <1>1, <1>7 DEF Consume, GetBuffer, GetEnd, GetSignal, GetAborted, GetSleep, file, app
<1>8. ASSUME NEW i \in Item, Insert(i) PROVE Moves
  <2>1. UNCHANGED budget
    BY <1>8 DEF Insert, app
  <2>2. \/ UNCHANGED file
        \/ seek_pos' = [seek_pos EXCEPT ![i] = 0] /\ seek_flush' = [seek_flush EXCEPT ![i] = FALSE]
    BY <1>8 DEF Insert, InsertBefore, InsertFirst, InsertLast
  <2> QED
    BY <1>1, <1>3, <2>1, <2>2 DEF file
<1>9. CASE Clear \/ \E i \in Item : RemoveItem(i)
  BY <1>1, <1>9 DEF RemoveItem, Clear, Unlink, file
<1>10. ASSUME NEW i \in Item, NEW target \in setup.seekTo, Seek(i, target) PROVE Moves
  <2>1. seek_pos' = [seek_pos EXCEPT ![i] = target] /\ seek_flush' = [seek_flush EXCEPT ![i] = TRUE]
        /\ budget' = budget - 1
    BY <1>10 DEF Seek, Spend
  <2>2. target >= 0
    BY SetupsAssumption DEF TypeInv
  <2>3. Asked' = Asked \cup {i}
    BY <1>0, <2>1, <2>2 DEF Asked
  <2> QED
    BY <2>1, <2>3
<1>11. ASSUME NEW m \in {"any", "every"}, SetFillMode(m) PROVE Moves
  BY <1>1, <1>11 DEF SetFillMode, Spend, file
<1>12. ASSUME NEW s \in setup.sinks, Detach(s) \/ Attach(s) PROVE Moves
  BY <1>1, <1>12 DEF Detach, Attach, Spend, file
<1>13. ASSUME NEW s \in Sink, NEW n \in setup.sizes, SetBufferSize(s, n) PROVE Moves
  BY <1>1, <1>13 DEF SetBufferSize, Spend, file
<1>14. CASE Destroy \/ PurgeSink \/ RemoveSignal \/ RemoveFree \/ ResizeSignal \/ DetachFlush \/ AttachReset
  BY <1>1, <1>14 DEF Destroy, PurgeSink, RemoveSignal, RemoveFree, ResizeSignal, DetachFlush, AttachReset, file
<1>15. CASE DetachMap \/ DestroyAbort \/ DestroyDrain \/ Join \/ DetachAll
  BY <1>1, <1>15 DEF DetachMap, DestroyAbort, DestroyDrain, Join, DetachAll, file
<1> QED
  BY <1>4, <1>5, <1>6, <1>7, <1>8, <1>9, <1>10, <1>11, <1>12, <1>13, <1>14, <1>15 DEF Stays, Next, Application, Continue

LEMMA SlackMoves ==
  ASSUME TypeInv, AskedOK, Stays
  PROVE  /\ AskedOK'
         /\ Slack \in Int /\ Slack' \in Int /\ Slack' >= Slack
         /\ \A i \in Asked : i \in Asked' \/ Slack' > Slack
<1>1. /\ IsFiniteSet(Asked) /\ Cardinality(Asked) \in Nat /\ budget \in Int /\ setup.budget \in Int /\ setup' = setup
  BY SetupsAssumption, SetupStays, FS_CardinalityType DEF AskedOK, TypeInv, FilesOK
<1>2. \/ Asked' = Asked /\ budget' \in {budget, budget - 1}
      \/ budget' = budget /\ \E i \in Item : Asked' = Asked \ {i}
      \/ budget' = budget - 1 /\ \E i \in Item : Asked' = Asked \cup {i}
  BY AskedMoves
<1>3. Slack = setup.budget - budget - Cardinality(Asked) /\ Slack' = setup.budget - budget' - Cardinality(Asked')
  BY <1>1 DEF Slack
<1>4. AskedOK' <=> IsFiniteSet(Asked')
  BY DEF AskedOK
<1> DEFINE A == Asked
           B == Asked'
<1> HIDE DEF A, B
<1>5. IsFiniteSet(A) /\ Cardinality(A) \in Nat /\ Slack = setup.budget - budget - Cardinality(A)
      /\ Slack' = setup.budget - budget' - Cardinality(B)
  BY <1>1, <1>3 DEF A, B
<1>6. SUFFICES /\ IsFiniteSet(B) /\ Slack \in Int /\ Slack' \in Int /\ Slack' >= Slack
               /\ \A i \in A : i \in B \/ Slack' > Slack
  BY <1>4 DEF A, B
<1>7. CASE B = A /\ budget' \in {budget, budget - 1}
  BY <1>1, <1>5, <1>7
<1>8. CASE budget' = budget /\ \E i \in Item : B = A \ {i}
  <2>1. PICK i \in Item : B = A \ {i}
    BY <1>8
  <2>2. IsFiniteSet(B) /\ Cardinality(B) = IF i \in A THEN Cardinality(A) - 1 ELSE Cardinality(A)
    BY <1>5, <2>1, FS_RemoveElement
  <2> QED
    BY <1>1, <1>5, <1>8, <2>1, <2>2
<1>9. CASE budget' = budget - 1 /\ \E i \in Item : B = A \cup {i}
  <2>1. PICK i \in Item : B = A \cup {i}
    BY <1>9
  <2>2. IsFiniteSet(B) /\ Cardinality(B) = IF i \in A THEN Cardinality(A) ELSE Cardinality(A) + 1
    BY <1>5, <2>1, FS_AddElement
  <2> QED
    BY <1>1, <1>5, <1>9, <2>1, <2>2
<1> QED
  BY <1>2, <1>7, <1>8, <1>9 DEF A, B

\* Only the decoder makes a queue longer, by the buffer it has labelled.
LEMMA SizeMoves ==
  ASSUME TypeInv, Stays, NEW s \in Sink
  PROVE  /\ Size(s)' \in Nat
         /\ Size(s)' <= Size(s) \/ (DPut /\ s = cur /\ held.size \in Nat /\ Size(s)' <= Size(s) + held.size)
<1> DEFINE T == Buffer \cup {End}
<1>1. audioq \in [Sink -> Seq(T)] /\ setup' = setup /\ \A t \in setup.sinks : t \in Sink
  BY SetupsAssumption, SetupStays DEF TypeInv, SinksOK, Queue
<1>2. \A x \in T : Bytes(x) \in Nat /\ (x \in Buffer => Bytes(x) <= x.size /\ x.size \in Nat)
  BY BytesType DEF TypeInv
<1>3. audioq' \in [Sink -> Seq(T)]
  <2>1. audioq' \in [Sink -> Queue]' /\ Queue' = Queue
    BY <1>1, QueueType DEF Queue, Buffer, Packets
  <2> QED
    BY <2>1 DEF Queue
<1> HIDE DEF T
<1>4. /\ Size(s) = Total(audioq[s]) /\ Size(s)' = Total(audioq'[s])
      /\ Size(s) \in Nat /\ Size(s)' \in Nat
  BY <1>1, <1>2, <1>3, SizeNext, TotalNat
<1> DEFINE Less == Size(s)' <= Size(s) \/ (DPut /\ s = cur /\ held.size \in Nat /\ Size(s)' <= Size(s) + held.size)
<1>5. SUFFICES Less
  BY <1>4
<1>6. CASE audioq'[s] = audioq[s]
  BY <1>4, <1>6
<1>7. CASE audioq'[s] = <<>>
  BY <1>4, <1>7, TotalEmpty
<1>8. ASSUME NEW b \in T, audioq'[s] = Append(audioq[s], b) PROVE Size(s)' = Size(s) + Bytes(b)
  BY <1>1, <1>4, <1>8, TotalAppend
<1>9. CASE PurgeSink
  <2> DEFINE S == {b \in Buffer : b.item # arg} \cup {End}
  <2>1. audioq' = [audioq EXCEPT ![acur] = Keep(@, S)]
    BY <1>9 DEF PurgeSink
  <2> HIDE DEF S
  <2>2. Total(Keep(audioq[s], S)) <= Total(audioq[s])
    BY <1>1, <1>2, TotalKeep
  <2>3. audioq'[s] = audioq[s] \/ audioq'[s] = Keep(audioq[s], S)
    BY <1>1, <2>1
  <2> QED
    BY <1>4, <1>6, <2>2, <2>3
<1>10. ASSUME NEW t \in setup.sinks, GetBuffer(t) \/ GetEnd(t) PROVE Less
  <2>1. t \in Sink /\ audioq[t] # <<>> /\ audioq' = [audioq EXCEPT ![t] = Tail(@)]
    BY <1>1, <1>10 DEF GetBuffer, GetEnd
  <2>2. /\ Size(t)' = Size(t) - Bytes(Head(audioq[t])) /\ Bytes(Head(audioq[t])) \in Nat
        /\ \A u \in Sink \ {t} : Size(u)' = Size(u)
    BY <1>1, <2>1, SizeTake
  <2> QED
    BY <1>4, <2>1, <2>2
<1>11. CASE UNCHANGED <<audioq, contains_end>>
  BY <1>6, <1>11
<1>12. CASE DSignalEnd
  <2>1. audioq'[s] = audioq[s] \/ audioq'[s] = Append(audioq[s], End)
    BY <1>1, <1>12 DEF DSignalEnd
  <2>2. End \in T /\ Bytes(End) = 0
    BY DEF T, Bytes
  <2> QED
    BY <1>4, <1>6, <1>8, <2>1, <2>2
<1>13. CASE DPut
  <2>1. CASE s # cur
    BY <1>1, <1>6, <1>13, <2>1 DEF DPut
  <2>2. CASE s = cur
    <3>1. audioq'[s] = Append(audioq[s], held)
      BY <1>1, <1>13, <2>2 DEF DPut
    <3>2. held \in Buffer /\ held \in T
      BY <1>13 DEF DPut, TypeInv, FilesOK, T
    <3>3. Bytes(held) <= held.size /\ held.size \in Nat /\ Bytes(held) \in Nat
      BY <1>2, <3>2
    <3> QED
      BY <1>4, <1>8, <1>13, <2>2, <3>1, <3>2, <3>3
  <2> QED
    BY <2>1, <2>2
<1>14. CASE DFlush
  BY <1>1, <1>6, <1>7, <1>14 DEF DFlush
<1>15. CASE DetachFlush \/ DetachAll
  BY <1>1, <1>6, <1>7, <1>15 DEF DetachFlush, DetachAll
<1> HIDE DEF Less
<1> QED
  BY QueueMoves, <1>9, <1>10, <1>11, <1>12, <1>13, <1>14, <1>15

\* Who may change what a sink asks for: nobody, when no call does.
LEMMA CapNext ==
  ASSUME TypeInv, AskedOK, Stays, NEW s \in Sink
  PROVE  Size(s)' \in Nat /\ Cap(s)' \in Int
<1>1. Size(s)' \in Nat
  BY SizeMoves
<1>2. setup' = setup /\ setup.most \in Nat /\ \A n \in setup.sizes : n \in Nat
  BY SetupStays, SetupsAssumption DEF TypeInv
<1>3. min_size'[s] \in Nat
  BY <1>2, TypeStep DEF TypeInv, SinksOK
<1>4. Slack' \in Int
  BY SlackMoves
<1>5. setup.most * (1 + Slack') \in Int
  BY <1>2, <1>4
<1>6. Cap(s)' = min_size'[s] - 1 + setup.most * (1 + Slack')
  BY <1>2 DEF Cap
<1> QED
  BY <1>1, <1>3, <1>5, <1>6

LEMMA ModeStays ==
  ASSUME TypeInv, Stays, {"set_fill_mode", "set_buffer_size"} \cap Calls = {},
         \A s \in Sink : request[s] = -1
  PROVE  UNCHANGED <<fill, min_size, request>>
<1>1. min_size \in [Sink -> setup.sizes] /\ request \in [Sink -> setup.sizes \cup {-1}]
  BY DEF TypeInv, SinksOK
<1> DEFINE Same == UNCHANGED <<fill, min_size, request>>
<1>2. CASE Decode \/ DSpurious
  <2>1. CASE DLock \/ DQuit \/ DIdle \/ DSignalEnd \/ DWait \/ DFile \/ DSpurious
    BY <2>1 DEF DLock, DQuit, DIdle, DSignalEnd, DWait, DFile, DSpurious, sink, play
  <2>2. CASE DFull \/ DSleep \/ DWakeDrain \/ DRoom \/ DFail \/ DNoSeek \/ DSeek \/ DSeekFlush
    BY <2>2 DEF DFull, DSleep, DWakeDrain, DRoom, DFail, DNoSeek, DSeek, DSeekFlush, sink, play
  <2>3. CASE DFlush \/ DEof \/ DDrain \/ DReadEnd \/ DReadPacket \/ DTake \/ DWalked \/ DReceived \/ DPut \/ DAdvance \/ DStore \/ DFault
    BY <2>3 DEF DFlush, DEof, DDrain, DReadEnd, DReadPacket, DTake, DWalked, DReceived, DPut, DAdvance, DStore, DFault, sink, play
  <2>4. CASE DWakeHead
    <3>1. PICK asked \in SUBSET Attached :
            /\ asked = {s \in Attached : request[s] # -1}
            /\ min_size' = [s \in Sink |-> IF s \in asked THEN request[s] ELSE min_size[s]]
            /\ request' = [s \in Sink |-> IF s \in asked THEN -1 ELSE request[s]]
      BY <2>4 DEF DWakeHead
    <3>2. \A s \in Sink : s \notin asked
      BY <3>1
    <3>3. min_size' = [s \in Sink |-> min_size[s]] /\ request' = [s \in Sink |-> request[s]]
      BY <3>1, <3>2
    <3>4. UNCHANGED fill
      BY <2>4 DEF DWakeHead, play
    <3> QED
      BY <1>1, <3>3, <3>4
  <2> QED
    BY <1>2, <2>1, <2>2, <2>3, <2>4 DEF Decode
<1>3. ASSUME NEW s \in setup.sinks, Consume(s) PROVE Same
  BY <1>3 DEF Consume, GetBuffer, GetEnd, GetSignal, GetAborted, GetSleep, play
<1>4. CASE Application
  <2>1. ASSUME NEW i \in Item, Insert(i) \/ RemoveItem(i) PROVE Same
    BY <2>1 DEF Insert, RemoveItem, Unlink, sink
  <2>2. ASSUME NEW i \in Item, NEW target \in setup.seekTo, Seek(i, target) PROVE Same
    BY <2>2 DEF Seek, sink
  <2>3. ASSUME NEW m \in {"any", "every"}, SetFillMode(m) PROVE Same
    BY <2>3 DEF SetFillMode, May
  <2>4. ASSUME NEW s \in setup.sinks, Detach(s) \/ Attach(s) PROVE Same
    BY <2>4 DEF Detach, Attach, play
  <2>5. ASSUME NEW s \in Sink, NEW n \in setup.sizes, SetBufferSize(s, n) PROVE Same
    BY <2>5 DEF SetBufferSize, May
  <2>6. CASE Destroy \/ PurgeSink \/ RemoveSignal \/ RemoveFree \/ ResizeSignal \/ DetachFlush \/ DetachMap
    BY <2>6 DEF Destroy, PurgeSink, RemoveSignal, RemoveFree, ResizeSignal, DetachFlush, DetachMap, sink, play
  <2>7. CASE AttachReset \/ Clear \/ DestroyAbort \/ DestroyDrain \/ Join \/ DetachAll
    BY <2>7 DEF AttachReset, Clear, Unlink, DestroyAbort, DestroyDrain, Join, DetachAll, sink, play
  <2> QED
    BY <1>4, <2>1, <2>2, <2>3, <2>4, <2>5, <2>6, <2>7 DEF Application, Continue
<1>5. CASE UNCHANGED vars
  BY <1>5 DEF vars, sink, play
<1> QED
  BY <1>2, <1>3, <1>4, <1>5 DEF Stays, Next

LEMMA Times ==
  ASSUME NEW m \in Nat, NEW a \in Int, NEW b \in Int, a <= b
  PROVE  m * a \in Int /\ m * a <= m * b /\ (a < b => m * a + m <= m * b)
<1> DEFINE d == b - a
<1>1. d \in Nat /\ b = a + d /\ (a < b => d - 1 \in Nat)
  OBVIOUS
<1>2. m * a \in Int /\ m * d \in Nat
  BY <1>1
<1> HIDE DEF d
<1>3. m * (a + d) = m * a + m * d
  BY <1>1
<1>4. d - 1 \in Nat => m * d = m * (d - 1) + m /\ m * (d - 1) \in Nat
  BY <1>1
<1>5. m * b = m * a + m * d
  BY <1>1, <1>3
<1> DEFINE x == m * a
           y == m * b
           z == m * d
           w == m * (d - 1)
<1>6. /\ x \in Int /\ z \in Nat /\ y = x + z
      /\ d - 1 \in Nat => z = w + m /\ w \in Nat
  BY <1>2, <1>4, <1>5
<1> HIDE DEF x, y, z, w
<1>7. x <= y /\ (a < b => x + m <= y)
  BY <1>1, <1>6
<1> QED
  BY <1>2, <1>7 DEF x, y

LEMMA TimesNext ==
  ASSUME NEW m \in Nat, NEW a \in Int
  PROVE  m * (1 + a) = m + m * a
OBVIOUS

LEMMA OneMore ==
  ASSUME NEW a \in Int, NEW b \in Int, a <= b
  PROVE  1 + a \in Int /\ 1 + b \in Int /\ 1 + a <= 1 + b /\ (b > a => 1 + a < 1 + b)
OBVIOUS

LEMMA DueType ==
  ASSUME TypeInv
  PROVE  /\ setup.most \in Nat /\ \A s \in Sink : setup.format[s] \in Sink /\ Due(s) \in 0 .. setup.most
         /\ dpc = "put" => held.size \in Nat /\ cur \in Sink
<1>1. setup.most \in Nat /\ \A s \in Sink : setup.format[s] \in Sink
  BY SetupsAssumption DEF TypeInv
<1>2. held \in Buffer => held.size \in Nat
  BY BytesType DEF TypeInv
<1> QED
  BY <1>1, <1>2 DEF TypeInv, FilesOK, Due

\* What a sink has room for stays, except that DPut takes its buffer of it.
LEMMA RoomKeeps ==
  ASSUME TypeInv, AskedOK, RoomInv, AnyFull, Stays
  PROVE  /\ AnyFull' /\ fill' = "any" /\ \A s \in Sink : request'[s] = -1
         /\ Slack' >= 0
         /\ \A s \in Sink : Size(s)' + 0 <= Cap(s)'
         /\ \A s \in Sink, n \in Nat : Fits(s, n) /\ ~(DPut /\ s = cur) => Size(s)' + n <= Cap(s)'
         /\ \A s \in Sink, n \in Nat : Fits(s, n + held.size) /\ DPut /\ s = cur => Size(s)' + n <= Cap(s)'
         /\ ~DPut /\ Slack' > Slack => \A s \in Sink, n \in 0 .. setup.most : Size(s)' + n <= Cap(s)'
         /\ \A i \in Asked : i \in Asked' \/ Slack' > Slack
<1>1. AnyFull' /\ setup' = setup
  BY SetupStays DEF AnyFull, Calls
<1>2. fill = "any" /\ UNCHANGED <<fill, min_size, request>> /\ \A s \in Sink : request[s] = -1
  BY ModeStays DEF RoomInv, AnyFull
<1>3. /\ Slack \in Int /\ Slack' \in Int /\ Slack' >= Slack /\ Slack >= 0
      /\ \A i \in Asked : i \in Asked' \/ Slack' > Slack
  BY SlackMoves DEF RoomInv
<1>4. setup.most \in Nat /\ (DPut => held.size \in Nat /\ cur \in Sink /\ Due(cur) \in Nat)
  BY DueType DEF DPut
<1>5. ASSUME NEW s \in Sink
      PROVE  /\ Cap(s) \in Int /\ Cap(s)' \in Int /\ Cap(s) <= Cap(s)'
             /\ Slack' > Slack => Cap(s) + setup.most <= Cap(s)'
  <2> DEFINE v == 1 + Slack
             w == 1 + Slack'
             m == setup.most
             n == min_size[s]
  <2>1. v \in Int /\ w \in Int /\ v <= w /\ (Slack' > Slack => v < w)
    BY <1>3, OneMore
  <2>2. Cap(s) = n - 1 + m * v /\ Cap(s)' = n - 1 + m * w
    BY <1>1, <1>2 DEF Cap
  <2>3. n \in Nat /\ m \in Nat
    BY <1>4, SizeType
  <2> HIDE DEF v, w, m, n
  <2>4. m * v \in Int /\ m * w \in Int /\ m * v <= m * w /\ (v < w => m * v + m <= m * w)
    BY <2>1, <2>3, Times
  <2> DEFINE x == m * v
             y == m * w
  <2>5. /\ Cap(s) = n - 1 + x /\ Cap(s)' = n - 1 + y
        /\ x \in Int /\ y \in Int /\ x <= y /\ (v < w => x + m <= y)
    BY <2>2, <2>4
  <2> HIDE DEF x, y
  <2> QED
    BY <2>1, <2>3, <2>5 DEF m
<1>6. ASSUME NEW s \in Sink
      PROVE  /\ Size(s)' + 0 <= Cap(s)'
             /\ \A n \in Nat : Fits(s, n) /\ ~(DPut /\ s = cur) => Size(s)' + n <= Cap(s)'
             /\ \A n \in Nat : Fits(s, n + held.size) /\ DPut /\ s = cur => Size(s)' + n <= Cap(s)'
             /\ ~DPut /\ Slack' > Slack => \A n \in 0 .. setup.most : Size(s)' + n <= Cap(s)'
  <2> DEFINE a == Size(s)
             b == Size(s)'
             c == Cap(s)
             d == Cap(s)'
             h == held.size
             m == setup.most
  <2>1. /\ a \in Nat /\ b \in Nat /\ c \in Int /\ d \in Int /\ c <= d /\ m \in Nat
        /\ b <= a \/ (DPut /\ s = cur /\ h \in Nat /\ b <= a + h)
        /\ Slack' > Slack => c + m <= d
    BY <1>4, <1>5, SizeType, SizeMoves
  <2>2. a + 0 <= c /\ \A n : Fits(s, n) <=> a + n <= c
    BY DEF RoomInv, Fits
  <2>3. DPut /\ s = cur => a + (Due(s) + h) <= c
    <3> SUFFICES ASSUME DPut, s = cur PROVE Fits(s, Due(s) + h)
      BY <2>2
    <3>1. dpc = "put" /\ cur \in Attached
      BY DEF DPut
    <3>2. cur \in Later(cur) /\ SameEntry(cur, cur)
      BY <3>1, VisitNext DEF TypeInv, SinksOK, SameEntry
    <3> QED
      BY <3>1, <3>2 DEF RoomInv
  <2>4. DPut /\ s = cur => h \in Nat /\ Due(s) \in Nat
    BY <1>4
  <2> HIDE DEF a, b, c, d, h, m
  <2>5. b + 0 <= d
    BY <2>1, <2>2, <2>3, <2>4
  <2>6. \A n \in Nat : a + n <= c /\ ~(DPut /\ s = cur) => b + n <= d
    BY <2>1
  <2>7. \A n \in Nat : a + (n + h) <= c /\ DPut /\ s = cur => b + n <= d
    BY <2>1, <2>4
  <2>8. ~DPut /\ Slack' > Slack => \A n \in 0 .. m : b + n <= d
    BY <2>1, <2>2
  <2> QED
    BY <2>2, <2>5, <2>6, <2>7, <2>8 DEF a, b, c, d, h, m
<1> QED
  BY <1>1, <1>2, <1>3, <1>6

LEMMA RoomDecode ==
  ASSUME TypeInv, AskedOK, RoomInv, AnyFull, Stays, Decode
  PROVE  RoomInv'
<1>1. /\ MapOK /\ Attached' = Attached /\ \A c : c = cur' => Later(cur)' = Later(c)
      /\ \A s \in Attached : s \in Sink
  <2>1. UNCHANGED sink_map
    BY DecodeMap
  <2>2. Attached' = Attached
    BY <2>1 DEF Attached
  <2> QED
    BY <2>1, <2>2, AttachedType DEF TypeInv, SinksOK, Later
<1>2. /\ AnyFull' /\ fill' = "any" /\ \A s \in Sink : request'[s] = -1
      /\ Slack' >= 0
      /\ \A s \in Sink : Size(s)' + 0 <= Cap(s)'
      /\ \A s \in Sink, n \in Nat : Fits(s, n) /\ ~(DPut /\ s = cur) => Size(s)' + n <= Cap(s)'
      /\ \A s \in Sink, n \in Nat : Fits(s, n + held.size) /\ DPut /\ s = cur => Size(s)' + n <= Cap(s)'
      /\ ~DPut /\ Slack' > Slack => \A s \in Sink, n \in 0 .. setup.most : Size(s)' + n <= Cap(s)'
      /\ \A i \in Asked : i \in Asked' \/ Slack' > Slack
  BY RoomKeeps
<1>3. /\ setup' = setup
      /\ setup.most \in Nat /\ \A s \in Sink : setup.format[s] \in Sink /\ Due(s) \in 0 .. setup.most
      /\ dpc = "put" => held.size \in Nat /\ cur \in Sink
  BY SetupStays, DueType
<1> DEFINE Most == \A s \in Attached : Size(s)' + setup.most <= Cap(s)'
           Room == /\ dpc' \in {"seek", "flush"} => dfile' \in Asked' \/ Most
                   /\ dpc' = "read" => Most
                   /\ dpc' \in {"receive", "put"} => \A s \in Attached : Size(s)' + Due(s)' <= Cap(s)'
                   /\ dpc' = "put" => Due(cur)' + held'.size <= setup.most
                   /\ dpc' = "put" /\ cur' \in Attached =>
                        \A s \in Later(cur)' : SameEntry(s, cur)' => Size(s)' + (Due(s)' + held'.size) <= Cap(s)'
<1>4. SUFFICES Room
  BY <1>1, <1>2, <1>3 DEF RoomInv, Fits
<1>5. /\ dpc \in {"seek", "flush"} => dfile \in Asked \/ \A s \in Attached : Fits(s, setup.most)
      /\ dpc = "read" => \A s \in Attached : Fits(s, setup.most)
      /\ dpc \in {"receive", "put"} => \A s \in Attached : Fits(s, Due(s))
      /\ dpc = "put" => Due(cur) + held.size <= setup.most
      /\ dpc = "put" /\ cur \in Attached =>
           \A s \in Later(cur) : SameEntry(s, cur) => Fits(s, Due(s) + held.size)
  BY DEF RoomInv
<1>6. \A c : Later(c) \subseteq Attached
  BY DEF Later
<1>7. ASSUME ~DPut, \A s \in Attached : Fits(s, setup.most) PROVE Most
  BY <1>1, <1>2, <1>3, <1>7
<1>8. ASSUME ~DPut, Slack' > Slack PROVE Most
  <2>1. setup.most \in 0 .. setup.most
    BY <1>3
  <2> QED
    BY <1>1, <1>2, <1>8, <2>1
<1>9. ASSUME dpc' \notin {"receive", "put"}, dpc' \in {"seek", "flush"} => dfile' \in Asked' \/ Most,
             dpc' = "read" => Most
      PROVE  Room
  BY <1>9
<1>10. dpc # "put" => ~DPut
  BY DEF DPut
<1> HIDE DEF Most
<1>11. CASE DRoom
  <2>1. dpc = "check" /\ dpc' = "seek" /\ dfile' = dfile /\ UNCHANGED file /\ dfile \in Item
    BY <1>11 DEF DRoom, LocalsSame, TypeInv, FilesOK
  <2>2. CASE FlushPending
    <3>1. dfile' \in Asked'
      BY <2>1, <2>2 DEF FlushPending, Asked, file
    <3> QED
      BY <1>9, <2>1, <3>1
  <2>3. CASE ~DetectFull
    <3>1. \A s \in Attached : ~IsFull(s)
      BY <2>3 DEF DetectFull, AnySinkFull, RoomInv
    <3>2. ASSUME NEW s \in Attached PROVE Fits(s, setup.most)
      <4> DEFINE a == Size(s)
                 m == setup.most
                 x == m * Slack
                 n == min_size[s]
      <4>1. a \in Nat /\ n \in Nat /\ ~(a >= n) /\ m \in Nat /\ Slack \in Int /\ Slack >= 0
        BY <1>1, <1>3, <3>1, SizeType, SlackMoves DEF IsFull, RoomInv
      <4>2. Fits(s, m) <=> a + m <= n - 1 + m * (1 + Slack)
        BY DEF Fits, Cap
      <4>3. m * (1 + Slack) = m + x /\ m * 0 <= x /\ m * 0 = 0 /\ x \in Int
        <5>1. m * (1 + Slack) = m + m * Slack
          BY <4>1, TimesNext
        <5>2. 0 \in Int /\ 0 <= Slack
          BY <4>1
        <5>3. m * 0 \in Int /\ m * 0 <= m * Slack
          BY <4>1, <5>2, Times
        <5>4. m * Slack \in Int
          BY <4>1
        <5>5. m * 0 = 0
          BY <4>1
        <5> QED
          BY <5>1, <5>3, <5>4, <5>5
      <4> HIDE DEF a, m, x, n
      <4>4. a + m <= n - 1 + (m + x)
        BY <4>1, <4>3
      <4>5. Fits(s, m)
        BY <4>2, <4>3, <4>4
      <4> QED
        BY <4>5 DEF m
    <3> QED
      BY <1>7, <1>9, <1>10, <2>1, <3>2
  <2> QED
    BY <1>11, <2>2, <2>3 DEF DRoom
<1>12. CASE DSeekFlush
  <2>1. dpc = "seek" /\ dpc' = "flush" /\ dfile' = dfile
    BY <1>12 DEF DSeekFlush
  <2> QED
    BY <1>2, <1>5, <1>7, <1>8, <1>9, <1>10, <2>1
<1>13. ASSUME dpc \in {"seek", "flush"}, dpc' = "read", SeekDone(seek_pos[dfile]) \/ SeekDone(fpos[dfile]) PROVE Room
  <2>1. seek_pos' = [seek_pos EXCEPT ![dfile] = -1] /\ dfile \in Item /\ seek_pos \in [Item -> -1 .. Packets]
    BY <1>13 DEF SeekDone, TypeInv, FilesOK
  <2>2. dfile \notin Asked'
    BY <2>1 DEF Asked
  <2>3. Most
    BY <1>2, <1>5, <1>7, <1>8, <1>10, <1>13, <2>2
  <2> QED
    BY <1>9, <1>13, <2>3
<1>14. CASE DFlush
  <2>1. dpc = "flush" /\ dfile' = dfile /\ dpc' = (IF After(cur) = Null THEN "read" ELSE "flush")
        /\ (After(cur) = Null => SeekDone(seek_pos[dfile]))
    BY <1>14 DEF DFlush, NextSink
  <2>2. CASE After(cur) = Null
    BY <1>13, <2>1, <2>2
  <2>3. CASE After(cur) # Null
    BY <1>2, <1>5, <1>7, <1>8, <1>9, <1>10, <2>1, <2>3
  <2> QED
    BY <2>2, <2>3
<1>15. CASE DNoSeek
  <2>1. /\ dpc = "seek" /\ dpc' = "read" /\ seek_pos[dfile] < 0 /\ dfile \in Item
        /\ seek_pos \in [Item -> -1 .. Packets] /\ Packets \in Nat
    BY <1>15, SetupsAssumption DEF DNoSeek, TypeInv, FilesOK, Packets
  <2>2. dfile \notin Asked
    BY <2>1 DEF Asked
  <2> QED
    BY <1>5, <1>7, <1>9, <1>10, <2>1, <2>2
<1>16. CASE DSeek
  BY <1>13, <1>16 DEF DSeek
<1>17. ASSUME ~DPut, dpc \in {"read", "receive", "put"}, dpc' \in {"receive", "put"}, due' = due,
              dpc' = "put" => dpc = "put" /\ UNCHANGED <<cur, held>>
       PROVE  Room
  <2>1. \A s : Due(s)' = Due(s)
    BY <1>3, <1>17 DEF Due
  <2>2. ASSUME NEW s \in Attached PROVE Size(s)' + Due(s)' <= Cap(s)'
    <3> DEFINE n == Due(s)
               m == setup.most
    <3>1. s \in Sink /\ n \in Nat /\ n <= m /\ m \in Nat
      BY <1>1, <1>3
    <3>2. CASE dpc = "read"
      <4> DEFINE b == Size(s)'
                 d == Cap(s)'
      <4>1. b + m <= d
        BY <1>2, <1>5, <1>17, <3>1, <3>2
      <4>2. b \in Nat /\ d \in Int
        BY <3>1, CapNext
      <4> HIDE DEF b, d, n, m
      <4>3. b + n <= d
        BY <3>1, <4>1, <4>2
      <4> QED
        BY <2>1, <4>3 DEF b, d, n
    <3>3. CASE dpc # "read"
      <4>1. Fits(s, n)
        BY <1>5, <1>17, <3>3
      <4> HIDE DEF n
      <4>2. Size(s)' + n <= Cap(s)'
        BY <1>2, <1>17, <3>1, <4>1
      <4> QED
        BY <2>1, <4>2 DEF n
    <3> QED
      BY <3>2, <3>3
  <2>3. ASSUME dpc' = "put" PROVE Due(cur)' + held'.size <= setup.most
    BY <1>3, <1>5, <1>17, <2>1, <2>3 DEF Due
  <2>4. ASSUME dpc' = "put", cur' \in Attached, NEW s \in Later(cur)', SameEntry(s, cur)'
        PROVE  Size(s)' + (Due(s)' + held'.size) <= Cap(s)'
    <3> DEFINE n == Due(s) + held.size
    <3>1. dpc = "put" /\ cur' = cur /\ held' = held /\ cur \in Attached /\ s \in Later(cur) /\ SameEntry(s, cur)
      BY <1>1, <1>3, <1>17, <2>4 DEF SameEntry
    <3>2. s \in Sink /\ n \in Nat /\ Fits(s, n)
      BY <1>1, <1>3, <1>5, <1>6, <3>1
    <3> HIDE DEF n
    <3>3. Size(s)' + n <= Cap(s)'
      BY <1>2, <1>17, <3>2
    <3> QED
      BY <2>1, <3>1, <3>3 DEF n
  <2> QED
    BY <1>17, <2>2, <2>3, <2>4
<1>18. CASE DDrain \/ DReadPacket \/ DWalked
  <2>1. dpc \in {"read", "receive"} /\ dpc' = "receive" /\ due' = due
    BY <1>18 DEF DDrain, DReadPacket, DWalked, graph
  <2> QED
    BY <1>10, <1>17, <2>1
<1>19. CASE DFault
  <2>1. UNCHANGED <<dpc, dfile, cur, due, held, file>> /\ ~DPut
    BY <1>19 DEF DFault, dec, graph, DPut
  <2>2. CASE dpc \in {"receive", "put"}
    BY <1>17, <2>1, <2>2
  <2>3. CASE dpc \notin {"receive", "put"}
    <3>1. Asked' = Asked
      BY <2>1 DEF Asked, file
    <3> QED
      BY <1>5, <1>7, <1>9, <2>1, <2>3, <3>1
  <2> QED
    BY <2>2, <2>3
<1>20. CASE DTake
  <2>1. PICK e \in Examples, n \in setup.bytes :
          /\ n <= due[setup.format[e]]
          /\ due' = [due EXCEPT ![setup.format[e]] = @ - n]
          /\ held' = [item |-> decode_head, src |-> dfile, pos |-> fpos[dfile], size |-> n]
          /\ cur' = e
    BY <1>20 DEF DTake
  <2>2. /\ dpc = "receive" /\ dpc' = "put" /\ ~DPut /\ n \in Nat /\ e \in Attached /\ held'.size = n
        /\ due \in [Sink -> 0 .. setup.most]
    BY <1>20, <2>1, ExamplesAttached, SetupsAssumption DEF DTake, DPut, TypeInv, FilesOK
  <2>3. ASSUME NEW s \in Sink
        PROVE  /\ Due(s)' = IF SameEntry(s, e) THEN Due(s) - n ELSE Due(s)
               /\ Due(s) \in Nat
    BY <1>1, <1>3, <2>1, <2>2, <2>3 DEF Due, SameEntry
  <2>4. ASSUME NEW s \in Attached
        PROVE  Size(s)' + Due(s) <= Cap(s)' /\ Size(s)' \in Nat /\ Cap(s)' \in Int
    <3>1. s \in Sink /\ Fits(s, Due(s)) /\ Due(s) \in Nat
      BY <1>1, <1>5, <2>2, <2>3
    <3>2. Size(s)' + Due(s) <= Cap(s)'
      BY <1>2, <2>2, <3>1
    <3> QED
      BY <3>1, <3>2, CapNext
  <2>5. \A s \in Attached : Size(s)' + Due(s)' <= Cap(s)'
    <3> SUFFICES ASSUME NEW s \in Attached PROVE Size(s)' + Due(s)' <= Cap(s)'
      OBVIOUS
    <3> QED
      BY <1>1, <2>2, <2>3, <2>4
  <2>6. Due(cur)' + held'.size <= setup.most
    <3>1. Due(cur)' = due'[setup.format[e]]
      BY <1>3, <2>1 DEF Due
    <3>2. due'[setup.format[e]] = Due(e) - n /\ Due(e) \in 0 .. setup.most
      BY <1>1, <1>3, <2>1, <2>2 DEF Due
    <3> QED
      BY <1>3, <2>2, <3>1, <3>2
  <2>7. \A s \in Later(cur)' : SameEntry(s, cur)' => Size(s)' + (Due(s)' + held'.size) <= Cap(s)'
    <3> SUFFICES ASSUME NEW s \in Later(e), SameEntry(s, e) PROVE Size(s)' + (Due(s)' + n) <= Cap(s)'
      BY <1>1, <1>3, <2>1, <2>2 DEF SameEntry
    <3>1. s \in Attached /\ s \in Sink
      BY <1>1, <1>6
    <3>2. Due(s)' = Due(s) - n /\ Due(s) \in Nat
      BY <2>3, <3>1
    <3>3. Due(s)' + n = Due(s)
      BY <2>2, <3>2
    <3> QED
      BY <2>4, <3>1, <3>3
  <2> QED
    BY <2>2, <2>5, <2>6, <2>7
<1>21. CASE DPut
  <2>1. dpc = "put" /\ cur \in Attached /\ due' = due /\ cur \in Sink /\ held.size \in Nat
    BY <1>3, <1>21 DEF DPut
  <2>2. \A s : Due(s)' = Due(s)
    BY <1>3, <2>1 DEF Due
  <2>3. cur \in Later(cur) /\ SameEntry(cur, cur)
    BY <1>1, <2>1, VisitNext DEF SameEntry
  <2>4. ASSUME NEW s \in Attached PROVE Size(s)' + Due(s)' <= Cap(s)'
    <3> DEFINE n == Due(s)
    <3>1. s \in Sink /\ n \in Nat
      BY <1>1, <1>3
    <3>2. IF s = cur THEN Fits(s, n + held.size) ELSE Fits(s, n)
      BY <1>5, <2>1, <2>3
    <3> HIDE DEF n
    <3>3. Size(s)' + n <= Cap(s)'
      BY <1>2, <1>21, <3>1, <3>2
    <3> QED
      BY <2>2, <3>3 DEF n
  <2>5. CASE After(cur) # Null /\ SameEntry(After(cur), cur)
    <3>1. dpc' = "put" /\ cur' = After(cur) /\ held' = held
      BY <1>21, <2>1, <2>5 DEF DPut
    <3>2. Later(After(cur)) = Later(cur) \ {cur}
      BY <1>1, <2>1, <2>5, VisitNext
    <3>3. Later(cur)' = Later(cur) \ {cur}
      BY <1>1, <3>1, <3>2
    <3>4. Due(cur)' + held'.size <= setup.most
      <4>1. Due(cur)' = Due(cur)
        BY <1>3, <2>1, <2>5, <3>1 DEF Due, SameEntry
      <4> QED
        BY <1>5, <2>1, <3>1, <4>1
    <3>5. ASSUME NEW s \in Later(cur) \ {cur}, SameEntry(s, cur)'
          PROVE  Size(s)' + (Due(s)' + held'.size) <= Cap(s)'
      <4> DEFINE n == Due(s) + held.size
      <4>1. SameEntry(s, cur)
        BY <1>3, <2>5, <3>1, <3>5 DEF SameEntry
      <4>2. s \in Sink /\ n \in Nat /\ Fits(s, n)
        BY <1>1, <1>3, <1>5, <1>6, <2>1, <4>1
      <4> HIDE DEF n
      <4>3. Size(s)' + n <= Cap(s)'
        BY <1>2, <3>5, <4>2
      <4> QED
        BY <2>2, <3>1, <4>3 DEF n
    <3> QED
      BY <2>4, <3>1, <3>3, <3>4, <3>5
  <2>6. CASE ~(After(cur) # Null /\ SameEntry(After(cur), cur))
    <3>1. dpc' = "receive"
      BY <1>21, <2>6 DEF DPut
    <3> QED
      BY <2>4, <3>1
  <2> QED
    BY <2>5, <2>6
<1>22. CASE DLock \/ DQuit \/ DIdle \/ DSignalEnd \/ DWait \/ DWakeHead \/ DFile
  BY <1>9, <1>22 DEF DLock, DQuit, DIdle, DSignalEnd, DWait, DWakeHead, DFile, NextSink
<1>23. CASE DFull \/ DSleep \/ DWakeDrain \/ DFail \/ DEof \/ DReadEnd \/ DReceived \/ DAdvance \/ DStore
  BY <1>9, <1>23 DEF DFull, DSleep, DWakeDrain, DFail, DEof, DReadEnd, DReceived, DAdvance, DStore
<1> HIDE DEF Room
<1> QED
  BY <1>11, <1>12, <1>14, <1>15, <1>16, <1>18, <1>19, <1>20, <1>21, <1>22, <1>23 DEF Decode

LEMMA RoomOthers ==
  ASSUME TypeInv, AskedOK, RoomInv, AnyFull, Stays, ~Decode
  PROVE  RoomInv'
<1>1. /\ UNCHANGED <<dfile, cur, due, held>> /\ ~DPut
      /\ dpc' \in {"seek", "flush", "read", "receive", "put"} => dpc = dpc'
      /\ \A c : c = cur => Later(cur)' = Later(c)'
  BY OtherSteps DEF Decode, Later
<1>2. /\ AnyFull' /\ fill' = "any" /\ \A s \in Sink : request'[s] = -1
      /\ Slack' >= 0
      /\ \A s \in Sink : Size(s)' + 0 <= Cap(s)'
      /\ \A s \in Sink, n \in Nat : Fits(s, n) => Size(s)' + n <= Cap(s)'
      /\ Slack' > Slack => \A s \in Sink, n \in 0 .. setup.most : Size(s)' + n <= Cap(s)'
      /\ \A i \in Asked : i \in Asked' \/ Slack' > Slack
  BY <1>1, RoomKeeps
<1>3. /\ MapOK /\ \A s \in Attached : s \in Sink
  BY AttachedType DEF TypeInv, SinksOK
<1>4. \A s \in Attached' : s \in Sink
  <2>1. MapOK'
    BY MapType
  <2> QED
    BY <2>1 DEF MapOK, Attached, Range
<1>5. \A s \in Later(cur)' : s \in Attached'
  BY DEF Later
<1>6. /\ setup' = setup
      /\ setup.most \in Nat /\ \A s \in Sink : setup.format[s] \in Sink /\ Due(s) \in 0 .. setup.most
      /\ dpc = "put" => held.size \in Nat /\ cur \in Sink
  BY SetupStays, DueType
<1>7. \A s : Due(s)' = Due(s) /\ (SameEntry(s, cur)' <=> SameEntry(s, cur))
  BY <1>1, <1>6 DEF Due, SameEntry
<1>8. Due(cur)' = Due(cur)
  BY <1>1, <1>6 DEF Due
<1> DEFINE Most == \A s \in Attached' : Size(s)' + setup.most <= Cap(s)'
           Room == /\ dpc' \in {"seek", "flush"} => dfile \in Asked' \/ Most
                   /\ dpc' = "read" => Most
                   /\ dpc' \in {"receive", "put"} => \A s \in Attached' : Size(s)' + Due(s) <= Cap(s)'
                   /\ dpc' = "put" /\ cur \in Attached' =>
                        \A s \in Later(cur)' : SameEntry(s, cur) => Size(s)' + (Due(s) + held.size) <= Cap(s)'
<1>9. /\ dpc \in {"seek", "flush"} => dfile \in Asked \/ \A s \in Attached : Fits(s, setup.most)
      /\ dpc = "read" => \A s \in Attached : Fits(s, setup.most)
      /\ dpc \in {"receive", "put"} => \A s \in Attached : Fits(s, Due(s))
      /\ dpc = "put" => Due(cur) + held.size <= setup.most
      /\ dpc = "put" /\ cur \in Attached =>
           \A s \in Later(cur) : SameEntry(s, cur) => Fits(s, Due(s) + held.size)
  BY DEF RoomInv
<1>10. SUFFICES Room
  BY <1>1, <1>2, <1>6, <1>7, <1>8, <1>9 DEF RoomInv, Fits
<1>11. CASE Slack' > Slack
  <2>1. \A s \in Attached', n \in 0 .. setup.most : Size(s)' + n <= Cap(s)'
    BY <1>2, <1>4, <1>11
  <2>2. Most
    <3>1. setup.most \in 0 .. setup.most
      BY <1>6
    <3> QED
      BY <2>1, <3>1
  <2>3. \A s \in Attached' : Size(s)' + Due(s) <= Cap(s)'
    BY <1>4, <1>6, <2>1
  <2>4. ASSUME dpc = "put", NEW s \in Later(cur)', SameEntry(s, cur)
        PROVE  Size(s)' + (Due(s) + held.size) <= Cap(s)'
    <3> DEFINE n == Due(s) + held.size
    <3>1. s \in Attached' /\ s \in Sink /\ Due(s) = Due(cur)
      BY <1>4, <1>5, <2>4 DEF Due, SameEntry
    <3>2. n \in 0 .. setup.most
      BY <1>6, <1>9, <2>4, <3>1
    <3> HIDE DEF n
    <3>3. Size(s)' + n <= Cap(s)'
      BY <2>1, <3>1, <3>2
    <3> QED
      BY <3>3 DEF n
  <2> QED
    BY <1>1, <2>2, <2>3, <2>4
<1>12. ASSUME ~(Slack' > Slack), Attached' \subseteq Attached, cur \in Attached' => Later(cur)' \subseteq Later(cur)
       PROVE  Room
  <2>1. \A s \in Attached', n \in Nat : Fits(s, n) => Size(s)' + n <= Cap(s)'
    BY <1>2, <1>4
  <2>2. (\A s \in Attached : Fits(s, setup.most)) => Most
    BY <1>6, <1>12, <2>1
  <2>3. ASSUME dpc \in {"receive", "put"}, NEW s \in Attached' PROVE Size(s)' + Due(s) <= Cap(s)'
    <3>1. s \in Attached /\ Due(s) \in Nat
      BY <1>4, <1>6, <1>12
    <3> QED
      BY <1>9, <2>1, <2>3, <3>1
  <2>4. ASSUME dpc = "put", cur \in Attached', NEW s \in Later(cur)', SameEntry(s, cur)
        PROVE  Size(s)' + (Due(s) + held.size) <= Cap(s)'
    <3> DEFINE n == Due(s) + held.size
    <3>1. s \in Attached' /\ s \in Sink /\ s \in Later(cur) /\ cur \in Attached
      BY <1>4, <1>5, <1>12, <2>4
    <3>2. n \in Nat /\ Fits(s, n)
      BY <1>6, <1>9, <2>4, <3>1
    <3> HIDE DEF n
    <3>3. Size(s)' + n <= Cap(s)'
      BY <2>1, <3>1, <3>2
    <3> QED
      BY <3>3 DEF n
  <2> HIDE DEF Most
  <2> QED
    BY <1>1, <1>2, <1>9, <1>12, <2>2, <2>3, <2>4
<1>13. CASE UNCHANGED sink_map
  <2>1. Attached' = Attached
    BY <1>13 DEF Attached
  <2>2. Later(cur)' = Later(cur)
    BY <1>1, <1>13, <2>1 DEF Later
  <2> QED
    BY <1>11, <1>12, <2>1, <2>2
<1>14. CASE DetachMap
  <2>1. Attached' = Attached \ {arg} /\ \A c \in Attached' : Later(c)' = Later(c) \ {arg}
    BY <1>3, <1>14, VisitDetach DEF DetachMap
  <2>2. cur \in Attached' => Later(cur)' \subseteq Later(cur)
    BY <1>1, <2>1
  <2> QED
    BY <1>11, <1>12, <2>1, <2>2
<1>15. CASE DetachAll
  <2>1. dpc = "done" /\ dpc' = "done"
    BY <1>15 DEF DetachAll, TypeInv, CallInv, dec
  <2> QED
    BY <2>1
<1>16. CASE \E s \in setup.sinks : Attach(s)
  <2>1. budget' = budget - 1 /\ UNCHANGED file
    BY <1>16 DEF Attach, Spend
  <2>2. Asked' = Asked /\ setup' = setup
    BY <2>1, SetupStays DEF Asked, file
  <2> DEFINE n == Cardinality(Asked)
  <2>3. n \in Nat /\ budget \in Int /\ setup.budget \in Int
    BY FS_CardinalityType, SetupsAssumption DEF AskedOK, TypeInv, FilesOK
  <2>4. Slack = setup.budget - budget - n /\ Slack' = setup.budget - (budget - 1) - n
    BY <2>1, <2>2 DEF Slack
  <2> HIDE DEF n
  <2>5. Slack' > Slack
    BY <2>3, <2>4
  <2> QED
    BY <1>11, <2>5
<1> HIDE DEF Room
<1> QED
  BY <1>13, <1>14, <1>15, <1>16, MapMoves

LEMMA RoomInit == Init => AskedOK /\ RoomInv
<1> SUFFICES ASSUME Init PROVE AskedOK /\ RoomInv
  OBVIOUS
<1>1. Asked = {}
  BY DEF Init, Asked
<1>2. IsFiniteSet({}) /\ Cardinality({}) = 0
  BY FS_EmptySet
<1>3. AskedOK
  BY <1>1, <1>2 DEF AskedOK
<1>4. /\ setup.budget \in Nat /\ budget = setup.budget /\ setup.most \in Nat
      /\ setup.sizes # {} /\ setup.sizes \subseteq Nat \ {0}
  BY SetupsAssumption DEF Init
<1>5. Slack = 0
  BY <1>1, <1>2, <1>4 DEF Slack
<1>6. ASSUME NEW s \in Sink PROVE Fits(s, 0)
  <2>1. audioq[s] = <<>>
    BY DEF Init
  <2>2. Size(s) = 0
    BY <2>1, TotalEmpty, SizeNext
  <2>3. min_size[s] \in setup.sizes
    BY TypeInit DEF TypeInv, SinksOK
  <2>4. Cap(s) = min_size[s] - 1 + setup.most * (1 + 0)
    BY <1>5 DEF Cap
  <2>5. setup.most * (1 + 0) = setup.most
    BY <1>4
  <2> QED
    BY <1>4, <2>2, <2>3, <2>4, <2>5 DEF Fits
<1> QED
  BY <1>3, <1>5, <1>6 DEF Init, RoomInv, AnyFull

LEMMA RoomStep ==
  ASSUME TypeInv, AskedOK, RoomInv, Stays
  PROVE  AskedOK' /\ RoomInv'
<1>1. AskedOK'
  BY SlackMoves
<1>2. AnyFull' = AnyFull
  BY SetupStays DEF AnyFull, Calls
<1>3. RoomInv'
  BY <1>2, RoomDecode, RoomOthers DEF RoomInv
<1> QED
  BY <1>1, <1>3

\* The check before every packet, and before every turn that drains the codec,
\* bounds every queue: it is overrun by what one turn brings and no more, and by
\* one turn for each call, however the buffers of a packet are cut and whatever
\* sinks come and go while they are handed out.
THEOREM RoomBounds == SafeSpec => []QueuesBounded
<1>1. TypeInv /\ AskedOK /\ RoomInv /\ [Next]_vars => AskedOK' /\ RoomInv'
  BY RoomStep DEF Stays
<1>2. TypeInv /\ AskedOK /\ RoomInv => QueuesBounded
  <2> SUFFICES ASSUME TypeInv, AskedOK, RoomInv, AnyFull, NEW s \in Sink
               PROVE  Size(s) <= min_size[s] - 1 + setup.most * (1 + setup.budget - budget)
    BY TypeEnough DEF QueuesBounded
  <2> DEFINE n == Cardinality(Asked)
             a == Size(s)
             v == 1 + Slack
             w == 1 + setup.budget - budget
             m == setup.most
             k == min_size[s]
  <2>1. n \in Nat /\ budget \in Int /\ setup.budget \in Int /\ a \in Nat /\ k \in Nat /\ m \in Nat
    BY FS_CardinalityType, SizeType, DueType, SetupsAssumption DEF AskedOK, TypeInv, FilesOK
  <2>2. a + 0 <= k - 1 + m * v /\ Slack = setup.budget - budget - n
    BY DEF RoomInv, Fits, Cap, Slack
  <2>3. v \in Int /\ w \in Int /\ v <= w
    BY <2>1, <2>2
  <2> HIDE DEF n, a, v, w, m, k
  <2>4. m * v \in Int /\ m * w \in Int /\ m * v <= m * w
    BY <2>1, <2>3, Times
  <2> DEFINE x == m * v
             y == m * w
  <2>5. a + 0 <= k - 1 + x /\ x \in Int /\ y \in Int /\ x <= y
    BY <2>2, <2>4
  <2> HIDE DEF x, y
  <2>6. a <= k - 1 + y
    BY <2>1, <2>5
  <2> QED
    BY <2>6 DEF a, k, y, m, w
<1> QED
  BY <1>1, <1>2, RoomInit, TypeSafe, PTL DEF SafeSpec

================================================================================
