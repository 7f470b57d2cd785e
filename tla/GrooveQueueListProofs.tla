-------------------------- MODULE GrooveQueueListProofs -------------------------
(***************************************************************************)
(* Proofs about GrooveQueueList, for any nodes, objects and threads: the    *)
(* singly linked list stays sound through every interleaving of puts with   *)
(* gets, flushes and purges (ListSafe), the hooks count what is on it       *)
(* (CountSafe), and the list implements GrooveQueue (QueueRefined).         *)
(*                                                                         *)
(* The first two speak of a free mutex.  The invariant follows the call     *)
(* that holds it: which nodes are linked (On), where they begin (Start),    *)
(* what the cursor of flush and purge has reached, and by how much the      *)
(* hooks lag behind the list.  The third needs the order of the nodes as    *)
(* well: RefInv names the sequence that the chain is (Leads), and says that *)
(* the cursor of purge has left no victim behind.                          *)
(***************************************************************************)
EXTENDS GrooveQueueRefinement, KeepSeqProofs, FiniteSetTheorems

\* The nodes that put has yet to link, and the one that get has taken off.
Off == {new[t] : t \in {c \in Caller : ~(mutex = c /\ section \in {"put", "signal"})}}
         \cup (IF section = "got" THEN {el} ELSE {})

On    == live \ Off
Start == IF section = "flush" THEN el ELSE first
Lag   == CASE section = "put" -> 1 [] section = "got" -> -1 [] OTHER -> 0

Typed ==
  /\ {first, last, el, prev} \subseteq Node \cup {Null}
  /\ next \in [Node -> Node \cup {Null}]
  /\ obj \in [Node -> Object \cup {NoObject}]
  /\ live \subseteq Node /\ IsFiniteSet(live)
  /\ new \in [Caller -> live \cup {Null}]
  /\ mutex \in Thread \cup {NoThread}
  /\ victims \subseteq Object
  /\ accounted \in Int

\* Who is inside, and on what.
Inside ==
  /\ section \in {"none", "put", "signal", "got", "flush", "purge"}
  /\ section = "none" <=> mutex = NoThread
  /\ section \in {"put", "signal"} => mutex \in Caller /\ new[mutex] # Null
  /\ section \in {"flush", "purge"} => mutex \in Caller
  /\ section = "got" => el \in live

\* A node belongs to one caller at most, and leads nowhere until it is linked.
Owned ==
  /\ \A s, t \in Caller : new[s] = new[t] /\ new[s] # Null => s = t
  /\ \A t \in Caller : new[t] \in Off /\ new[t] # Null => next[new[t]] = Null
  /\ section = "got" => \A t \in Caller : new[t] # el

Chained ==
  /\ Linked(On, Start, last, next)
  /\ section # "flush" => (last = Null <=> On = {})

Cursor ==
  section = "purge" => /\ {el, prev} \subseteq On \cup {Null}
                       /\ IF prev = Null THEN el = first ELSE next[prev] = el

Counted == accounted + Lag = Cardinality(On)

IInv == Typed /\ Inside /\ Owned /\ Chained /\ Cursor /\ Counted

--------------------------------------------------------------------------------
(* What the three ways to change a list do to it.                          *)

\* A set that start is in and next does not leave is the whole of them.
LEMMA Closed ==
  ASSUME NEW S, NEW start, NEW end, NEW nxt, Linked(S, start, end, nxt),
         NEW V \in SUBSET S, start \in V, \A n \in V : nxt[n] \in V \cup {Null}
  PROVE  V = S
  BY DEF Linked

LEMMA LinkFirst ==
  ASSUME NEW n \in Node, NEW nxt \in [Node -> Node \cup {Null}], nxt[n] = Null
  PROVE  Linked({n}, n, n, nxt)
  BY NullAssumption DEF Linked

LEMMA LinkLast ==
  ASSUME NEW S \in SUBSET Node, NEW start, NEW end, NEW nxt \in [Node -> Node \cup {Null}],
         Linked(S, start, end, nxt), S # {},
         NEW n \in Node \ S, nxt[n] = Null
  PROVE  Linked(S \cup {n}, start, n, [nxt EXCEPT ![end] = n])
<1> DEFINE after == [nxt EXCEPT ![end] = n]
<1>1. end \in S /\ start \in S /\ n # start /\ nxt[end] = Null /\ n # Null
  BY NullAssumption DEF Linked
<1>2. after[end] = n /\ \A i \in Node : i # end => after[i] = nxt[i]
  BY <1>1
<1>3. \A i \in S \cup {n} : IF i = n THEN after[i] = Null ELSE after[i] \in (S \cup {n}) \ {start}
  BY <1>1, <1>2 DEF Linked
<1>4. \A i, j \in S \cup {n} : after[i] = after[j] => i = j
  BY <1>1, <1>2, NullAssumption DEF Linked
<1>5. ASSUME NEW V \in SUBSET (S \cup {n}), start \in V, \A i \in V : after[i] \in V \cup {Null}
      PROVE  V = S \cup {n}
  <2>1. \A i \in V \cap S : nxt[i] \in (V \cap S) \cup {Null}
    BY <1>1, <1>2, <1>5 DEF Linked
  <2>2. V \cap S = S
    BY <2>1, <1>1, <1>5 DEF Linked
  <2>3. n \in V
    BY <2>2, <1>1, <1>2, <1>5
  <2> QED
    BY <2>2, <2>3
<1> HIDE DEF after
<1>6. Linked(S \cup {n}, start, n, after)
  BY <1>1, <1>3, <1>4, <1>5 DEF Linked
<1> QED
  BY <1>6 DEF after

LEMMA UnlinkFirst ==
  ASSUME NEW S \in SUBSET Node, NEW start, NEW end, NEW nxt \in [Node -> Node \cup {Null}],
         Linked(S, start, end, nxt), S # {}
  PROVE  /\ start \in S
         /\ S \ {start} = {} <=> nxt[start] = Null
         /\ Linked(S \ {start}, nxt[start], end, nxt)
<1>1. start \in S /\ end \in S /\ start # Null /\ end # Null /\ nxt[end] = Null
  BY NullAssumption DEF Linked
<1>2. ASSUME nxt[start] = Null PROVE S = {start}
  <2> DEFINE W == {start}
  <2>1. W \in SUBSET S /\ start \in W /\ \A n \in W : nxt[n] \in W \cup {Null}
    BY <1>1, <1>2
  <2> HIDE DEF W
  <2>2. W = S
    BY <2>1, Closed
  <2> QED
    BY <2>2 DEF W
<1>3. nxt[start] # Null => nxt[start] \in S \ {start} /\ start # end
  BY <1>1 DEF Linked
<1>4. CASE nxt[start] = Null
  <2>1. S \ {start} = {}
    BY <1>2, <1>4
  <2>2. Linked({}, Null, end, nxt)
    BY NullAssumption DEF Linked
  <2> QED
    BY <2>1, <2>2, <1>4
<1>5. CASE nxt[start] # Null
  <2>1. end \in S \ {start}
    BY <1>1, <1>3, <1>5
  <2>2. \A n \in S \ {start} :
          IF n = end THEN nxt[n] = Null ELSE nxt[n] \in (S \ {start}) \ {nxt[start]}
    BY <1>1 DEF Linked
  <2>3. ASSUME NEW V \in SUBSET (S \ {start}), nxt[start] \in V, \A n \in V : nxt[n] \in V \cup {Null}
        PROVE  V = S \ {start}
    <3> DEFINE W == V \cup {start}
    <3>1. W \in SUBSET S /\ start \in W /\ \A n \in W : nxt[n] \in W \cup {Null}
      BY <1>1, <2>3
    <3> HIDE DEF W
    <3>2. W = S
      BY <3>1, Closed
    <3> QED
      BY <3>2, <2>3 DEF W
  <2> QED
    BY <1>1, <1>3, <1>5, <2>1, <2>2, <2>3 DEF Linked
<1> QED
  BY <1>1, <1>2, <1>3, <1>4, <1>5

\* The node after p, when p is not the last.
LEMMA NextOf ==
  ASSUME NEW S \in SUBSET Node, NEW start, NEW end, NEW nxt \in [Node -> Node \cup {Null}],
         Linked(S, start, end, nxt), NEW p \in S, NEW e, nxt[p] = e, e # Null
  PROVE  /\ e \in S /\ e # p /\ e # start
         /\ nxt[e] = Null <=> e = end
         /\ nxt[e] \in (S \ {e}) \cup {Null}
<1>1. /\ start \in S /\ end \in S /\ start # Null /\ end # Null /\ nxt[end] = Null
      /\ p # end /\ e \in S /\ e # start
  BY NullAssumption DEF Linked
<1>2. nxt[e] = Null <=> e = end
  BY <1>1 DEF Linked
<1>3. e # p
  <2>1. SUFFICES ASSUME e = p PROVE FALSE
    OBVIOUS
  <2>2. start \in S \ {p} /\ \A n \in S \ {p} : nxt[n] \in (S \ {p}) \cup {Null}
    BY <1>1, <2>1 DEF Linked
  <2>3. S \ {p} = S
    BY <2>2 DEF Linked
  <2> QED
    BY <2>3
<1>4. nxt[e] # e /\ nxt[e] \in (S \ {e}) \cup {Null}
  BY <1>1, <1>3 DEF Linked
<1> QED
  BY <1>1, <1>2, <1>3, <1>4

LEMMA UnlinkNext ==
  ASSUME NEW S \in SUBSET Node, NEW start, NEW end, NEW nxt \in [Node -> Node \cup {Null}],
         Linked(S, start, end, nxt), NEW p \in S, NEW e, nxt[p] = e, e # Null,
         NEW after, after = [nxt EXCEPT ![p] = nxt[e]],
         NEW last2, last2 = IF nxt[e] = Null THEN p ELSE end
  PROVE  Linked(S \ {e}, start, last2, after)
<1>1. /\ start \in S /\ end \in S /\ start # Null /\ end # Null /\ nxt[end] = Null
      /\ p # end /\ e \in S /\ e # start
  BY NullAssumption DEF Linked
<1>2. nxt[e] = Null <=> e = end
  BY NextOf
<1>3. e # p
  BY NextOf
<1>4. nxt[e] # e /\ nxt[e] \in (S \ {e}) \cup {Null}
  BY <1>1, NextOf
<1>5. after[p] = nxt[e] /\ \A i \in Node : i # p => after[i] = nxt[i]
  OBVIOUS
<1>6. last2 \in S \ {e}
  BY <1>1, <1>2, <1>3
<1>7. \A n \in S \ {e} : IF n = last2 THEN after[n] = Null ELSE after[n] \in (S \ {e}) \ {start}
  <2>1. after[p] = Null <=> p = last2
    BY <1>1, <1>2, <1>5
  <2>2. after[p] # Null => after[p] \in (S \ {e}) \ {start}
    BY <1>1, <1>2, <1>4, <1>5 DEF Linked
  <2>3. \A n \in S \ {e, p} : nxt[n] # e
    BY <1>1 DEF Linked
  <2>4. \A n \in S \ {e, p} : IF n = last2 THEN after[n] = Null ELSE after[n] \in (S \ {e}) \ {start}
    BY <1>1, <1>2, <1>5, <2>3 DEF Linked
  <2> QED
    BY <2>1, <2>2, <2>4
<1>8. \A i, j \in S \ {e} : after[i] = after[j] => i = j
  BY <1>1, <1>3, <1>5 DEF Linked
<1>9. ASSUME NEW V \in SUBSET (S \ {e}), start \in V, \A n \in V : after[n] \in V \cup {Null}
      PROVE  V = S \ {e}
  <2>1. CASE p \in V
    <3> DEFINE W == V \cup {e}
    <3>1. W \in SUBSET S /\ start \in W /\ \A n \in W : nxt[n] \in W \cup {Null}
      BY <1>1, <1>5, <1>9, <2>1
    <3> HIDE DEF W
    <3>2. W = S
      BY <3>1, Closed
    <3> QED
      BY <3>2, <1>9 DEF W
  <2>2. CASE p \notin V
    <3>1. \A n \in V : nxt[n] \in V \cup {Null}
      BY <1>5, <1>9, <2>2
    <3>2. V = S
      BY <3>1, <1>9 DEF Linked
    <3> QED
      BY <3>2, <2>2
  <2> QED
    BY <2>1, <2>2
<1> QED
  BY <1>1, <1>6, <1>7, <1>8, <1>9 DEF Linked

\* Nodes off the list do not matter to it.
LEMMA SameLinks ==
  ASSUME NEW S, NEW start, NEW end, NEW nxt, NEW other, Linked(S, start, end, nxt),
         \A n \in S : other[n] = nxt[n]
  PROVE  Linked(S, start, end, other)
<1>1. ASSUME NEW V \in SUBSET S, start \in V, \A n \in V : other[n] \in V \cup {Null} PROVE V = S
  <2>1. \A n \in V : nxt[n] \in V \cup {Null}
    BY <1>1
  <2> QED
    BY <2>1, <1>1, Closed
<1> QED
  BY <1>1 DEF Linked

--------------------------------------------------------------------------------
LEMMA Initially == Init => IInv
<1> SUFFICES ASSUME Init PROVE IInv
  OBVIOUS
<1>1. On = {} /\ Start = Null /\ Lag = 0
  BY DEF Init, On, Start, Lag
<1>2. IsFiniteSet({}) /\ Cardinality({}) = 0
  BY FS_EmptySet
<1>3. Typed /\ Inside /\ Owned /\ Cursor
  BY <1>2 DEF Init, Typed, Inside, Owned, Cursor
<1>4. Linked({}, Null, Null, next)
  BY NullAssumption DEF Linked
<1> QED
  BY <1>1, <1>2, <1>3, <1>4 DEF Init, IInv, Chained, Counted

\* What the steps below need of a state.
LEMMA Facts ==
  ASSUME IInv
  PROVE  /\ On \in SUBSET Node /\ On \subseteq live /\ IsFiniteSet(On) /\ Cardinality(On) \in Nat
         /\ Null \notin live /\ accounted \in Int
         /\ Start \in On \cup {Null} /\ (Start = Null <=> On = {})
         /\ \A t \in Caller : new[t] \in live \cup {Null}
<1>1. On \in SUBSET Node /\ On \subseteq live
  BY DEF IInv, Typed, On
<1>2. IsFiniteSet(On)
  BY <1>1, FS_Subset DEF IInv, Typed
<1>3. Cardinality(On) \in Nat
  BY <1>2, FS_CardinalityType
<1> QED
  BY <1>1, <1>2, <1>3, NullAssumption DEF IInv, Typed, Chained, Linked

\* Nothing that matters here changes.
LEMMA Frame ==
  ASSUME IInv, UNCHANGED <<list, new, mutex, section, el, prev, victims, accounted>>
  PROVE  IInv' /\ On' = On
<1>1. On' = On /\ Off' = Off /\ Start' = Start /\ Lag' = Lag
  BY DEF On, Off, Start, Lag, list
<1>2. Typed' /\ Inside' /\ Owned'
  BY <1>1 DEF IInv, Typed, Inside, Owned, list
<1>3. Chained' /\ Cursor' /\ Counted'
  BY <1>1 DEF IInv, Chained, Cursor, Counted, list
<1> QED
  BY <1>1, <1>2, <1>3 DEF IInv

--------------------------------------------------------------------------------
(* One lemma per action.                                                   *)

LEMMA PutAllocStep ==
  ASSUME IInv, NEW t \in Caller, NEW o \in Object, PutAlloc(t, o)
  PROVE  IInv' /\ On' = On
<1>1. PICK n \in Node \ live :
        /\ live' = live \cup {n} /\ obj' = [obj EXCEPT ![n] = o]
        /\ next' = [next EXCEPT ![n] = Null] /\ new' = [new EXCEPT ![t] = n]
  BY DEF PutAlloc
<1>2. /\ new[t] = Null /\ mutex # t
      /\ UNCHANGED <<first, last, mutex, section, el, prev, victims, accounted>>
  BY DEF PutAlloc
<1>3. IsFiniteSet(live')
  BY <1>1, FS_AddElement DEF IInv, Typed
<1>4. Typed'
  BY <1>1, <1>2, <1>3 DEF IInv, Typed
<1>5. new'[t] = n /\ (\A c \in Caller \ {t} : new'[c] = new[c]) /\ \A c \in Caller : new[c] # n
  BY <1>1, NullAssumption DEF IInv, Typed
<1>6. \A x \in live : x \in Off' <=> x \in Off
  BY <1>1, <1>2, <1>5, NullAssumption DEF Off, IInv, Typed
<1>7. n \in Off'
  BY <1>2, <1>5 DEF Off
<1>8. On' = On /\ Start' = Start /\ Lag' = Lag
  BY <1>1, <1>2, <1>6, <1>7 DEF On, Start, Lag
<1>9. \A m \in Node \ {n} : next'[m] = next[m]
  BY <1>1
<1>10. next'[n] = Null
  BY <1>1 DEF IInv, Typed
<1>11. Inside'
  BY <1>1, <1>2, <1>5 DEF IInv, Inside
<1>12. Owned'
  <2>1. \A c, d \in Caller : new'[c] = new'[d] /\ new'[c] # Null => c = d
    BY <1>5 DEF IInv, Owned
  <2>2. ASSUME NEW c \in Caller, new'[c] \in Off', new'[c] # Null PROVE next'[new'[c]] = Null
    <3>1. CASE c = t
      BY <3>1, <1>5, <1>10
    <3>2. CASE c # t
      <4>1. new'[c] = new[c] /\ new[c] \in live /\ new[c] # n
        BY <3>2, <2>2, <1>1, <1>5 DEF IInv, Typed
      <4>2. new[c] \in Off
        BY <4>1, <2>2, <1>6
      <4> QED
        BY <4>1, <4>2, <2>2, <1>9 DEF IInv, Owned, Typed
    <3> QED
      BY <3>1, <3>2
  <2>3. section' = "got" => \A c \in Caller : new'[c] # el'
    BY <1>1, <1>2, <1>5 DEF IInv, Owned, Inside
  <2> QED
    BY <2>1, <2>2, <2>3 DEF Owned
<1>13. Chained'
  <2>1. \A m \in On : next'[m] = next[m]
    BY <1>1, <1>9, Facts
  <2> QED
    BY <2>1, <1>2, <1>8, SameLinks DEF IInv, Chained
<1>14. Cursor'
  BY <1>1, <1>2, <1>8, <1>9, Facts, NullAssumption DEF IInv, Cursor
<1>15. Counted'
  BY <1>2, <1>8 DEF IInv, Counted
<1> QED
  BY <1>8, <1>4, <1>11, <1>12, <1>13, <1>14, <1>15 DEF IInv

LEMMA PutLinkStep ==
  ASSUME IInv, NEW t \in Caller, PutLink(t)
  PROVE  IInv' /\ On' = On \cup {new[t]} /\ new[t] \in live \ On
<1> DEFINE n == new[t]
<1>1. /\ n # Null /\ mutex = NoThread /\ section = "none" /\ mutex' = t /\ section' = "put"
      /\ last' = n /\ UNCHANGED <<obj, live, new, el, prev, victims, accounted>>
  BY DEF PutLink, Enter, Free, IInv, Inside
<1>2. n \in live /\ n \in Off /\ n \notin On /\ next[n] = Null
  BY <1>1, Facts DEF Off, On, IInv, Owned
<1>3. n \in Node
  BY <1>2 DEF IInv, Typed
<1>4. \A x \in live : x \in Off' <=> x \in Off /\ x # n
  BY <1>1, <1>2, Facts DEF Off, IInv, Owned
<1>5. On' = On \cup {n}
  BY <1>1, <1>2, <1>4 DEF On
<1>6. Start = first /\ Start' = first' /\ Lag = 0 /\ Lag' = 1
  BY <1>1 DEF Start, Lag
<1>7. Linked(On', first', n, next') /\ next' \in [Node -> Node \cup {Null}] /\ first' \in Node \cup {Null}
      /\ \A m \in Node \ On : next'[m] = next[m]
  <2>1. CASE last = Null
    <3>1. On = {} /\ first' = n /\ next' = next
      BY <2>1, <1>1 DEF PutLink, IInv, Chained
    <3> QED
      BY <3>1, <1>2, <1>3, <1>5, LinkFirst DEF IInv, Typed
  <2>2. CASE last # Null
    <3>1. On # {} /\ last \in On /\ first' = first /\ next' = [next EXCEPT ![last] = n]
      BY <2>2, <1>1 DEF PutLink, IInv, Chained, Linked
    <3>2. Linked(On \cup {n}, first, n, next')
      BY <3>1, <1>2, <1>3, <1>6, LinkLast, Facts DEF IInv, Chained, Typed
    <3> QED
      BY <3>1, <3>2, <1>3, <1>5 DEF IInv, Typed
  <2> QED
    BY <2>1, <2>2
<1>8. Typed'
  BY <1>1, <1>3, <1>7 DEF IInv, Typed, Thread
<1>9. Inside'
  BY <1>1, NullAssumption DEF IInv, Inside, Thread
<1>10. Owned'
  <2>1. ASSUME NEW c \in Caller, new'[c] \in Off', new'[c] # Null PROVE next'[new'[c]] = Null
    <3>1. new[c] \in live /\ new[c] \in Off
      BY <2>1, <1>1, <1>4, Facts
    <3> QED
      BY <3>1, <2>1, <1>1, <1>7 DEF IInv, Owned, Typed, On
  <2> QED
    BY <2>1, <1>1 DEF IInv, Owned
<1>11. Chained'
  BY <1>1, <1>5, <1>6, <1>7 DEF Chained
<1>12. Cursor'
  BY <1>1 DEF Cursor
<1>13. Counted'
  <2>1. Cardinality(On') = Cardinality(On) + 1
    BY <1>2, <1>5, Facts, FS_AddElement
  <2> QED
    BY <2>1, <1>1, <1>6, Facts DEF IInv, Counted
<1> QED
  BY <1>2, <1>5, <1>8, <1>9, <1>10, <1>11, <1>12, <1>13 DEF IInv

LEMMA PutHookStep ==
  ASSUME IInv, NEW t \in Caller, PutHook(t)
  PROVE  IInv' /\ On' = On
<1>1. /\ mutex = t /\ section = "put" /\ section' = "signal" /\ accounted' = accounted + 1
      /\ UNCHANGED <<first, last, next, obj, live, new, mutex, el, prev, victims>>
  BY DEF PutHook, In, list
<1>2. Off' = Off /\ On' = On /\ Start' = Start /\ Lag = 1 /\ Lag' = 0
  BY <1>1 DEF Off, On, Start, Lag
<1>3. Typed' /\ Inside' /\ Owned'
  BY <1>1, <1>2 DEF IInv, Typed, Inside, Owned
<1>4. Chained' /\ Cursor' /\ Counted'
  BY <1>1, <1>2, Facts DEF IInv, Chained, Cursor, Counted
<1> QED
  BY <1>2, <1>3, <1>4 DEF IInv

LEMMA PutSignalStep ==
  ASSUME IInv, NEW t \in Caller, PutSignal(t)
  PROVE  IInv' /\ On' = On
<1>1. /\ mutex = t /\ section = "signal" /\ mutex' = NoThread /\ section' = "none"
      /\ el' = Null /\ prev' = Null /\ victims' = {} /\ new' = [new EXCEPT ![t] = Null]
      /\ UNCHANGED <<first, last, next, obj, live, accounted>>
  BY DEF PutSignal, In, Leave, list
<1>2. new'[t] = Null /\ \A c \in Caller \ {t} : new'[c] = new[c]
  BY <1>1 DEF IInv, Typed
<1>3. \A x \in live : x \in Off' <=> x \in Off
  BY <1>1, <1>2, Facts DEF Off
<1>4. On' = On /\ Start' = Start /\ Lag' = Lag
  BY <1>1, <1>3 DEF On, Start, Lag
<1>5. Typed'
  BY <1>1 DEF IInv, Typed
<1>6. Inside'
  BY <1>1 DEF Inside
<1>7. Owned'
  <2>1. ASSUME NEW c \in Caller, new'[c] \in Off', new'[c] # Null PROVE next'[new'[c]] = Null
    BY <2>1, <1>1, <1>2, <1>3, Facts DEF IInv, Owned
  <2> QED
    BY <2>1, <1>1, <1>2 DEF IInv, Owned
<1>8. Chained' /\ Cursor' /\ Counted'
  BY <1>1, <1>4 DEF IInv, Chained, Cursor, Counted
<1> QED
  BY <1>4, <1>5, <1>6, <1>7, <1>8 DEF IInv

LEMMA GetPopStep ==
  ASSUME IInv, NEW t \in Getter, GetPop(t)
  PROVE  IInv' /\ first \in On /\ On' = On \ {first}
<1>1. /\ mutex = NoThread /\ section = "none" /\ mutex' = t /\ section' = "got"
      /\ first # Null /\ el' = first /\ first' = next[first]
      /\ last' = IF next[first] = Null THEN Null ELSE last
      /\ UNCHANGED <<next, obj, live, new, prev, victims, accounted>>
  BY DEF GetPop, InLoop, Enter, Free, IInv, Inside
<1>2. Start = first /\ Start' = first' /\ Lag = 0 /\ Lag' = 0 - 1
  BY <1>1 DEF Start, Lag
<1>3. On # {} /\ Linked(On, first, last, next) /\ last \in On
  BY <1>1, <1>2, Facts DEF IInv, Chained, Linked
<1>4. /\ first \in On
      /\ On \ {first} = {} <=> next[first] = Null
      /\ Linked(On \ {first}, next[first], last, next)
  BY <1>3, UnlinkFirst, Facts DEF IInv, Typed
<1>5. \A x \in live : x \in Off' <=> x \in Off \/ x = first
  BY <1>1 DEF Off
<1>6. On' = On \ {first}
  BY <1>1, <1>5 DEF On
<1>7. first \in live /\ first \notin Off
  BY <1>4 DEF On
<1>8. Typed'
  BY <1>1, <1>7 DEF IInv, Typed, Thread, Sleepers
<1>9. Inside'
  BY <1>1, <1>7, NullAssumption DEF Inside, Thread, Sleepers
<1>10. \A c \in Caller : new[c] # first
  BY <1>1, <1>7 DEF Off
<1>11. Owned'
  BY <1>1, <1>5, <1>10, Facts DEF IInv, Owned
<1>12. Chained'
  <2>1. CASE next[first] = Null
    <3>1. On' = {} /\ Start' = Null /\ last' = Null
      BY <2>1, <1>1, <1>2, <1>4, <1>6
    <3> QED
      BY <3>1 DEF Chained, Linked
  <2>2. CASE next[first] # Null
    BY <2>2, <1>1, <1>2, <1>3, <1>4, <1>6, Facts DEF Chained
  <2> QED
    BY <2>1, <2>2
<1>13. Cursor'
  BY <1>1 DEF Cursor
<1>14. Counted'
  <2>1. Cardinality(On') = Cardinality(On) - 1
    BY <1>4, <1>6, Facts, FS_RemoveElement
  <2> QED
    BY <2>1, <1>1, <1>2, Facts DEF IInv, Counted
<1> QED
  BY <1>4, <1>6, <1>8, <1>9, <1>11, <1>12, <1>13, <1>14 DEF IInv

LEMMA GetHookStep ==
  ASSUME IInv, NEW t \in Getter, GetHook(t)
  PROVE  IInv' /\ On' = On /\ el \notin On
<1>1. /\ section = "got" /\ section' = "none" /\ mutex' = NoThread
      /\ live' = live \ {el} /\ obj' = [obj EXCEPT ![el] = NoObject] /\ accounted' = accounted - 1
      /\ el' = Null /\ prev' = Null /\ victims' = {}
      /\ UNCHANGED <<first, last, next, new>>
  BY DEF GetHook, In, FreeNode, Leave
<1>2. Start' = Start /\ Lag = 0 - 1 /\ Lag' = 0
  BY <1>1 DEF Start, Lag
<1>3. \A x \in live' : x \in Off' <=> x \in Off
  BY <1>1 DEF Off
<1>4. el \in Off
  BY <1>1 DEF Off
<1>5. On' = On
  BY <1>1, <1>3, <1>4 DEF On
<1>6. Typed'
  <2>1. IsFiniteSet(live')
    BY <1>1, FS_RemoveElement DEF IInv, Typed
  <2>2. new \in [Caller -> live' \cup {Null}]
    BY <1>1 DEF IInv, Typed, Owned
  <2>3. obj \in [Node -> Object \cup {NoObject}] /\ live \subseteq Node /\ accounted \in Int
    BY DEF IInv, Typed
  <2>4. obj' \in [Node -> Object \cup {NoObject}]
    BY <2>3, <1>1, Zenon
  <2>5. live' \subseteq Node
    BY <2>3, <1>1
  <2>6. accounted' \in Int
    BY <2>3, <1>1
  <2>7. {first', last', el', prev'} \subseteq Node \cup {Null} /\ mutex' \in Thread \cup {NoThread}
    BY <1>1 DEF IInv, Typed
  <2> QED
    BY <2>1, <2>2, <2>4, <2>5, <2>6, <2>7, <1>1 DEF IInv, Typed
<1>7. Inside'
  BY <1>1 DEF Inside
<1>8. Owned'
  BY <1>1, <1>3, <1>6 DEF IInv, Owned, Typed
<1>9. Chained' /\ Cursor' /\ Counted'
  BY <1>1, <1>2, <1>5, Facts DEF IInv, Chained, Cursor, Counted
<1> QED
  BY <1>4, <1>5, <1>6, <1>7, <1>8, <1>9 DEF IInv, On

\* The loops begin at first, and end with the list.
LEMMA StartStep ==
  ASSUME IInv, NEW t \in Caller, NEW v \in SUBSET Object, FlushStart(t) \/ PurgeStart(t, v)
  PROVE  IInv' /\ On' = On
<1>1. /\ mutex = NoThread /\ section = "none" /\ mutex' = t /\ section' \in {"flush", "purge"}
      /\ el' = first /\ (section' = "purge" => prev' = Null)
      /\ prev' \in {prev, Null} /\ victims' \in {victims, v}
      /\ UNCHANGED <<first, last, next, obj, live, new, accounted>>
  BY DEF FlushStart, PurgeStart, Enter, Free, IInv, Inside, list
<1>2. Off' = Off /\ On' = On /\ Start = first /\ Start' = first /\ Lag = 0 /\ Lag' = 0
  BY <1>1 DEF Off, On, Start, Lag
<1>3. Typed' /\ Inside' /\ Owned'
  BY <1>1, <1>2, NullAssumption DEF IInv, Typed, Inside, Owned, Thread
<1>4. Chained' /\ Cursor' /\ Counted'
  BY <1>1, <1>2, Facts DEF IInv, Chained, Cursor, Counted
<1> QED
  BY <1>2, <1>3, <1>4 DEF IInv

LEMMA PurgeEndStep ==
  ASSUME IInv, NEW t \in Caller, PurgeEnd(t)
  PROVE  IInv' /\ On' = On
<1>1. /\ section = "purge" /\ section' = "none" /\ mutex' = NoThread
      /\ el' = Null /\ prev' = Null /\ victims' = {}
      /\ UNCHANGED <<first, last, next, obj, live, new, accounted>>
  BY DEF PurgeEnd, In, Leave, list
<1>2. Off' = Off /\ On' = On /\ Start' = Start /\ Lag' = Lag
  BY <1>1 DEF Off, On, Start, Lag
<1>3. Typed' /\ Inside' /\ Owned'
  BY <1>1, <1>2 DEF IInv, Typed, Inside, Owned
<1>4. Chained' /\ Cursor' /\ Counted'
  BY <1>1, <1>2 DEF IInv, Chained, Cursor, Counted
<1> QED
  BY <1>2, <1>3, <1>4 DEF IInv

LEMMA FlushEndStep ==
  ASSUME IInv, NEW t \in Caller, FlushEnd(t)
  PROVE  IInv' /\ On' = {}
<1>1. /\ section = "flush" /\ section' = "none" /\ mutex' = NoThread
      /\ el = Null /\ el' = Null /\ prev' = Null /\ victims' = {} /\ first' = Null /\ last' = Null
      /\ UNCHANGED <<next, obj, live, new, accounted>>
  BY DEF FlushEnd, In, Leave
<1>2. Off' = Off /\ On' = On /\ Start = el /\ Start' = Null /\ Lag' = Lag
  BY <1>1 DEF Off, On, Start, Lag
<1>3. Typed' /\ Inside' /\ Owned'
  BY <1>1, <1>2 DEF IInv, Typed, Inside, Owned
<1>4. On' = {}
  BY <1>1, <1>2, Facts
<1>5. Chained'
  BY <1>1, <1>2, <1>4 DEF Chained, Linked
<1>6. Cursor' /\ Counted'
  BY <1>1, <1>2 DEF IInv, Cursor, Counted
<1> QED
  BY <1>4, <1>3, <1>5, <1>6 DEF IInv

LEMMA PurgeKeepStep ==
  ASSUME IInv, NEW t \in Caller, PurgeKeep(t)
  PROVE  IInv' /\ On' = On /\ el \in On
<1>1. /\ section = "purge" /\ el # Null /\ prev' = el /\ el' = next[el]
      /\ UNCHANGED <<first, last, next, obj, live, new, mutex, section, victims, accounted>>
  BY DEF PurgeKeep, In, list
<1>2. Off' = Off /\ On' = On /\ Start' = Start /\ Lag' = Lag
  BY <1>1 DEF Off, On, Start, Lag
<1>3. el \in On /\ next[el] \in On \cup {Null}
  BY <1>1 DEF IInv, Cursor, Chained, Linked
<1>4. Typed' /\ Inside' /\ Owned'
  BY <1>1, <1>2, <1>3, Facts DEF IInv, Typed, Inside, Owned
<1>5. Chained' /\ Cursor' /\ Counted'
  BY <1>1, <1>2, <1>3 DEF IInv, Chained, Cursor, Counted
<1> QED
  BY <1>3, <1>2, <1>4, <1>5 DEF IInv

--------------------------------------------------------------------------------
(* A node is freed, and counted by the cleanup hook.                       *)

LEMMA FreeEl ==
  ASSUME IInv, section \in {"flush", "purge"}, el \in On, FreeNode(el),
         accounted' = accounted - 1, el' = next[el], first' \in Node \cup {Null}, last' \in Node \cup {Null},
         next' \in [Node -> Node \cup {Null}], \A n \in Off : next'[n] = next[n],
         UNCHANGED <<new, mutex, section, prev, victims>>
  PROVE  On' = On \ {el} /\ Off' = Off /\ Typed' /\ Inside' /\ Owned' /\ Counted'
<1>1. live' = live \ {el} /\ obj' = [obj EXCEPT ![el] = NoObject] /\ Off' = Off
  BY DEF FreeNode, Off
<1>2. On' = On \ {el} /\ el \in live /\ el \notin Off
  BY <1>1 DEF On
<1>3. \A c \in Caller : new[c] # el
  BY <1>2 DEF Off, IInv, Inside
<1>4. Typed'
  <2>1. IsFiniteSet(live')
    BY <1>1, FS_RemoveElement DEF IInv, Typed
  <2>2. new' \in [Caller -> live' \cup {Null}]
    BY <1>1, <1>3 DEF IInv, Typed
  <2>3. obj \in [Node -> Object \cup {NoObject}] /\ live \subseteq Node /\ accounted \in Int
    BY DEF IInv, Typed
  <2>4. obj' \in [Node -> Object \cup {NoObject}]
    BY <2>3, <1>1, Zenon
  <2>5. live' \subseteq Node
    BY <2>3, <1>1
  <2>6. accounted' \in Int
    BY <2>3, <1>1
  <2>7. {first', last', el', prev'} \subseteq Node \cup {Null} /\ mutex' \in Thread \cup {NoThread}
    BY <1>2 DEF IInv, Typed
  <2>8. next' \in [Node -> Node \cup {Null}] /\ victims' \subseteq Object
    BY DEF IInv, Typed
  <2> QED
    BY <2>1, <2>2, <2>4, <2>5, <2>6, <2>7, <2>8 DEF Typed
<1>5. Inside' /\ Owned'
  BY <1>1 DEF IInv, Inside, Owned
<1>6. Counted'
  <2>1. Cardinality(On') = Cardinality(On) - 1
    BY <1>2, Facts, FS_RemoveElement
  <2> QED
    BY <2>1, Facts DEF IInv, Counted, Lag
<1> QED
  BY <1>1, <1>2, <1>4, <1>5, <1>6

LEMMA FlushOneStep ==
  ASSUME IInv, NEW t \in Caller, FlushOne(t)
  PROVE  IInv'
<1>1. /\ section = "flush" /\ el # Null /\ accounted' = accounted - 1 /\ FreeNode(el) /\ el' = next[el]
      /\ UNCHANGED <<first, last, next, new, mutex, section, prev, victims>>
  BY DEF FlushOne, In
<1>2. Start = el /\ Start' = next[el] /\ el \in On
  BY <1>1, Facts DEF Start
<1>3. Linked(On \ {el}, next[el], last, next)
  BY <1>2, UnlinkFirst, Facts DEF IInv, Typed, Chained
<1>4. On' = On \ {el} /\ Typed' /\ Inside' /\ Owned' /\ Counted'
  BY <1>1, <1>2, FreeEl DEF IInv, Typed
<1>5. Chained' /\ Cursor'
  BY <1>1, <1>2, <1>3, <1>4 DEF Chained, Cursor
<1> QED
  BY <1>4, <1>5 DEF IInv

LEMMA PurgeHeadStep ==
  ASSUME IInv, NEW t \in Caller, PurgeHead(t)
  PROVE  IInv' /\ el \in On /\ el = first /\ On' = On \ {el}
<1>1. /\ section = "purge" /\ prev = Null /\ el # Null
      /\ accounted' = accounted - 1 /\ FreeNode(el) /\ el' = next[el] /\ first' = next[el]
      /\ last' = IF next[el] = Null THEN Null ELSE last
      /\ UNCHANGED <<next, new, mutex, section, prev, victims>>
  BY DEF PurgeHead, Drop, In
<1>2. Start = el /\ Start' = next[el] /\ el \in On /\ el = first
  BY <1>1 DEF Start, IInv, Cursor
<1>3. /\ Linked(On, el, last, next) /\ Linked(On \ {el}, next[el], last, next)
      /\ On \ {el} = {} <=> next[el] = Null
  BY <1>2, UnlinkFirst, Facts DEF IInv, Typed, Chained
<1>4. first' \in Node \cup {Null} /\ last' \in Node \cup {Null}
  BY <1>1, <1>2, Facts DEF IInv, Typed
<1>5. On' = On \ {el} /\ Typed' /\ Inside' /\ Owned' /\ Counted'
  BY <1>1, <1>2, <1>4, FreeEl DEF IInv, Typed
<1>6. Chained'
  <2>1. CASE next[el] = Null
    <3>1. On' = {} /\ Start' = Null /\ last' = Null
      BY <2>1, <1>1, <1>2, <1>3, <1>5
    <3> QED
      BY <3>1 DEF Chained, Linked
  <2>2. CASE next[el] # Null
    <3>1. last' = last /\ last \in Node
      BY <2>2, <1>1, <1>2, <1>3, Facts DEF Linked
    <3> QED
      BY <3>1, <2>2, <1>1, <1>2, <1>3, <1>5, NullAssumption DEF Chained
  <2> QED
    BY <2>1, <2>2
<1>7. Cursor'
  <2>1. el' \in On' \cup {Null}
    BY <1>6, <1>1, <1>2 DEF Chained, Linked
  <2> QED
    BY <2>1, <1>1 DEF Cursor
<1> QED
  BY <1>2, <1>5, <1>6, <1>7 DEF IInv

LEMMA PurgeInnerStep ==
  ASSUME IInv, NEW t \in Caller, PurgeInner(t)
  PROVE  IInv' /\ el \in On /\ prev \in On /\ el # prev /\ On' = On \ {el}
<1>1. /\ section = "purge" /\ prev # Null /\ el # Null
      /\ accounted' = accounted - 1 /\ FreeNode(el) /\ el' = next[el]
      /\ next' = [next EXCEPT ![prev] = next[el]]
      /\ last' = IF next[el] = Null THEN prev ELSE last
      /\ UNCHANGED <<first, new, mutex, section, prev, victims>>
  BY DEF PurgeInner, Drop, In
<1>2. Start = first /\ Start' = first /\ el \in On /\ prev \in On /\ next[prev] = el /\ next[prev] # Null
  BY <1>1 DEF Start, IInv, Cursor
<1>3. /\ el # prev /\ next[el] \in (On \ {el}) \cup {Null}
      /\ Linked(On \ {el}, first, last', next')
  <2>1. Linked(On, first, last, next)
    BY <1>2, Zenon DEF IInv, Chained
  <2>2. On \in SUBSET Node /\ next \in [Node -> Node \cup {Null}]
    BY Facts DEF IInv, Typed
  <2> QED
    <3>1. /\ prev \in On /\ next[prev] = el /\ el # Null
          /\ next' = [next EXCEPT ![prev] = next[el]]
          /\ last' = IF next[el] = Null THEN prev ELSE last
      BY <1>1, <1>2
    <3>2. el # prev /\ next[el] \in (On \ {el}) \cup {Null}
      BY <3>1, <2>1, <2>2, NextOf
    <3>3. Linked(On \ {el}, first, last', next')
      BY <3>1, <2>1, <2>2, UnlinkNext
    <3> QED
      BY <3>2, <3>3
<1>4. first' \in Node \cup {Null} /\ last' \in Node \cup {Null} /\ next' \in [Node -> Node \cup {Null}]
  BY <1>1, <1>2, Facts DEF IInv, Typed
<1>5. \A n \in Off : next'[n] = next[n]
  BY <1>1, <1>2 DEF On, IInv, Typed
<1>6. On' = On \ {el} /\ Typed' /\ Inside' /\ Owned' /\ Counted'
  BY <1>1, <1>2, <1>4, <1>5, FreeEl
<1>7. Chained'
  <2>1. Linked(On', Start', last', next')
    BY <1>1, <1>2, <1>3, <1>6
  <2>2. prev \in On' /\ last' \in On' /\ Null \notin On'
    BY <2>1, <1>2, <1>3, <1>6, Facts DEF Linked
  <2> QED
    BY <2>1, <2>2 DEF Chained
<1>8. Cursor'
  <2>1. next'[prev] = el'
    BY <1>1, <1>2, Facts DEF IInv, Typed
  <2> QED
    BY <2>1, <1>1, <1>2, <1>3, <1>6 DEF Cursor
<1> QED
  BY <1>2, <1>3, <1>6, <1>7, <1>8 DEF IInv

--------------------------------------------------------------------------------
LEMMA Inductive == Spec => []IInv
<1>1. IInv /\ [Next]_vars => IInv'
  <2> SUFFICES ASSUME IInv, [Next]_vars PROVE IInv'
    OBVIOUS
  <2>1. ASSUME NEW t \in Caller, CallerStep(t) PROVE IInv'
    <3>1. ASSUME NEW o \in Object, PutAlloc(t, o) PROVE IInv'
      BY <3>1, PutAllocStep
    <3>2. CASE PutLink(t) \/ PutHook(t) \/ PutSignal(t)
      BY <3>2, PutLinkStep, PutHookStep, PutSignalStep
    <3>3. CASE FlushStart(t)
      BY <3>3, StartStep
    <3>4. CASE FlushOne(t) \/ FlushEnd(t)
      BY <3>4, FlushOneStep, FlushEndStep
    <3>5. ASSUME NEW v \in SUBSET Object, PurgeStart(t, v) PROVE IInv'
      BY <3>5, StartStep
    <3>6. CASE PurgeKeep(t) \/ PurgeInner(t) \/ PurgeHead(t) \/ PurgeEnd(t)
      BY <3>6, PurgeKeepStep, PurgeInnerStep, PurgeHeadStep, PurgeEndStep
    <3> QED
      BY <2>1, <3>1, <3>2, <3>3, <3>4, <3>5, <3>6 DEF CallerStep
  <2>2. ASSUME NEW t \in Getter, GetPop(t) \/ GetHook(t) PROVE IInv'
    BY <2>2, GetPopStep, GetHookStep
  <2>3. ASSUME NEW t \in Sleepers, PeekObject(t) \/ Aborted(t) \/ Nothing(t) \/ Sleep(t) \/ SpuriousWake(t)
        PROVE  IInv'
    BY <2>3, Frame DEF PeekObject, Aborted, Nothing, Sleep, SpuriousWake
  <2>4. CASE Abort \/ Reset
    BY <2>4, Frame DEF Abort, Reset
  <2>5. CASE UNCHANGED vars
    BY <2>5, Frame DEF vars, list
  <2> QED
    BY <2>1, <2>2, <2>3, <2>4, <2>5 DEF Next, Sleepers
<1> QED
  BY <1>1, Initially, PTL DEF Spec

\* Between two calls the nodes on the list are those no caller has yet to link.
LEMMA Idle ==
  ASSUME IInv, Free
  PROVE  On = Queued /\ Start = first /\ Lag = 0
<1>1. section = "none"
  BY DEF IInv, Inside, Free
<1>2. Range(new) = {new[t] : t \in Caller}
  BY DEF IInv, Typed, Range
<1>3. Off = {new[t] : t \in Caller}
  BY <1>1 DEF Off
<1> QED
  BY <1>1, <1>2, <1>3 DEF On, Queued, Start, Lag

\* What put has linked is on the list.
LEMMA PutOnList ==
  ASSUME IInv, section \in {"put", "signal"}
  PROVE  On # {}
<1>1. mutex \in Caller /\ new[mutex] # Null /\ new[mutex] \in live
  BY Facts DEF IInv, Inside
<1>2. new[mutex] \notin Off
  BY <1>1 DEF Off, IInv, Owned
<1> QED
  BY <1>1, <1>2 DEF On

\* groove_queue_put, get, flush and purge keep the singly linked list whole:
\* from first it leads through every node that is allocated and linked, to last.
THEOREM ListSafe == Spec => []WellLinked
<1>1. IInv => WellLinked
  <2> SUFFICES ASSUME IInv PROVE WellLinked
    OBVIOUS
  <2>1. accounted \in Nat
    <3>1. section = "put" => On # {}
      BY PutOnList
    <3>2. section = "put" => Cardinality(On) # 0
      BY <3>1, Facts, FS_EmptySet
    <3> QED
      BY <3>2, Facts DEF IInv, Counted, Lag
  <2>2. TypeOK
    BY <2>1 DEF IInv, Typed, TypeOK
  <2>3. Free => Linked(Queued, first, last, next) /\ (last = Null <=> Queued = {})
    BY Idle DEF IInv, Chained, Inside, Free
  <2> QED
    BY <2>2, <2>3 DEF WellLinked
<1> QED
  BY <1>1, Inductive, PTL

\* The put, get and cleanup hooks of a queue count each node on it once.
THEOREM CountSafe == Spec => []HooksBalanced
<1>1. IInv => HooksBalanced
  BY Idle, Facts DEF IInv, Counted, HooksBalanced
<1> QED
  BY <1>1, Inductive, PTL

--------------------------------------------------------------------------------
(* The sequence that a chain of nodes is.                                  *)

\* From n, nxt leads through the nodes of q, which are those of S, each once.
Leads(q, n, nxt, S) ==
  /\ q \in Seq(Node) /\ LeadsThrough(q, n, nxt)
  /\ \A i, j \in DOMAIN q : q[i] = q[j] => i = j
  /\ \A i \in DOMAIN q : q[i] \in S
  /\ Len(q) = Cardinality(S)

\* The same without Len and DOMAIN.
LEMMA LeadsIs ==
  ASSUME NEW q, NEW n, NEW nxt, NEW S, Leads(q, n, nxt, S)
  PROVE  \E z \in Nat : /\ z = Len(q) /\ z = Cardinality(S) /\ q \in [1 .. z -> Node]
                        /\ z = 0 <=> n = Null
                        /\ z # 0 => q[1] = n
                        /\ \A k \in 1 .. z : nxt[q[k]] = IF k = z THEN Null ELSE q[k + 1]
                        /\ \A i, j \in 1 .. z : q[i] = q[j] => i = j
                        /\ \A i \in 1 .. z : q[i] \in S
<1>1. q \in Seq(Node)
  BY DEF Leads
<1>2. PICK z \in Nat : z = Len(q)
  BY <1>1
<1>3. DOMAIN q = 1 .. z /\ q \in [1 .. z -> Node] /\ (q = <<>> <=> z = 0)
  BY <1>1, <1>2, LenProperties, EmptySeq
<1>4. (z = 0 <=> n = Null) /\ (z # 0 => q[1] = n)
  BY <1>3 DEF Leads, LeadsThrough
<1>5. \A k \in 1 .. z : nxt[q[k]] = IF k = z THEN Null ELSE q[k + 1]
  BY <1>2, <1>3 DEF Leads, LeadsThrough
<1> QED
  BY <1>2, <1>3, <1>4, <1>5 DEF Leads

LEMMA LeadsBack ==
  ASSUME NEW q \in Seq(Node), NEW n, NEW nxt, NEW S, NEW z \in Nat, z = Len(q), z = Cardinality(S),
         z = 0 <=> n = Null, z # 0 => q[1] = n,
         \A k \in 1 .. z : nxt[q[k]] = IF k = z THEN Null ELSE q[k + 1],
         \A i, j \in 1 .. z : q[i] = q[j] => i = j,
         \A i \in 1 .. z : q[i] \in S
  PROVE  Leads(q, n, nxt, S)
<1>1. DOMAIN q = 1 .. z /\ (q = <<>> <=> z = 0)
  BY LenProperties, EmptySeq
<1>2. LeadsThrough(q, n, nxt)
  BY <1>1 DEF LeadsThrough
<1> QED
  BY <1>1, <1>2 DEF Leads

\* A chain begins as any other from the same node does.
LEMMA ChainPrefix ==
  ASSUME NEW n, NEW nxt, NEW q \in Seq(Node), NEW r \in Seq(Node),
         LeadsThrough(q, n, nxt), LeadsThrough(r, n, nxt)
  PROVE  Len(q) <= Len(r) /\ \A i \in 1 .. Len(q) : q[i] = r[i]
<1>1. PICK a \in Nat, b \in Nat : a = Len(q) /\ b = Len(r)
  OBVIOUS
<1>2. DOMAIN q = 1 .. a /\ DOMAIN r = 1 .. b /\ (q = <<>> <=> a = 0) /\ (r = <<>> <=> b = 0)
  BY <1>1, LenProperties, EmptySeq
<1>3. \A i \in 1 .. a : q[i] \in Node
  BY <1>1, ElementOfSeq
<1>4. /\ a = 0 <=> n = Null
      /\ b = 0 <=> n = Null
      /\ a # 0 => q[1] = n
      /\ b # 0 => r[1] = n
  BY <1>2 DEF LeadsThrough
<1>5. /\ \A k \in 1 .. a : nxt[q[k]] = IF k = a THEN Null ELSE q[k + 1]
      /\ \A k \in 1 .. b : nxt[r[k]] = IF k = b THEN Null ELSE r[k + 1]
  BY <1>1, <1>2 DEF LeadsThrough
<1> DEFINE P == {i \in Nat : i + 1 \in 1 .. a => i + 1 \in 1 .. b /\ q[i + 1] = r[i + 1]}
<1>6. 0 \in P
  BY <1>4
<1>7. ASSUME NEW i \in P PROVE i + 1 \in P
  <2>1. SUFFICES ASSUME (i + 1) + 1 \in 1 .. a PROVE (i + 1) + 1 \in 1 .. b /\ q[(i + 1) + 1] = r[(i + 1) + 1]
    OBVIOUS
  <2>2. i + 1 \in 1 .. a /\ i + 1 # a
    BY <2>1, <1>7
  <2>3. i + 1 \in 1 .. b /\ q[i + 1] = r[i + 1]
    BY <2>2, <1>7
  <2>4. nxt[q[i + 1]] = q[(i + 1) + 1] /\ q[(i + 1) + 1] # Null
    BY <2>1, <2>2, <1>3, <1>5, NullAssumption
  <2>5. i + 1 # b
    BY <2>3, <2>4, <1>5
  <2> QED
    BY <2>3, <2>4, <2>5, <1>5
<1>8. P = Nat
  <2>1. P \in SUBSET Nat
    OBVIOUS
  <2> HIDE DEF P
  <2> QED
    BY <1>6, <1>7, <2>1, NatInd
<1>9. \A k \in 1 .. a : k \in 1 .. b /\ q[k] = r[k]
  <2> SUFFICES ASSUME NEW k \in 1 .. a PROVE k \in 1 .. b /\ q[k] = r[k]
    OBVIOUS
  <2>1. k - 1 \in Nat /\ (k - 1) + 1 = k
    OBVIOUS
  <2>2. k - 1 \in P
    <3> HIDE DEF P
    <3> QED
      BY <1>8, <2>1
  <2> QED
    BY <2>1, <2>2
<1>10. a <= b
  BY <1>9
<1> QED
  BY <1>1, <1>9, <1>10

LEMMA ChainUnique ==
  ASSUME NEW n, NEW nxt, NEW q \in Seq(Node), NEW r \in Seq(Node),
         LeadsThrough(q, n, nxt), LeadsThrough(r, n, nxt)
  PROVE  q = r
<1>1. PICK a \in Nat, b \in Nat : a = Len(q) /\ b = Len(r)
  OBVIOUS
<1>2. a <= b /\ b <= a /\ \A i \in 1 .. a : q[i] = r[i]
  BY <1>1, ChainPrefix
<1>3. a = b
  BY <1>2
<1> QED
  BY <1>1, <1>2, <1>3, SeqEqual

\* The chain that the model chooses is the one there is.
LEMMA ChainIs ==
  ASSUME NEW q, NEW n, NEW nxt, NEW S \in SUBSET Node, Leads(q, n, nxt, S)
  PROVE  (CHOOSE r \in Lists : LeadsThrough(r, n, nxt)) = q
<1>1. PICK z \in Nat : z = Cardinality(S) /\ q \in [1 .. z -> Node]
  BY LeadsIs
<1>2. MaxLen \in Nat /\ z <= MaxLen
  BY <1>1, NodeAssumption, FS_Subset, FS_CardinalityType DEF MaxLen
<1>3. q \in Lists
  BY <1>1, <1>2 DEF Lists
<1>4. q \in Seq(Node) /\ LeadsThrough(q, n, nxt)
  BY DEF Leads
<1>5. \A r \in Lists : r \in Seq(Node)
  <2> SUFFICES ASSUME NEW k \in 0 .. MaxLen, NEW r \in [1 .. k -> Node] PROVE r \in Seq(Node)
    BY DEF Lists
  <2> QED
    BY <1>2
<1>6. \A r \in Lists : LeadsThrough(r, n, nxt) => r = q
  BY <1>4, <1>5, ChainUnique
<1> HIDE DEF Lists
<1> QED
  BY <1>3, <1>4, <1>6

--------------------------------------------------------------------------------
(* What the three ways to change a list do to its chain.                   *)

\* Nodes off the chain do not matter to it.
LEMMA LeadsSame ==
  ASSUME NEW q, NEW n, NEW nxt, NEW other, NEW S, Leads(q, n, nxt, S), \A m \in S : other[m] = nxt[m]
  PROVE  Leads(q, n, other, S)
<1>1. PICK z \in Nat :
        /\ z = Len(q) /\ z = Cardinality(S) /\ (z = 0 <=> n = Null) /\ (z # 0 => q[1] = n)
        /\ \A k \in 1 .. z : nxt[q[k]] = IF k = z THEN Null ELSE q[k + 1]
        /\ \A i, j \in 1 .. z : q[i] = q[j] => i = j
        /\ \A i \in 1 .. z : q[i] \in S
  BY LeadsIs
<1>2. q \in Seq(Node)
  BY DEF Leads
<1>3. \A k \in 1 .. z : other[q[k]] = IF k = z THEN Null ELSE q[k + 1]
  BY <1>1
<1> QED
  BY <1>1, <1>2, <1>3, LeadsBack

\* The last of the chain is the node that leads nowhere.
LEMMA LeadsLast ==
  ASSUME NEW q, NEW n, NEW end, NEW nxt, NEW S, Leads(q, n, nxt, S), Null \notin S, S # {},
         Linked(S, n, end, nxt)
  PROVE  Len(q) \in Nat \ {0} /\ q[Len(q)] = end
<1>1. PICK z \in Nat :
        /\ z = Len(q) /\ (z = 0 <=> n = Null)
        /\ \A k \in 1 .. z : nxt[q[k]] = IF k = z THEN Null ELSE q[k + 1]
        /\ \A i \in 1 .. z : q[i] \in S
  BY LeadsIs
<1>2. z # 0 /\ z \in 1 .. z
  BY <1>1 DEF Linked
<1>3. q[z] \in S /\ nxt[q[z]] = Null
  BY <1>1, <1>2
<1>4. q[z] = end
  BY <1>3 DEF Linked
<1> QED
  BY <1>1, <1>2, <1>4

LEMMA LeadsAppend ==
  ASSUME NEW q, NEW n, NEW nxt, NEW S \in SUBSET Node, Leads(q, n, nxt, S), IsFiniteSet(S),
         NEW m \in Node \ S, NEW after, after[m] = Null,
         \A i \in S : after[i] = IF i = q[Len(q)] THEN m ELSE nxt[i],
         NEW start, start = IF q = <<>> THEN m ELSE n
  PROVE  Leads(Append(q, m), start, after, S \cup {m})
<1>1. PICK z \in Nat :
        /\ z = Len(q) /\ z = Cardinality(S) /\ (z = 0 <=> n = Null) /\ (z # 0 => q[1] = n)
        /\ \A k \in 1 .. z : nxt[q[k]] = IF k = z THEN Null ELSE q[k + 1]
        /\ \A i, j \in 1 .. z : q[i] = q[j] => i = j
        /\ \A i \in 1 .. z : q[i] \in S
  BY LeadsIs
<1>2. q \in Seq(Node) /\ (q = <<>> <=> z = 0)
  BY <1>1, EmptySeq DEF Leads
<1> DEFINE r == Append(q, m)
           y == z + 1
<1>3. r \in Seq(Node) /\ Len(r) = y /\ r[y] = m /\ \A i \in 1 .. z : r[i] = q[i]
  <2>1. /\ r \in Seq(Node) /\ Len(r) = Len(q) + 1 /\ r[Len(q) + 1] = m
        /\ \A i \in 1 .. Len(q) : r[i] = q[i]
    BY <1>2, AppendProperties
  <2> HIDE DEF r
  <2> QED
    BY <1>1, <2>1
<1>4. y \in Nat /\ y # 0 /\ y = Cardinality(S \cup {m})
  <2>1. Cardinality(S \cup {m}) = Cardinality(S) + 1
    BY FS_AddElement
  <2> QED
    BY <1>1, <2>1
<1>5. \A i \in 1 .. y : i = y \/ i \in 1 .. z
  BY <1>1
<1>6. start # Null /\ r[1] = start
  BY <1>1, <1>2, <1>3, NullAssumption
<1>7. ASSUME NEW k \in 1 .. y PROVE after[r[k]] = IF k = y THEN Null ELSE r[k + 1]
  <2>1. CASE k = y
    BY <2>1, <1>3
  <2>2. CASE k \in 1 .. z
    <3>1. r[k] = q[k] /\ q[k] \in S /\ k # y
      BY <2>2, <1>1, <1>3
    <3>2. CASE k = z
      BY <3>1, <3>2, <1>1, <1>3
    <3>3. CASE k # z
      <4>1. k + 1 \in 1 .. z /\ q[k] # q[z] /\ z \in 1 .. z
        BY <2>2, <3>3, <1>1
      <4> QED
        BY <4>1, <3>1, <3>3, <2>2, <1>1, <1>3
    <3> QED
      BY <3>2, <3>3
  <2> QED
    BY <1>5, <2>1, <2>2
<1>8. \A i \in 1 .. y : r[i] \in S \cup {m}
  BY <1>1, <1>3, <1>5
<1>9. \A i, j \in 1 .. y : r[i] = r[j] => i = j
  <2>1. \A i \in 1 .. z : r[i] \in S /\ r[i] # r[y]
    BY <1>1, <1>3
  <2> QED
    BY <2>1, <1>1, <1>3, <1>5
<1> HIDE DEF r, y
<1>10. Leads(r, start, after, S \cup {m})
  BY <1>3, <1>4, <1>6, <1>7, <1>8, <1>9, NullAssumption, LeadsBack
<1> QED
  BY <1>10 DEF r

\* The start, or the node before it, is led past the node at place k.
LedPast(q, k, n, nxt, S, start, after) ==
  /\ k \in 1 .. Len(q)
  /\ start = IF k = 1 THEN nxt[n] ELSE n
  /\ \A i \in S : after[i] = IF k # 1 /\ i = q[k - 1] THEN nxt[q[k]] ELSE nxt[i]

LEMMA LeadsSkip ==
  ASSUME NEW q, NEW n, NEW nxt, NEW S, S \subseteq Node, Leads(q, n, nxt, S), IsFiniteSet(S),
         NEW k, NEW start, NEW after, LedPast(q, k, n, nxt, S, start, after)
  PROVE  Leads(Skip(q, k), start, after, S \ {q[k]})
<1>0. /\ k \in 1 .. Len(q)
      /\ start = IF k = 1 THEN nxt[n] ELSE n
      /\ \A i \in S : after[i] = IF k # 1 /\ i = q[k - 1] THEN nxt[q[k]] ELSE nxt[i]
  BY DEF LedPast
<1>1. PICK z \in Nat :
        /\ z = Len(q) /\ z = Cardinality(S) /\ (z = 0 <=> n = Null) /\ (z # 0 => q[1] = n)
        /\ \A i \in 1 .. z : nxt[q[i]] = IF i = z THEN Null ELSE q[i + 1]
        /\ \A i, j \in 1 .. z : q[i] = q[j] => i = j
        /\ \A i \in 1 .. z : q[i] \in S
  BY LeadsIs
<1>2. q \in Seq(Node) /\ k \in 1 .. z
  BY <1>0, <1>1 DEF Leads
<1> DEFINE r == Skip(q, k)
           y == z - 1
<1>3. r \in Seq(Node) /\ Len(r) = y /\ \A i \in 1 .. y : r[i] = IF i < k THEN q[i] ELSE q[i + 1]
  <2>1. /\ r \in Seq(Node) /\ Len(r) = Len(q) - 1
        /\ \A i \in 1 .. Len(q) - 1 : r[i] = IF i < k THEN q[i] ELSE q[i + 1]
    BY <1>0, <1>2, SkipIs
  <2> HIDE DEF r
  <2> QED
    BY <1>1, <2>1
<1>4. y \in Nat /\ y = Cardinality(S \ {q[k]})
  <2>1. q[k] \in S /\ z # 0
    BY <1>1, <1>2
  <2>2. Cardinality(S \ {q[k]}) = Cardinality(S) - 1
    BY <2>1, FS_RemoveElement
  <2> QED
    BY <1>1, <2>1, <2>2
<1> HIDE DEF r
<1>5. \A i \in 1 .. z : q[i] # Null
  BY <1>1, NullAssumption
<1>6. (y = 0 <=> start = Null) /\ (y # 0 => r[1] = start)
  <2>1. CASE k = 1
    <3>1. start = nxt[q[1]] /\ z # 0
      BY <2>1, <1>0, <1>1, <1>2
    <3>2. start = IF z = 1 THEN Null ELSE q[2]
      BY <3>1, <1>1, <1>2
    <3> QED
      BY <3>2, <2>1, <1>1, <1>2, <1>3, <1>5
  <2>2. CASE k # 1
    BY <2>2, <1>0, <1>1, <1>2, <1>3, <1>5
  <2> QED
    BY <2>1, <2>2
<1>7. ASSUME NEW i \in 1 .. y PROVE after[r[i]] = IF i = y THEN Null ELSE r[i + 1]
  <2>1. CASE k # 1 /\ i = k - 1
    <3>1. r[i] = q[k - 1] /\ q[k - 1] \in S
      BY <2>1, <1>1, <1>2, <1>3
    <3>2. after[r[i]] = nxt[q[k]]
      BY <2>1, <3>1, <1>0
    <3>3. i = y <=> k = z
      BY <2>1, <1>0, <1>1, <1>2
    <3>4. i # y => r[i + 1] = q[k + 1]
      BY <2>1, <1>1, <1>2, <1>3
    <3> QED
      BY <3>2, <3>3, <3>4, <1>1, <1>2
  <2>2. CASE ~(k # 1 /\ i = k - 1) /\ i < k
    <3>1. r[i] = q[i] /\ q[i] \in S /\ i \in 1 .. z /\ i # y /\ i # z
      BY <1>0, <2>2, <1>1, <1>2, <1>3
    <3>2. i + 1 < k /\ r[i + 1] = q[i + 1]
      BY <2>2, <3>1, <1>1, <1>2, <1>3
    <3>3. k # 1 => q[i] # q[k - 1]
      <4>1. k # 1 => k - 1 \in 1 .. z /\ i # k - 1
        BY <2>2, <1>2
      <4> QED
        BY <4>1, <3>1, <1>1
    <3> QED
      BY <3>1, <3>2, <3>3, <1>0, <1>1
  <2>3. CASE ~(i < k)
    <3>1. r[i] = q[i + 1] /\ q[i + 1] \in S /\ i + 1 \in 1 .. z
      BY <2>3, <1>1, <1>2, <1>3
    <3>2. k # 1 => q[i + 1] # q[k - 1]
      BY <2>3, <3>1, <1>1, <1>2
    <3>3. i = y <=> i + 1 = z
      BY <1>1
    <3>4. i # y => r[i + 1] = q[(i + 1) + 1]
      BY <2>3, <1>1, <1>2, <1>3
    <3> QED
      BY <3>1, <3>2, <3>3, <3>4, <1>0, <1>1
  <2> QED
    BY <2>1, <2>2, <2>3
<1>8. ASSUME NEW i \in 1 .. y, NEW j \in 1 .. y, r[i] = r[j] PROVE i = j
  <2>1. i \in 1 .. z /\ i + 1 \in 1 .. z /\ j \in 1 .. z /\ j + 1 \in 1 .. z
    BY <1>1
  <2>2. CASE i < k /\ j < k
    BY <2>1, <2>2, <1>1, <1>3, <1>8
  <2>3. CASE i < k /\ ~(j < k)
    <3>1. q[i] = q[j + 1]
      BY <2>3, <1>3, <1>8
    <3>2. i = j + 1
      BY <2>1, <3>1, <1>1
    <3> QED
      BY <1>0, <3>2, <2>3, <2>1
  <2>4. CASE ~(i < k) /\ j < k
    <3>1. q[i + 1] = q[j]
      BY <2>4, <1>3, <1>8
    <3>2. i + 1 = j
      BY <2>1, <3>1, <1>1
    <3> QED
      BY <1>0, <3>2, <2>4, <2>1
  <2>5. CASE ~(i < k) /\ ~(j < k)
    <3>1. q[i + 1] = q[j + 1]
      BY <2>5, <1>3, <1>8
    <3>2. i + 1 = j + 1
      BY <2>1, <3>1, <1>1
    <3> QED
      BY <3>2, <2>1
  <2> QED
    BY <2>2, <2>3, <2>4, <2>5
<1>9. ASSUME NEW i \in 1 .. y PROVE r[i] \in S \ {q[k]}
  <2>1. i \in 1 .. z /\ i + 1 \in 1 .. z
    BY <1>1
  <2>2. \A j \in 1 .. z : q[j] \in S /\ (j # k => q[j] # q[k])
    BY <1>1, <1>2
  <2>3. r[i] = IF i < k THEN q[i] ELSE q[i + 1]
    BY <1>3
  <2>4. CASE i < k
    <3>1. i # k /\ r[i] = q[i]
      BY <2>1, <2>3, <2>4, <1>2
    <3> QED
      BY <3>1, <2>1, <2>2
  <2>5. CASE ~(i < k)
    <3>1. i + 1 # k /\ r[i] = q[i + 1]
      BY <2>1, <2>3, <2>5, <1>2
    <3> QED
      BY <3>1, <2>1, <2>2
  <2> QED
    BY <2>4, <2>5
<1> HIDE DEF y
<1>10. Leads(r, start, after, S \ {q[k]})
  BY <1>3, <1>4, <1>6, <1>7, <1>8, <1>9, LeadsBack
<1> QED
  BY <1>10 DEF r

--------------------------------------------------------------------------------
(* What is on a chain.                                                     *)

LEMMA ImageSkip ==
  ASSUME NEW q \in Seq(Node), NEW k \in 1 .. Len(q), NEW T, NEW o,
         NEW z \in Nat, z = Len(q), \A i \in 1 .. z : o[q[i]] \in T
  PROVE  Image(Skip(q, k), o) = Skip(Image(q, o), k)
<1> DEFINE r == Skip(q, k)
           s == Image(q, o)
           a == Image(r, o)
           b == Skip(s, k)
<1>1. k \in 1 .. z /\ z - 1 \in Nat
  OBVIOUS
<1>2. /\ r \in Seq(Node) /\ Len(r) = Len(q) - 1
      /\ \A j \in 1 .. Len(q) - 1 : r[j] = IF j < k THEN q[j] ELSE q[j + 1]
  BY SkipIs
<1>3. s \in Seq(T) /\ Len(s) = z /\ \A i \in 1 .. z : s[i] = o[q[i]]
  <2>1. DOMAIN q = 1 .. z
    BY LenProperties
  <2> QED
    BY <2>1 DEF Image
<1> HIDE DEF s
<1>4. /\ b \in Seq(T) /\ Len(b) = Len(s) - 1
      /\ \A j \in 1 .. Len(s) - 1 : b[j] = IF j < k THEN s[j] ELSE s[j + 1]
  BY <1>3, SkipIs
<1> HIDE DEF r, b
<1>5. \A j \in 1 .. z - 1 : j \in 1 .. z /\ j + 1 \in 1 .. z
  BY <1>1
<1>6. \A j \in 1 .. z - 1 : o[r[j]] \in T /\ o[r[j]] = b[j]
  BY <1>1, <1>2, <1>3, <1>4, <1>5
<1>7. Len(r) = z - 1 /\ Len(b) = z - 1
  BY <1>1, <1>2, <1>3, <1>4
<1>8. a \in Seq(T) /\ Len(a) = z - 1 /\ \A j \in 1 .. z - 1 : a[j] = o[r[j]]
  <2>1. DOMAIN r = 1 .. z - 1
    BY <1>2, <1>7, LenProperties
  <2> QED
    BY <1>1, <1>6, <2>1 DEF Image
<1> HIDE DEF a
<1>9. Len(a) = Len(b) /\ \A j \in 1 .. Len(a) : a[j] = b[j]
  BY <1>6, <1>7, <1>8
<1>10. a = b
  BY <1>4, <1>8, <1>9, SeqEqual
<1> QED
  BY <1>10 DEF a, b, r, s

--------------------------------------------------------------------------------
(* What the state stands for.                                              *)

\* The queue of the contract, when s is on the list.
Stands(s, sec, e, v, o) ==
  CASE sec = "flush"              -> <<>>
    [] sec = "purge"              -> Rest(v)[s]
    [] sec \in {"put", "signal"}  -> Front(s)
    [] sec = "got"                -> <<o[e]>> \o s
    [] OTHER                      -> s

LEMMA Now ==
  ASSUME NEW q, Leads(q, first, next, On), On \subseteq Node
  PROVE  AbstractQueue = Stands(Image(q, obj), section, el, victims, obj)
<1>1. Chain(first) = q /\ q \in Seq(Node)
  BY ChainIs DEF Chain, Leads
<1>2. Objects[Chain(first)] = Image(q, obj)
  BY <1>1 DEF Objects, Image
<1> QED
  BY <1>2 DEF AbstractQueue, Stands

LEMMA Then ==
  ASSUME NEW q, Leads(q, first', next', On'), On' \subseteq Node
  PROVE  AbstractQueue' = Stands(Image(q, obj'), section', el', victims', obj')
<1>1. Chain(first)' = q /\ q \in Seq(Node)
  BY ChainIs DEF Chain, Leads
<1>2. Objects[Chain(first)]' = Image(q, obj')
  BY <1>1 DEF Objects, Image
<1> QED
  BY <1>2 DEF AbstractQueue, Stands

\* The cursor of purge is at e, behind p, and nothing it has passed is a victim.
Passed(q, e, p, o, v) ==
  \E k \in 1 .. Len(q) + 1 :
    /\ e = IF k = Len(q) + 1 THEN Null ELSE q[k]
    /\ p = IF k = 1 THEN Null ELSE q[k - 1]
    /\ \A j \in 1 .. k - 1 : o[q[j]] \notin v

RefInv ==
  /\ section # "flush" => \E q : /\ Leads(q, first, next, On)
                                 /\ section = "purge" => Passed(q, el, prev, obj, victims)
  /\ \A n \in live : obj[n] \in Object
  /\ waiting \in [Sleepers -> {"no", "asleep", "woken"}]
  /\ section = "got" => mutex \in Getter /\ ~abort_request /\ waiting[mutex] \in {"no", "woken"}

\* A step of the contract, or none.
Answers ==
  \/ Contract!Step
  \/ UNCHANGED <<AbstractQueue, abort_request, waiting, ret>>

LEMMA Answered == Answers => [Contract!Next]_(Contract!vars)
<1> SUFFICES ASSUME Answers PROVE [Contract!Next]_(Contract!vars)
  OBVIOUS
<1>1. CASE Contract!Step
  BY <1>1 DEF Contract!Next, Use
<1>2. CASE UNCHANGED <<AbstractQueue, abort_request, waiting, ret>>
  BY <1>2 DEF Contract!vars, Use, RoleOf
<1> QED
  BY <1>1, <1>2 DEF Answers

LEMMA Started == Init => Contract!Init /\ RefInv
<1> SUFFICES ASSUME Init PROVE Contract!Init /\ RefInv
  OBVIOUS
<1>1. On = {} /\ first = Null /\ section = "none"
  BY DEF Init, On
<1>2. Leads(<<>>, first, next, On)
  <2>1. <<>> \in Seq(Node) /\ Len(<<>>) = 0 /\ Cardinality({}) = 0 /\ DOMAIN <<>> = {}
    BY FS_EmptySet
  <2> QED
    BY <1>1, <2>1 DEF Leads, LeadsThrough
<1>3. AbstractQueue = <<>>
  <2>1. Image(<<>>, obj) = <<>>
    BY DEF Image
  <2> QED
    BY <1>1, <1>2, <2>1, Now DEF Stands
<1>4. Contract!Init
  BY <1>3 DEF Init, Contract!Init, Use, RoleOf, Contract!Getters
<1>5. RefInv
  BY <1>1, <1>2 DEF Init, RefInv
<1> QED
  BY <1>4, <1>5

--------------------------------------------------------------------------------
(* What every step of the list is to the contract.                         *)

\* What the steps below need of the chain.
LEMMA ChainFacts ==
  ASSUME IInv, RefInv, NEW q, Leads(q, first, next, On)
  PROVE  \E z \in Nat :
           /\ z = Len(q) /\ z = Cardinality(On) /\ (z = 0 <=> first = Null) /\ (z # 0 => q[1] = first)
           /\ Image(q, obj) \in Seq(Object) /\ Len(Image(q, obj)) = z
           /\ \A k \in 1 .. z : q[k] \in On /\ obj[q[k]] \in Object /\ Image(q, obj)[k] = obj[q[k]]
<1>1. PICK z \in Nat : /\ z = Len(q) /\ z = Cardinality(On) /\ (z = 0 <=> first = Null) /\ (z # 0 => q[1] = first)
                       /\ \A i \in 1 .. z : q[i] \in On
  BY LeadsIs
<1>2. q \in Seq(Node)
  BY DEF Leads
<1>3. \A k \in 1 .. z : q[k] \in On /\ obj[q[k]] \in Object
  BY <1>1 DEF On, RefInv
<1>4. DOMAIN q = 1 .. z
  BY <1>1, <1>2, LenProperties
<1>5. Image(q, obj) \in Seq(Object) /\ Len(Image(q, obj)) = z
      /\ \A k \in 1 .. z : Image(q, obj)[k] = obj[q[k]]
  BY <1>1, <1>3, <1>4 DEF Image
<1> QED
  BY <1>1, <1>3, <1>5

\* The chain is let alone.
LEMMA SameChain ==
  ASSUME IInv, On' = On, NEW q, Leads(q, first, next, On), first' = first,
         \A m \in On : next'[m] = next[m] /\ obj'[m] = obj[m]
  PROVE  Leads(q, first', next', On') /\ Image(q, obj') = Image(q, obj)
<1>1. q \in Seq(Node) /\ \A i \in DOMAIN q : q[i] \in On
  BY DEF Leads
<1>2. Image(q, obj') = Image(q, obj)
  BY <1>1 DEF Image
<1>3. Leads(q, first, next', On)
  BY LeadsSame
<1> QED
  BY <1>2, <1>3

\* Nothing but the threads' waiting, results and the abort flag changes.
LEMMA Outside ==
  ASSUME IInv, RefInv, UNCHANGED <<list, new, mutex, section, el, prev, victims, accounted>>,
         waiting' \in [Sleepers -> {"no", "asleep", "woken"}],
         section = "got" => ~abort_request' /\ waiting'[mutex] \in {"no", "woken"}
  PROVE  RefInv' /\ AbstractQueue' = AbstractQueue
<1>1. On' = On
  BY Frame
<1>2. AbstractQueue' = AbstractQueue
  BY DEF AbstractQueue, Chain, Objects, Rest, list
<1>3. RefInv'
  BY <1>1 DEF RefInv, list
<1> QED
  BY <1>2, <1>3

\* While nobody is inside, the list is the queue.
LEMMA IdleQueue ==
  ASSUME IInv, RefInv, Free
  PROVE  section = "none" /\ (AbstractQueue = <<>> <=> first = Null)
<1>1. section = "none"
  BY DEF Free, IInv, Inside
<1>2. PICK q : Leads(q, first, next, On)
  BY <1>1 DEF RefInv
<1>3. AbstractQueue = Image(q, obj)
  BY <1>1, <1>2, Now, Facts DEF Stands
<1>4. PICK z \in Nat : /\ z = 0 <=> first = Null
                       /\ Image(q, obj) \in Seq(Object) /\ Len(Image(q, obj)) = z
  BY <1>2, ChainFacts
<1> QED
  BY <1>1, <1>3, <1>4, EmptySeq

\* The signal of the contract is the same one.
LEMMA SameSignal ==
  ASSUME RefInv, Signal
  PROVE  Contract!Signal /\ waiting' \in [Sleepers -> {"no", "asleep", "woken"}]
  BY DEF RefInv, Signal, Asleep, Contract!Signal, Contract!Asleep

LEMMA LoopSteps ==
  ASSUME IInv, RefInv, NEW t \in Sleepers, Aborted(t) \/ Nothing(t) \/ Sleep(t)
  PROVE  RefInv' /\ Answers
<1>1. Free /\ UNCHANGED <<list, new, mutex, section, el, prev, victims, accounted>>
  BY DEF Aborted, Nothing, Sleep, InLoop
<1>2. section = "none" /\ (AbstractQueue = <<>> <=> first = Null)
  BY <1>1, IdleQueue
<1>3. waiting' \in [Sleepers -> {"no", "asleep", "woken"}]
  BY DEF RefInv, Aborted, Nothing, Sleep, Returns
<1>4. RefInv' /\ AbstractQueue' = AbstractQueue
  BY <1>1, <1>2, <1>3, Outside
<1>5. CASE t \in Getter
  <2>1. Contract!InLoop(t, "get")
    BY <1>5, RolesAssumption DEF Aborted, Nothing, Sleep, InLoop, Contract!InLoop, RoleOf
  <2>2. [RoleOf EXCEPT ![t] = "get"] = RoleOf /\ RoleOf' = RoleOf
    BY <1>5 DEF RoleOf
  <2>3. Contract!Get(t)
    BY <1>2, <1>4, <2>1, <2>2 DEF Aborted, Nothing, Sleep, InLoop, Returns,
       Contract!Get, Contract!Aborted, Contract!Nothing, Contract!Sleep, Contract!Returns
  <2> QED
    BY <1>4, <1>5, <2>3 DEF Answers, Contract!Step, Contract!Getters, Use
<1>6. CASE t \in Peeker
  <2>0. t \notin Getter
    BY <1>6, RolesAssumption
  <2>1. Contract!InLoop(t, "peek")
    BY <1>6, <2>0 DEF Aborted, Nothing, Sleep, InLoop, Contract!InLoop, RoleOf
  <2>2. [RoleOf EXCEPT ![t] = "peek"] = RoleOf /\ RoleOf' = RoleOf
    BY <1>6, <2>0 DEF RoleOf
  <2>3. Contract!Peek(t)
    BY <1>2, <1>4, <2>1, <2>2 DEF Aborted, Nothing, Sleep, InLoop, Returns,
       Contract!Peek, Contract!Aborted, Contract!Nothing, Contract!Sleep, Contract!Returns
  <2> QED
    BY <1>4, <1>6, <2>3 DEF Answers, Contract!Step, Contract!Peekers, Use
<1> QED
  BY <1>5, <1>6 DEF Sleepers

LEMMA PeekSteps ==
  ASSUME IInv, RefInv, NEW t \in Peeker, PeekObject(t)
  PROVE  RefInv' /\ Answers
<1>1. Free /\ first # Null /\ UNCHANGED <<list, new, mutex, section, el, prev, victims, accounted>>
  BY DEF PeekObject, InLoop
<1>2. section = "none" /\ AbstractQueue # <<>>
  BY <1>1, IdleQueue
<1>3. waiting' \in [Sleepers -> {"no", "asleep", "woken"}]
  BY DEF RefInv, PeekObject, Returns, Sleepers
<1>4. RefInv' /\ AbstractQueue' = AbstractQueue
  BY <1>1, <1>2, <1>3, Outside
<1>5. t \notin Getter /\ t \in Sleepers /\ RoleOf' = RoleOf
  BY RolesAssumption DEF Sleepers, RoleOf
<1>6. Contract!InLoop(t, "peek")
  BY <1>5 DEF PeekObject, InLoop, Contract!InLoop, RoleOf
<1>7. Contract!Peek(t)
  BY <1>2, <1>4, <1>5, <1>6 DEF PeekObject, Returns, Contract!Peek, Contract!PeekObject, Contract!Returns
<1> QED
  BY <1>4, <1>7 DEF Answers, Contract!Step, Contract!Peekers, Use

LEMMA FlagSteps ==
  ASSUME IInv, RefInv, Abort \/ Reset \/ UNCHANGED vars \/ \E t \in Sleepers : SpuriousWake(t)
  PROVE  RefInv' /\ Answers
<1>0. UNCHANGED <<list, new, mutex, section, el, prev, victims, accounted>> /\ RoleOf' = RoleOf
  BY DEF Abort, Reset, vars, SpuriousWake, list, RoleOf
<1>1. CASE Abort
  <2>1. Free /\ section = "none"
    BY <1>1, IdleQueue DEF Abort
  <2>2. RefInv' /\ AbstractQueue' = AbstractQueue
    BY <1>0, <1>1, <2>1, SameSignal, Outside DEF Abort
  <2>3. Contract!Abort
    BY <1>0, <1>1, <2>2, SameSignal DEF Abort, Contract!Abort, Contract!CanAbort, Use
  <2> QED
    BY <2>2, <2>3 DEF Answers, Contract!Step
<1>2. CASE Reset
  <2>1. Free /\ section = "none"
    BY <1>2, IdleQueue DEF Reset
  <2>2. RefInv' /\ AbstractQueue' = AbstractQueue
    BY <1>0, <1>2, <2>1, Outside DEF Reset, RefInv
  <2>3. Contract!Reset
    BY <1>0, <1>2, <2>2 DEF Reset, Contract!Reset
  <2> QED
    BY <2>2, <2>3 DEF Answers, Contract!Step
<1>3. CASE UNCHANGED vars
  <2>1. RefInv' /\ AbstractQueue' = AbstractQueue
    BY <1>0, <1>3, Outside DEF vars, RefInv
  <2> QED
    BY <1>3, <2>1 DEF Answers, vars
<1>4. ASSUME NEW t \in Sleepers, SpuriousWake(t) PROVE RefInv' /\ Answers
  <2>1. waiting' \in [Sleepers -> {"no", "asleep", "woken"}]
    BY <1>4 DEF RefInv, SpuriousWake
  <2>2. section = "got" => ~abort_request' /\ waiting'[mutex] \in {"no", "woken"}
    BY <1>4 DEF RefInv, SpuriousWake, Sleepers
  <2>3. RefInv' /\ AbstractQueue' = AbstractQueue
    BY <1>0, <2>1, <2>2, Outside
  <2>4. Contract!SpuriousWake(t)
    BY <1>0, <1>4, <2>3 DEF SpuriousWake, Contract!SpuriousWake
  <2> QED
    BY <2>3, <2>4 DEF Answers, Contract!Step
<1> QED
  BY <1>1, <1>2, <1>3, <1>4

\* Front takes off what Append put at the end.
LEMMA FrontAppend ==
  ASSUME NEW T, NEW s \in Seq(T), NEW x \in T
  PROVE  Front(Append(s, x)) = s
<1> DEFINE r == Append(s, x)
<1>1. PICK z \in Nat : z = Len(s)
  OBVIOUS
<1>2. r \in Seq(T) /\ Len(r) = z + 1 /\ \A k \in 1 .. z : r[k] = s[k]
  BY <1>1, AppendProperties
<1>3. s \in [1 .. z -> T]
  BY <1>1, LenProperties
<1> HIDE DEF r
<1>4. \A k \in 1 .. z : r[k] \in T
  BY <1>2, <1>3
<1>5. SubSeq(r, 1, z) \in Seq(T) /\ Len(SubSeq(r, 1, z)) = z /\ \A k \in 1 .. z : SubSeq(r, 1, z)[k] = s[k]
  BY <1>1, <1>2, <1>4, SubSeqProperties
<1>6. SubSeq(r, 1, z) = s
  BY <1>1, <1>5, SeqEqual
<1>7. Front(r) = SubSeq(r, 1, z)
  <2>1. Len(r) - 1 = z
    BY <1>2
  <2> QED
    BY <2>1 DEF Front
<1> QED
  BY <1>6, <1>7 DEF r

LEMMA PutAllocRefines ==
  ASSUME IInv, RefInv, NEW t \in Caller, NEW o \in Object, PutAlloc(t, o)
  PROVE  RefInv' /\ Answers
<1>1. PICK n \in Node \ live :
        /\ live' = live \cup {n} /\ obj' = [obj EXCEPT ![n] = o] /\ next' = [next EXCEPT ![n] = Null]
  BY DEF PutAlloc
<1>2. UNCHANGED <<first, section, mutex, el, prev, victims, abort_request, waiting, ret>>
  BY DEF PutAlloc
<1>3. On' = On /\ On \subseteq live
  BY PutAllocStep, Facts
<1>4. obj \in [Node -> Object \cup {NoObject}] /\ next \in [Node -> Node \cup {Null}] /\ live \subseteq Node
  BY DEF IInv, Typed
<1>5. obj'[n] = o /\ \A m \in live : next'[m] = next[m] /\ obj'[m] = obj[m]
  BY <1>1, <1>4
<1>6. \A m \in live' : obj'[m] \in Object
  BY <1>1, <1>5 DEF RefInv
<1>7. CASE section = "flush"
  <2>1. AbstractQueue = <<>> /\ AbstractQueue' = <<>>
    BY <1>2, <1>7 DEF AbstractQueue
  <2> QED
    BY <2>1, <1>2, <1>6, <1>7 DEF RefInv, Answers
<1>8. CASE section # "flush"
  <2>1. PICK q : Leads(q, first, next, On) /\ (section = "purge" => Passed(q, el, prev, obj, victims))
    BY <1>8 DEF RefInv
  <2>2. Leads(q, first', next', On') /\ Image(q, obj') = Image(q, obj)
    BY <2>1, <1>2, <1>3, <1>5, SameChain
  <2>3. section = "got" => obj'[el] = obj[el]
    BY <1>5 DEF IInv, Inside
  <2>4. AbstractQueue' = AbstractQueue
    <3>1. AbstractQueue = Stands(Image(q, obj), section, el, victims, obj)
      BY <2>1, Now, Facts
    <3>2. AbstractQueue' = Stands(Image(q, obj'), section', el', victims', obj')
      BY <2>2, <1>3, <1>4, Then
    <3> QED
      BY <3>1, <3>2, <2>2, <2>3, <1>2 DEF Stands
  <2>5. section = "purge" => Passed(q, el, prev, obj', victims)
    <3>1. SUFFICES ASSUME section = "purge" PROVE Passed(q, el, prev, obj', victims)
      OBVIOUS
    <3>2. PICK k \in 1 .. Len(q) + 1 : /\ el = IF k = Len(q) + 1 THEN Null ELSE q[k]
                                       /\ prev = IF k = 1 THEN Null ELSE q[k - 1]
                                       /\ \A j \in 1 .. k - 1 : obj[q[j]] \notin victims
      BY <2>1, <3>1 DEF Passed
    <3>3. PICK z \in Nat : z = Len(q) /\ \A j \in 1 .. z : q[j] \in On
      BY <2>1, LeadsIs
    <3>4. \A j \in 1 .. k - 1 : q[j] \in live
      BY <3>2, <3>3, <1>3
    <3>5. \A j \in 1 .. k - 1 : obj'[q[j]] \notin victims
      BY <3>2, <3>4, <1>5
    <3> QED
      BY <3>2, <3>5 DEF Passed
  <2> QED
    BY <2>2, <2>4, <2>5, <1>2, <1>6 DEF RefInv, Answers
<1> QED
  BY <1>7, <1>8

LEMMA PutLinkRefines ==
  ASSUME IInv, RefInv, NEW t \in Caller, PutLink(t)
  PROVE  RefInv' /\ Answers
<1>1. /\ Free /\ section' = "put" /\ mutex' = t /\ UNCHANGED <<obj, live, abort_request, waiting, ret>>
      /\ IF last = Null THEN first' = new[t] /\ next' = next
                        ELSE next' = [next EXCEPT ![last] = new[t]] /\ first' = first
  BY DEF PutLink, Enter
<1>2. section = "none"
  BY <1>1, IdleQueue
<1>3. On' = On \cup {new[t]} /\ new[t] \in live \ On /\ On \subseteq Node /\ IsFiniteSet(On)
  BY PutLinkStep, Facts
<1>4. PICK q : Leads(q, first, next, On)
  BY <1>2 DEF RefInv
<1>5. q \in Seq(Node) /\ new[t] \in Node \ On
  BY <1>3, <1>4 DEF Leads, IInv, Typed
<1>6. PICK z \in Nat : /\ z = Len(q) /\ z = Cardinality(On) /\ (z = 0 <=> first = Null)
                       /\ Image(q, obj) \in Seq(Object)
                       /\ \A k \in 1 .. z : obj[q[k]] \in Object
  BY <1>4, ChainFacts
<1>7. next[new[t]] = Null
  BY <1>1, <1>2, <1>3 DEF PutLink, IInv, Owned, Off, On
<1>8. Linked(On, first, last, next) /\ (last = Null <=> On = {}) /\ (first = Null <=> On = {})
  BY <1>2, Facts DEF IInv, Chained, Start
<1>9. next \in [Node -> Node \cup {Null}] /\ Null \notin On
  BY <1>3, NullAssumption DEF IInv, Typed
<1> DEFINE r == Append(q, new[t])
<1>10. Leads(r, first', next', On')
  <2>1. CASE last = Null
    <3>1. On = {} /\ q = <<>> /\ first' = new[t] /\ next' = next
      BY <2>1, <1>1, <1>5, <1>6, <1>8, EmptySeq
    <3>2. \A i \in On : next'[i] = IF i = q[Len(q)] THEN new[t] ELSE next[i]
      BY <3>1
    <3> QED
      BY <3>1, <3>2, <1>3, <1>4, <1>5, <1>7, LeadsAppend
  <2>2. CASE last # Null
    <3>1. On # {} /\ q # <<>> /\ first' = first /\ next' = [next EXCEPT ![last] = new[t]]
      BY <2>2, <1>1, <1>5, <1>6, <1>8, EmptySeq
    <3>2. q[Len(q)] = last
      BY <3>1, <1>4, <1>8, <1>9, LeadsLast
    <3>3. last \in On
      BY <3>1, <1>8 DEF Linked
    <3>4. \A i \in On : next'[i] = IF i = q[Len(q)] THEN new[t] ELSE next[i]
      BY <3>1, <3>2, <1>3, <1>9
    <3>5. next'[new[t]] = Null
      BY <3>1, <3>3, <1>3, <1>5, <1>7, <1>9
    <3> QED
      BY <3>1, <3>4, <3>5, <1>3, <1>4, <1>5, LeadsAppend
  <2> QED
    BY <2>1, <2>2
<1> HIDE DEF r
<1>11. Image(r, obj') = Append(Image(q, obj), obj[new[t]]) /\ obj[new[t]] \in Object
  <2>1. obj[new[t]] \in Object
    BY <1>3 DEF RefInv
  <2> QED
    BY <2>1, <1>1, <1>5, <1>6, ImageAppend DEF r
<1>12. AbstractQueue' = AbstractQueue
  <2>1. AbstractQueue = Image(q, obj)
    BY <1>2, <1>3, <1>4, Now DEF Stands
  <2>2. AbstractQueue' = Front(Image(r, obj'))
    <3>1. On' \subseteq Node
      BY <1>3, <1>5
    <3> QED
      BY <3>1, <1>1, <1>10, Then DEF Stands
  <2> QED
    BY <2>1, <2>2, <1>6, <1>11, FrontAppend
<1>13. RefInv'
  BY <1>1, <1>10 DEF RefInv
<1> QED
  BY <1>1, <1>12, <1>13 DEF Answers

LEMMA PutHookRefines ==
  ASSUME IInv, RefInv, NEW t \in Caller, PutHook(t)
  PROVE  RefInv' /\ Answers
<1>1. /\ section = "put" /\ section' = "signal"
      /\ UNCHANGED <<first, next, obj, live, mutex, el, prev, victims, abort_request, waiting, ret>>
  BY DEF PutHook, In, list
<1>2. AbstractQueue' = AbstractQueue
  BY <1>1 DEF AbstractQueue, Chain, Objects, Rest
<1>3. On' = On
  BY PutHookStep
<1>4. RefInv'
  BY <1>1, <1>3 DEF RefInv
<1> QED
  BY <1>1, <1>2, <1>4 DEF Answers

LEMMA LastAppended ==
  ASSUME NEW T, NEW s \in Seq(T), s # <<>>
  PROVE  Front(s) \in Seq(T) /\ \E x \in T : s = Append(Front(s), x)
<1>1. PICK u \in Seq(T), x \in T : s = Append(u, x)
  BY SequenceEmptyOrAppend
<1>2. Front(s) = u
  BY <1>1, FrontAppend
<1> QED
  BY <1>1, <1>2

LEMMA ConsIs ==
  ASSUME NEW T, NEW s \in Seq(T), NEW x \in T
  PROVE  <<x>> \o s # <<>> /\ Head(<<x>> \o s) = x /\ Tail(<<x>> \o s) = s
<1> DEFINE r == <<x>> \o s
<1>1. PICK z \in Nat : z = Len(s)
  OBVIOUS
<1>2. <<x>> \in Seq(T) /\ Len(<<x>>) = 1 /\ <<x>>[1] = x
  OBVIOUS
<1>3. /\ r \in Seq(T) /\ Len(r) = Len(<<x>>) + Len(s)
      /\ \A i \in 1 .. Len(<<x>>) + Len(s) : r[i] = IF i <= Len(<<x>>) THEN <<x>>[i] ELSE s[i - Len(<<x>>)]
  BY <1>2, ConcatProperties
<1> HIDE DEF r
<1>4. Len(r) = 1 + z /\ \A i \in 1 .. 1 + z : r[i] = IF i <= 1 THEN <<x>>[i] ELSE s[i - 1]
  BY <1>1, <1>2, <1>3
<1>5. r # <<>> /\ r[1] = x
  BY <1>2, <1>3, <1>4, EmptySeq
<1>6. Tail(r) \in Seq(T) /\ Len(Tail(r)) = z /\ \A i \in 1 .. z : Tail(r)[i] = s[i]
  <2>1. Tail(r) \in Seq(T) /\ Len(Tail(r)) = Len(r) - 1 /\ \A i \in 1 .. Len(Tail(r)) : Tail(r)[i] = r[i + 1]
    BY <1>3, <1>5, HeadTailProperties
  <2>2. Len(Tail(r)) = z
    BY <2>1, <1>4
  <2>3. \A i \in 1 .. z : Tail(r)[i] = r[i + 1] /\ r[i + 1] = s[i]
    BY <2>1, <2>2, <1>4
  <2> QED
    BY <2>1, <2>2, <2>3
<1>7. Tail(r) = s
  BY <1>1, <1>6, SeqEqual
<1>8. Head(r) = x
  BY <1>3, <1>5
<1> QED
  BY <1>5, <1>7, <1>8 DEF r

LEMMA HeadBack ==
  ASSUME NEW T, NEW s \in Seq(T), s # <<>>
  PROVE  <<s[1]>> \o Skip(s, 1) = s /\ Skip(s, 1) \in Seq(T) /\ s[1] \in T
<1>1. PICK z \in Nat : z = Len(s)
  OBVIOUS
<1>2. z # 0 /\ z - 1 \in Nat /\ 1 \in 1 .. z
  BY <1>1, EmptySeq
<1> DEFINE w == Skip(s, 1)
           x == s[1]
           r == <<x>> \o w
<1>3. w \in Seq(T) /\ Len(w) = z - 1 /\ \A i \in 1 .. z - 1 : w[i] = s[i + 1]
  <2>1. /\ w \in Seq(T) /\ Len(w) = Len(s) - 1
        /\ \A j \in 1 .. Len(s) - 1 : w[j] = IF j < 1 THEN s[j] ELSE s[j + 1]
    BY <1>1, <1>2, SkipIs
  <2> HIDE DEF w
  <2>2. \A j \in 1 .. z - 1 : ~(j < 1)
    BY <1>2
  <2> QED
    BY <1>1, <2>1, <2>2
<1>4. x \in T
  BY <1>1, <1>2, ElementOfSeq
<1> HIDE DEF w, x
<1>5. <<x>> \in Seq(T) /\ Len(<<x>>) = 1 /\ <<x>>[1] = x
  BY <1>4
<1>6. /\ r \in Seq(T) /\ Len(r) = Len(<<x>>) + Len(w)
      /\ \A i \in 1 .. Len(<<x>>) + Len(w) : r[i] = IF i <= Len(<<x>>) THEN <<x>>[i] ELSE w[i - Len(<<x>>)]
  BY <1>3, <1>5, ConcatProperties
<1> HIDE DEF r
<1>7. Len(r) = z /\ \A i \in 1 .. z : r[i] = IF i <= 1 THEN <<x>>[i] ELSE w[i - 1]
  BY <1>2, <1>3, <1>5, <1>6
<1>8. ASSUME NEW i \in 1 .. z PROVE r[i] = s[i]
  <2>1. CASE i = 1
    BY <2>1, <1>5, <1>7 DEF x
  <2>2. CASE i # 1
    <3>1. i - 1 \in 1 .. z - 1 /\ (i - 1) + 1 = i /\ ~(i <= 1)
      BY <2>2, <1>2
    <3>2. w[i - 1] = s[(i - 1) + 1]
      BY <3>1, <1>3
    <3> QED
      BY <3>1, <3>2, <1>7
  <2> QED
    BY <2>1, <2>2
<1>9. r = s
  BY <1>1, <1>6, <1>7, <1>8, SeqEqual
<1> QED
  BY <1>3, <1>4, <1>9 DEF r, w, x

LEMMA PutSignalRefines ==
  ASSUME IInv, RefInv, NEW t \in Caller, PutSignal(t)
  PROVE  RefInv' /\ Answers
<1>1. /\ section = "signal" /\ section' = "none" /\ Signal
      /\ UNCHANGED <<first, next, obj, live, abort_request, ret>>
  BY DEF PutSignal, In, Leave, list
<1>2. On' = On /\ On \subseteq Node /\ On # {} /\ IsFiniteSet(On)
  BY <1>1, PutSignalStep, PutOnList, Facts
<1>3. PICK q : Leads(q, first, next, On)
  BY <1>1 DEF RefInv
<1> DEFINE s == Image(q, obj)
<1>4. PICK z \in Nat : /\ z = Cardinality(On) /\ s \in Seq(Object) /\ Len(s) = z
  BY <1>3, ChainFacts
<1>5. AbstractQueue = Front(s)
  BY <1>1, <1>2, <1>3, Now DEF Stands
<1>6. AbstractQueue' = s
  BY <1>1, <1>2, <1>3, Then DEF Stands
<1> HIDE DEF s
<1>7. z # 0
  BY <1>2, <1>4, FS_EmptySet
<1>8. s # <<>>
  BY <1>4, <1>7, EmptySeq
<1>9. PICK o \in Object : Front(s) \in Seq(Object) /\ s = Append(Front(s), o)
  BY <1>4, <1>8, LastAppended
<1>10. Len(Front(s)) < MaxLen
  <2>1. Len(Front(s)) + 1 = z /\ Len(Front(s)) \in Nat
    BY <1>4, <1>9, AppendProperties
  <2>2. MaxLen \in Nat /\ z <= MaxLen
    BY <1>2, <1>4, NodeAssumption, FS_Subset, FS_CardinalityType DEF MaxLen
  <2> QED
    BY <2>1, <2>2
<1>11. Contract!Put(o)
  <2>1. RoleOf' = RoleOf
    BY DEF RoleOf
  <2> QED
    BY <2>1, <1>1, <1>5, <1>6, <1>9, <1>10, SameSignal DEF Contract!Put
<1>12. RefInv'
  BY <1>1, <1>2, <1>3, SameSignal DEF RefInv
<1> QED
  BY <1>11, <1>12 DEF Answers, Contract!Step

LEMMA GetPopRefines ==
  ASSUME IInv, RefInv, NEW t \in Getter, GetPop(t)
  PROVE  RefInv' /\ Answers
<1>1. /\ Free /\ ~abort_request /\ first # Null /\ waiting[t] \in {"no", "woken"}
      /\ mutex' = t /\ section' = "got" /\ el' = first /\ first' = next[first]
      /\ UNCHANGED <<next, obj, live, abort_request, waiting, ret>>
  BY DEF GetPop, InLoop, Enter
<1>2. section = "none"
  BY <1>1, IdleQueue
<1>3. first \in On /\ On' = On \ {first} /\ On \subseteq Node /\ IsFiniteSet(On)
  BY GetPopStep, Facts
<1>4. PICK q : Leads(q, first, next, On)
  BY <1>2 DEF RefInv
<1> DEFINE s == Image(q, obj)
<1>5. PICK z \in Nat : /\ z = Len(q) /\ (z = 0 <=> first = Null) /\ (z # 0 => q[1] = first)
                       /\ s \in Seq(Object) /\ Len(s) = z
                       /\ \A k \in 1 .. z : obj[q[k]] \in Object /\ s[k] = obj[q[k]]
  BY <1>4, ChainFacts
<1>6. z # 0 /\ 1 \in 1 .. z /\ q[1] = first /\ q \in Seq(Node)
  BY <1>1, <1>4, <1>5 DEF Leads
<1>0. PICK k \in 1 .. Len(q) : k = 1
  BY <1>5, <1>6
<1> DEFINE r == Skip(q, k)
<1>7. Leads(r, first', next', On')
  <2>1. LedPast(q, k, first, next, On, first', next')
    BY <1>0, <1>1 DEF LedPast
  <2>2. Leads(r, first', next', On \ {q[k]})
    BY <2>1, <1>3, <1>4, LeadsSkip
  <2> QED
    BY <2>2, <1>0, <1>3, <1>6
<1>8. Image(r, obj') = Skip(s, 1)
  <2>1. Image(r, obj) = Skip(s, k)
    BY <1>5, <1>6, ImageSkip
  <2> QED
    BY <2>1, <1>0, <1>1
<1> HIDE DEF s, r
<1>9. s # <<>> /\ s[1] = obj[first]
  BY <1>5, <1>6, EmptySeq
<1>10. AbstractQueue' = AbstractQueue
  <2>1. AbstractQueue = s
    BY <1>2, <1>3, <1>4, Now DEF Stands, s
  <2>2. AbstractQueue' = <<obj[first]>> \o Skip(s, 1)
    BY <1>1, <1>3, <1>7, <1>8, Then DEF Stands
  <2> QED
    BY <2>1, <2>2, <1>5, <1>9, HeadBack
<1>11. RefInv'
  BY <1>1, <1>7 DEF RefInv
<1> QED
  BY <1>1, <1>10, <1>11 DEF Answers

LEMMA GetHookRefines ==
  ASSUME IInv, RefInv, NEW t \in Getter, GetHook(t)
  PROVE  RefInv' /\ Answers
<1>1. /\ section = "got" /\ mutex = t /\ section' = "none" /\ Returns(t, 1, obj[el])
      /\ live' = live \ {el} /\ obj' = [obj EXCEPT ![el] = NoObject]
      /\ UNCHANGED <<first, next, abort_request>>
  BY DEF GetHook, In, FreeNode, Leave
<1>2. On' = On /\ el \notin On /\ On \subseteq Node
  BY GetHookStep, Facts
<1>3. obj[el] \in Object /\ el \in Node /\ obj \in [Node -> Object \cup {NoObject}] /\ live \subseteq Node
  BY <1>1 DEF RefInv, IInv, Inside, Typed
<1>4. \A m \in Node \ {el} : obj'[m] = obj[m]
  BY <1>1, <1>3
<1>5. PICK q : Leads(q, first, next, On)
  BY <1>1 DEF RefInv
<1>6. Leads(q, first', next', On') /\ Image(q, obj') = Image(q, obj)
  <2>1. \A m \in On : next'[m] = next[m] /\ obj'[m] = obj[m]
    BY <1>1, <1>2, <1>4
  <2> QED
    BY <2>1, <1>1, <1>2, <1>5, SameChain
<1> DEFINE s == Image(q, obj)
<1>7. s \in Seq(Object)
  BY <1>5, ChainFacts
<1>8. AbstractQueue = <<obj[el]>> \o s
  BY <1>1, <1>2, <1>5, Now DEF Stands
<1>9. AbstractQueue' = s
  BY <1>1, <1>2, <1>6, Then DEF Stands
<1> HIDE DEF s
<1>10. AbstractQueue # <<>> /\ Head(AbstractQueue) = obj[el] /\ AbstractQueue' = Tail(AbstractQueue)
  BY <1>3, <1>7, <1>8, <1>9, ConsIs
<1>11. ~abort_request /\ waiting[t] \in {"no", "woken"}
  BY <1>1 DEF RefInv
<1>12. Contract!Get(t)
  <2>1. RoleOf' = RoleOf /\ RoleOf[t] = "get"
    BY DEF RoleOf, Sleepers
  <2> QED
    BY <2>1, <1>1, <1>10, <1>11 DEF Returns, Contract!Get, Contract!InLoop, Contract!GetObject, Contract!Returns
<1>13. RefInv'
  <2>1. waiting' \in [Sleepers -> {"no", "asleep", "woken"}]
    BY <1>1 DEF Returns, RefInv
  <2>2. \A n \in live' : obj'[n] \in Object
    BY <1>1, <1>3, <1>4 DEF RefInv
  <2> QED
    BY <2>1, <2>2, <1>1, <1>6 DEF RefInv
<1> QED
  BY <1>12, <1>13 DEF Answers, Contract!Step, Contract!Getters, Use

LEMMA FlushRefines ==
  ASSUME IInv, RefInv, NEW t \in Caller, FlushStart(t) \/ FlushOne(t) \/ FlushEnd(t)
  PROVE  RefInv' /\ Answers
<1>0. UNCHANGED <<abort_request, waiting, ret>> /\ RoleOf' = RoleOf
  BY DEF FlushStart, FlushOne, FlushEnd, RoleOf
<1>1. CASE FlushStart(t)
  <2>1. section' = "flush" /\ UNCHANGED <<obj, live>>
    BY <1>1 DEF FlushStart, Enter, list
  <2>2. AbstractQueue' = <<>>
    BY <2>1 DEF AbstractQueue
  <2>3. Contract!Flush
    BY <1>0, <2>2 DEF Contract!Flush
  <2>4. RefInv'
    BY <1>0, <2>1 DEF RefInv
  <2> QED
    BY <2>3, <2>4 DEF Answers, Contract!Step
<1>2. CASE FlushOne(t)
  <2>1. section = "flush" /\ section' = "flush" /\ live' = live \ {el} /\ obj' = [obj EXCEPT ![el] = NoObject]
    BY <1>2 DEF FlushOne, In, FreeNode
  <2>2. AbstractQueue = <<>> /\ AbstractQueue' = <<>>
    BY <2>1 DEF AbstractQueue
  <2>3. \A n \in live' : obj'[n] \in Object
    BY <2>1 DEF RefInv, IInv, Typed
  <2> QED
    BY <1>0, <2>1, <2>2, <2>3 DEF RefInv, Answers
<1>3. CASE FlushEnd(t)
  <2>1. section = "flush" /\ section' = "none" /\ first' = Null /\ UNCHANGED <<obj, live>>
    BY <1>3 DEF FlushEnd, In, Leave
  <2>2. On' = {}
    BY <1>3, FlushEndStep
  <2>3. Leads(<<>>, first', next', On')
    <3>1. <<>> \in Seq(Node) /\ Len(<<>>) = 0 /\ Cardinality({}) = 0 /\ DOMAIN <<>> = {}
      BY FS_EmptySet
    <3> QED
      BY <2>1, <2>2, <3>1 DEF Leads, LeadsThrough
  <2>4. AbstractQueue = <<>> /\ AbstractQueue' = <<>>
    <3>1. Image(<<>>, obj') = <<>>
      BY DEF Image
    <3>2. AbstractQueue' = Image(<<>>, obj')
      BY <2>1, <2>2, <2>3, Then DEF Stands
    <3> QED
      BY <2>1, <3>1, <3>2 DEF AbstractQueue
  <2> QED
    BY <1>0, <2>1, <2>3, <2>4 DEF RefInv, Answers
<1> QED
  BY <1>1, <1>2, <1>3

LEMMA PurgeStartRefines ==
  ASSUME IInv, RefInv, NEW t \in Caller, NEW v \in SUBSET Object, PurgeStart(t, v)
  PROVE  RefInv' /\ Answers
<1>1. /\ Free /\ section' = "purge" /\ el' = first /\ prev' = Null /\ victims' = v
      /\ UNCHANGED <<first, next, obj, live, abort_request, waiting, ret>>
  BY DEF PurgeStart, Enter, list
<1>2. section = "none"
  BY <1>1, IdleQueue
<1>3. On' = On /\ On \subseteq Node
  BY StartStep, Facts
<1>4. PICK q : Leads(q, first, next, On)
  BY <1>2 DEF RefInv
<1>5. Leads(q, first', next', On')
  BY <1>1, <1>3, <1>4
<1>6. Passed(q, el', prev', obj', victims')
  <2>1. PICK z \in Nat : z = Len(q) /\ (z = 0 <=> first = Null) /\ (z # 0 => q[1] = first)
    BY <1>4, LeadsIs
  <2>2. PICK k \in 1 .. z + 1 : k = 1
    OBVIOUS
  <2>3. /\ el' = IF k = z + 1 THEN Null ELSE q[k]
        /\ prev' = IF k = 1 THEN Null ELSE q[k - 1]
        /\ \A j \in 1 .. k - 1 : obj'[q[j]] \notin victims'
    BY <1>1, <2>1, <2>2
  <2> QED
    BY <2>1, <2>2, <2>3 DEF Passed
<1>7. AbstractQueue = Image(q, obj)
  BY <1>2, <1>3, <1>4, Now DEF Stands
<1>8. AbstractQueue' = Rest(v)[Image(q, obj)]
  BY <1>1, <1>3, <1>5, Then DEF Stands
<1>9. Contract!Purge(v)
  <2>1. Contract!Rest(v) = Rest(v)
    BY DEF Contract!Rest, Rest, Contract!Keep, Keep, Contract!Kept, Kept
  <2> QED
    BY <2>1, <1>1, <1>7, <1>8 DEF Contract!Purge, RoleOf
<1>10. RefInv'
  BY <1>1, <1>5, <1>6 DEF RefInv
<1> QED
  BY <1>9, <1>10 DEF Answers, Contract!Step

\* Where the cursor of purge is.
LEMMA CursorAt ==
  ASSUME IInv, NEW q, Leads(q, first, next, On), Passed(q, el, prev, obj, victims)
  PROVE  \E z \in Nat : \E k \in 1 .. z + 1 :
           /\ z = Len(q) /\ \A i \in 1 .. z : q[i] \in On
           /\ el = Null <=> k = z + 1
           /\ prev = Null <=> k = 1
           /\ k # z + 1 => el = q[k] /\ next[el] = IF k = z THEN Null ELSE q[k + 1]
           /\ k # 1 => prev = q[k - 1]
           /\ \A j \in 1 .. k - 1 : obj[q[j]] \notin victims
<1>1. PICK z \in Nat : /\ z = Len(q) /\ \A i \in 1 .. z : q[i] \in On
                       /\ \A i \in 1 .. z : next[q[i]] = IF i = z THEN Null ELSE q[i + 1]
  BY LeadsIs
<1>2. PICK k \in 1 .. z + 1 : /\ el = IF k = z + 1 THEN Null ELSE q[k]
                              /\ prev = IF k = 1 THEN Null ELSE q[k - 1]
                              /\ \A j \in 1 .. k - 1 : obj[q[j]] \notin victims
  BY <1>1 DEF Passed
<1>3. \A i \in 1 .. z : q[i] # Null
  BY <1>1, Facts
<1>4. k # z + 1 => k \in 1 .. z
  BY <1>2
<1>5. k # 1 => k - 1 \in 1 .. z
  BY <1>2
<1> QED
  BY <1>1, <1>2, <1>3, <1>4, <1>5

LEMMA PurgeKeepRefines ==
  ASSUME IInv, RefInv, NEW t \in Caller, PurgeKeep(t)
  PROVE  RefInv' /\ Answers
<1>1. /\ section = "purge" /\ el # Null /\ obj[el] \notin victims /\ prev' = el /\ el' = next[el]
      /\ UNCHANGED <<first, next, obj, live, section, victims, abort_request, waiting, ret>>
  BY DEF PurgeKeep, In, list
<1>2. On' = On
  BY PurgeKeepStep
<1>3. PICK q : Leads(q, first, next, On) /\ Passed(q, el, prev, obj, victims)
  BY <1>1 DEF RefInv
<1>4. AbstractQueue' = AbstractQueue
  BY <1>1 DEF AbstractQueue, Chain, Objects, Rest
<1>5. Passed(q, el', prev', obj', victims')
  <2>z. PICK z \in Nat : z = Len(q) /\ \E k \in 1 .. z + 1 :
          /\ z = Len(q) /\ k # z + 1
          /\ el = q[k] /\ next[el] = IF k = z THEN Null ELSE q[k + 1]
          /\ \A j \in 1 .. k - 1 : obj[q[j]] \notin victims
    BY <1>1, <1>3, CursorAt
  <2>1. PICK k \in 1 .. z + 1 :
          /\ z = Len(q) /\ k # z + 1
          /\ el = q[k] /\ next[el] = IF k = z THEN Null ELSE q[k + 1]
          /\ \A j \in 1 .. k - 1 : obj[q[j]] \notin victims
    BY <2>z
  <2> DEFINE y == k + 1
  <2>2. y \in 1 .. z + 1 /\ y - 1 = k /\ y # 1 /\ (y = z + 1 <=> k = z)
    BY <2>1
  <2>3. \A j \in 1 .. y - 1 : j = k \/ j \in 1 .. k - 1
    BY <2>1
  <2>4. \A j \in 1 .. y - 1 : obj'[q[j]] \notin victims'
    BY <1>1, <2>1, <2>3
  <2>5. el' = IF y = z + 1 THEN Null ELSE q[y]
    BY <1>1, <2>1, <2>2
  <2> HIDE DEF y
  <2>6. prev' = IF y = 1 THEN Null ELSE q[y - 1]
    BY <1>1, <2>1, <2>2
  <2> QED
    BY <2>1, <2>2, <2>4, <2>5, <2>6 DEF Passed
<1>6. RefInv'
  BY <1>1, <1>2, <1>3, <1>5 DEF RefInv
<1> QED
  BY <1>1, <1>4, <1>6 DEF Answers

LEMMA PurgeEndRefines ==
  ASSUME IInv, RefInv, NEW t \in Caller, PurgeEnd(t)
  PROVE  RefInv' /\ Answers
<1>1. /\ section = "purge" /\ section' = "none" /\ el = Null
      /\ UNCHANGED <<first, next, obj, live, abort_request, waiting, ret>>
  BY DEF PurgeEnd, In, Leave, list
<1>2. On' = On /\ On \subseteq Node
  BY PurgeEndStep, Facts
<1>3. PICK q : Leads(q, first, next, On) /\ Passed(q, el, prev, obj, victims)
  BY <1>1 DEF RefInv
<1>z. PICK z \in Nat : z = Len(q) /\ \E k \in 1 .. z + 1 :
        z = Len(q) /\ k = z + 1 /\ \A j \in 1 .. k - 1 : obj[q[j]] \notin victims
  BY <1>1, <1>3, CursorAt
<1>4. PICK k \in 1 .. z + 1 :
        z = Len(q) /\ k = z + 1 /\ \A j \in 1 .. k - 1 : obj[q[j]] \notin victims
  BY <1>z
<1>5. \A j \in 1 .. z : obj[q[j]] \notin victims
  BY <1>4
<1> DEFINE s == Image(q, obj)
<1>6. s \in Seq(Object) /\ Len(s) = z /\ \A j \in 1 .. z : s[j] = obj[q[j]]
  BY <1>3, <1>4, ChainFacts
<1> HIDE DEF s
<1>7. Range(s) \subseteq Object \ victims
  <2>1. DOMAIN s = 1 .. z /\ \A j \in 1 .. z : s[j] \in Object
    BY <1>6, LenProperties, ElementOfSeq
  <2> QED
    BY <2>1, <1>5, <1>6 DEF Range
<1>8. Keep(s, Object \ victims) = s
  BY <1>6, <1>7, KeepAll
<1>9. AbstractQueue = Keep(s, Object \ victims)
  <2>1. AbstractQueue = Rest(victims)[s]
    BY <1>1, <1>2, <1>3, Now DEF Stands, s
  <2> QED
    BY <2>1, <1>6 DEF Rest
<1>10. AbstractQueue' = s
  BY <1>1, <1>2, <1>3, Then DEF Stands, s
<1>11. RefInv'
  BY <1>1, <1>2, <1>3 DEF RefInv
<1> QED
  BY <1>1, <1>8, <1>9, <1>10, <1>11 DEF Answers

\* A victim leaves the list: it is not on the queue of the contract any more.
LEMMA DropRefines ==
  ASSUME IInv, RefInv, section = "purge", Drop, On' = On \ {el},
         NEW q, Leads(q, first, next, On), NEW z \in Nat, z = Len(q), NEW k \in 1 .. z,
         el = q[k], el' = IF k = z THEN Null ELSE q[k + 1],
         prev = IF k = 1 THEN Null ELSE q[k - 1],
         \A j \in 1 .. k - 1 : obj[q[j]] \notin victims,
         LedPast(q, k, first, next, On, first', next')
  PROVE  RefInv' /\ Answers
<1>1. /\ live' = live \ {el} /\ obj' = [obj EXCEPT ![el] = NoObject] /\ obj[el] \in victims
      /\ UNCHANGED <<section, prev, victims, abort_request, waiting, ret>>
  BY DEF Drop, FreeNode
<1>2. On \subseteq Node /\ IsFiniteSet(On) /\ obj \in [Node -> Object \cup {NoObject}]
  BY Facts DEF IInv, Typed
<1>3. \A m \in Node \ {el} : obj'[m] = obj[m]
  BY <1>1, <1>2
<1> DEFINE r == Skip(q, k)
           s == Image(q, obj)
           S == Object \ victims
<1>4. /\ s \in Seq(Object) /\ Len(s) = z
      /\ \A i \in 1 .. z : q[i] \in On /\ obj[q[i]] \in Object /\ s[i] = obj[q[i]]
  BY ChainFacts
<1>5. q \in Seq(Node)
  BY DEF Leads
<1>6. r \in Seq(Node) /\ Len(r) = z - 1 /\ \A j \in 1 .. z - 1 : r[j] = IF j < k THEN q[j] ELSE q[j + 1]
  <2>1. /\ r \in Seq(Node) /\ Len(r) = Len(q) - 1
        /\ \A j \in 1 .. Len(q) - 1 : r[j] = IF j < k THEN q[j] ELSE q[j + 1]
    BY <1>5, SkipIs
  <2> HIDE DEF r
  <2> QED
    BY <2>1
<1>7. Leads(r, first', next', On')
  <2>1. Leads(r, first', next', On \ {q[k]})
    BY <1>2, LeadsSkip
  <2> QED
    BY <2>1
<1>8. Image(r, obj') = Skip(s, k)
  <2>1. Image(r, obj) = Skip(s, k)
    BY <1>4, <1>5, ImageSkip
  <2>2. \A i \in DOMAIN r : r[i] \in On \ {el}
    BY <1>7 DEF Leads
  <2>3. Image(r, obj') = Image(r, obj)
    BY <1>2, <1>3, <2>2 DEF Image
  <2> QED
    BY <2>1, <2>3
<1> HIDE DEF r, s
<1>9. Keep(Skip(s, k), S) = Keep(s, S)
  <2>1. k \in 1 .. Len(s) /\ s[k] \notin S
    BY <1>1, <1>4
  <2> QED
    BY <2>1, <1>4, KeepSkip
<1>10. AbstractQueue' = AbstractQueue
  <2>1. AbstractQueue = Keep(s, S)
    <3>1. AbstractQueue = Rest(victims)[s]
      BY <1>2, Now DEF Stands, s
    <3> QED
      BY <3>1, <1>4 DEF Rest
  <2>2. AbstractQueue' = Keep(Skip(s, k), S)
    <3>1. On' \subseteq Node
      BY <1>2
    <3>2. AbstractQueue' = Rest(victims)[Skip(s, k)]
      BY <3>1, <1>1, <1>7, <1>8, Then DEF Stands
    <3>3. Skip(s, k) \in Seq(Object)
      BY <1>4, SkipIs
    <3> QED
      BY <3>2, <3>3 DEF Rest
  <2> QED
    BY <2>1, <2>2, <1>9
<1>11. Passed(r, el', prev', obj', victims')
  <2>1. PICK y \in Nat : y = z - 1 /\ y = Len(r) /\ k \in 1 .. y + 1
    BY <1>6
  <2>2. el' = IF k = y + 1 THEN Null ELSE r[k]
    <3>1. k # z => r[k] = q[k + 1]
      BY <1>6
    <3> QED
      BY <3>1, <2>1
  <2>3. prev' = IF k = 1 THEN Null ELSE r[k - 1]
    <3>1. k # 1 => r[k - 1] = q[k - 1]
      BY <1>6
    <3> QED
      BY <3>1, <1>1
  <2>4. ASSUME NEW j \in 1 .. k - 1 PROVE obj'[r[j]] \notin victims'
    <3>1. j \in 1 .. z /\ r[j] = q[j] /\ obj[q[j]] \notin victims /\ q[j] \in On
      BY <1>4, <1>6
    <3>2. q[j] # el
      BY <3>1, <1>1
    <3> QED
      BY <3>1, <3>2, <1>1, <1>2, <1>3
  <2> QED
    BY <2>1, <2>2, <2>3, <2>4 DEF Passed
<1>12. \A n \in live' : obj'[n] \in Object
  BY <1>1, <1>3 DEF RefInv, IInv, Typed
<1>13. RefInv'
  BY <1>1, <1>7, <1>11, <1>12 DEF RefInv
<1> QED
  BY <1>1, <1>10, <1>13 DEF Answers

LEMMA PurgeDropRefines ==
  ASSUME IInv, RefInv, NEW t \in Caller, PurgeHead(t) \/ PurgeInner(t)
  PROVE  RefInv' /\ Answers
<1>1. section = "purge" /\ Drop /\ el # Null /\ el' = next[el]
  BY DEF PurgeHead, PurgeInner, In, Drop
<1>2. PICK q : Leads(q, first, next, On) /\ Passed(q, el, prev, obj, victims)
  BY <1>1 DEF RefInv
<1>z. PICK z \in Nat : z = Len(q) /\ \E k \in 1 .. z + 1 :
        /\ z = Len(q)
        /\ el = Null <=> k = z + 1
        /\ prev = Null <=> k = 1
        /\ k # z + 1 => el = q[k] /\ next[el] = IF k = z THEN Null ELSE q[k + 1]
        /\ k # 1 => prev = q[k - 1]
        /\ \A j \in 1 .. k - 1 : obj[q[j]] \notin victims
  BY <1>2, CursorAt
<1>3. PICK k \in 1 .. z + 1 :
        /\ z = Len(q)
        /\ el = Null <=> k = z + 1
        /\ prev = Null <=> k = 1
        /\ k # z + 1 => el = q[k] /\ next[el] = IF k = z THEN Null ELSE q[k + 1]
        /\ k # 1 => prev = q[k - 1]
        /\ \A j \in 1 .. k - 1 : obj[q[j]] \notin victims
  BY <1>z
<1>4. /\ k \in 1 .. z /\ el = q[k] /\ el' = IF k = z THEN Null ELSE q[k + 1]
      /\ prev = IF k = 1 THEN Null ELSE q[k - 1]
  BY <1>1, <1>3
<1>5. On' = On \ {el}
  BY PurgeHeadStep, PurgeInnerStep
<1>6. LedPast(q, k, first, next, On, first', next')
  <2>1. CASE PurgeHead(t)
    <3>1. k = 1 /\ first' = next[el] /\ next' = next /\ el = first
      BY <2>1, <1>3, PurgeHeadStep DEF PurgeHead
    <3> QED
      BY <3>1, <1>3, <1>4 DEF LedPast
  <2>2. CASE PurgeInner(t)
    <3>1. k # 1 /\ first' = first /\ next' = [next EXCEPT ![prev] = next[el]] /\ prev = q[k - 1]
      BY <2>2, <1>3 DEF PurgeInner
    <3>2. \A i \in On : next'[i] = IF i = prev THEN next[el] ELSE next[i]
      BY <3>1, Facts DEF IInv, Typed
    <3> QED
      BY <3>1, <3>2, <1>3, <1>4 DEF LedPast
  <2> QED
    BY <2>1, <2>2
<1> QED
  BY <1>1, <1>2, <1>3, <1>4, <1>5, <1>6, DropRefines

\* One step of the list is one of the contract, or none.
LEMMA Refines ==
  ASSUME IInv, RefInv, [Next]_vars
  PROVE  RefInv' /\ Answers
<1>1. ASSUME NEW t \in Caller, CallerStep(t) PROVE RefInv' /\ Answers
  <2>1. ASSUME NEW o \in Object, PutAlloc(t, o) PROVE RefInv' /\ Answers
    BY <2>1, PutAllocRefines
  <2>2. CASE PutLink(t) \/ PutHook(t) \/ PutSignal(t)
    BY <2>2, PutLinkRefines, PutHookRefines, PutSignalRefines
  <2>3. CASE FlushStart(t) \/ FlushOne(t) \/ FlushEnd(t)
    BY <2>3, FlushRefines
  <2>4. ASSUME NEW v \in SUBSET Object, PurgeStart(t, v) PROVE RefInv' /\ Answers
    BY <2>4, PurgeStartRefines
  <2>5. CASE PurgeKeep(t) \/ PurgeEnd(t)
    BY <2>5, PurgeKeepRefines, PurgeEndRefines
  <2>6. CASE PurgeInner(t) \/ PurgeHead(t)
    BY <2>6, PurgeDropRefines
  <2> QED
    BY <1>1, <2>1, <2>2, <2>3, <2>4, <2>5, <2>6 DEF CallerStep
<1>2. ASSUME NEW t \in Getter, GetPop(t) \/ GetHook(t) PROVE RefInv' /\ Answers
  BY <1>2, GetPopRefines, GetHookRefines
<1>3. ASSUME NEW t \in Peeker, PeekObject(t) PROVE RefInv' /\ Answers
  BY <1>3, PeekSteps
<1>4. ASSUME NEW t \in Sleepers, Aborted(t) \/ Nothing(t) \/ Sleep(t) PROVE RefInv' /\ Answers
  BY <1>4, LoopSteps
<1>5. CASE Abort \/ Reset \/ UNCHANGED vars \/ \E t \in Sleepers : SpuriousWake(t)
  BY <1>5, FlagSteps
<1> QED
  BY <1>1, <1>2, <1>3, <1>4, <1>5 DEF Next

\* The linked list of queue.c is the FIFO that queue.h promises: whatever calls
\* overlap, every one of them returns what it would if they took turns.
THEOREM QueueRefined == Spec => ImplementsContract
<1>1. IInv /\ RefInv /\ [Next]_vars => RefInv' /\ [Contract!Next]_(Contract!vars)
  BY Refines, Answered
<1>2. Init => Contract!Init /\ RefInv
  BY Started
<1> QED
  BY <1>1, <1>2, Inductive, PTL DEF Spec, ImplementsContract, Contract!SafeSpec
================================================================================
