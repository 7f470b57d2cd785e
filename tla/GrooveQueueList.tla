---------------------------- MODULE GrooveQueueList ----------------------------
(***************************************************************************)
(* src/src/queue.c down to its singly linked list: the nodes, the first and *)
(* last pointers, the loops of flush and purge one turn at a time, and the  *)
(* put/get/cleanup hooks, modelled by the byte count every user of the      *)
(* queue keeps with them (audioq_size: one per object here), which other    *)
(* threads read without the mutex.  It implements GrooveQueue, as           *)
(* GrooveQueueRefinement shows.                                            *)
(***************************************************************************)
EXTENDS Naturals, Integers, Sequences, FiniteSets, SequencesExt

CONSTANTS Node, Null, Object, NoObject, Getter, Peeker, Caller, NoThread, MayAbort

Sleepers == Getter \cup Peeker
Thread   == Sleepers \cup Caller

\* Who gets does not peek: a sleeper always sleeps in the same call.
ASSUME RolesAssumption == Getter \cap Peeker = {} /\ Sleepers \cap Caller = {}
ASSUME NullAssumption == Null \notin Node /\ NoThread \notin Thread

VARIABLES
  first, last,    \* pointers of the queue
  next, obj,      \* the fields of every node
  live,           \* the allocated nodes
  new,            \* per caller: the node put has filled but not yet linked
  abort_request,
  mutex,          \* the thread inside the critical section
  section,        \* and where in it that thread is
  el, prev,       \* the locals of get, flush and purge
  victims,        \* what the purge hook answers 1 for, this time
  accounted,      \* objects counted by the put hook, less get and cleanup
  waiting, ret    \* as in GrooveQueue

vars == <<first, last, next, obj, live, new, abort_request, mutex, section, el, prev,
          victims, accounted, waiting, ret>>
list == <<first, last, next, obj, live>>

Free == mutex = NoThread
Enter(t, s) == Free /\ mutex' = t /\ section' = s
In(t, s)    == mutex = t /\ section = s
\* The locals die with the section.
Leave       == /\ mutex' = NoThread /\ section' = "none"
               /\ el' = Null /\ prev' = Null /\ victims' = {}

\* DEALLOCATE: what the node held must not be read any more.
FreeNode(n) == live' = live \ {n} /\ obj' = [obj EXCEPT ![n] = NoObject]

Init ==
  /\ first = Null /\ last = Null
  /\ next = [n \in Node |-> Null]
  /\ obj = [n \in Node |-> NoObject]
  /\ live = {}
  /\ new = [t \in Caller |-> Null]
  /\ abort_request = FALSE
  /\ mutex = NoThread /\ section = "none"
  /\ el = Null /\ prev = Null /\ victims = {}
  /\ accounted = 0
  /\ waiting = [t \in Sleepers |-> "no"]
  /\ ret = [t \in Sleepers |-> [code |-> 0, obj |-> NoObject]]

Asleep == {t \in Sleepers : waiting[t] = "asleep"}

Signal ==
  \/ Asleep = {} /\ UNCHANGED waiting
  \/ \E t \in Asleep : waiting' = [waiting EXCEPT ![t] = "woken"]

Returns(t, c, o) ==
  /\ ret' = [ret EXCEPT ![t] = [code |-> c, obj |-> o]]
  /\ waiting' = [waiting EXCEPT ![t] = "no"]

--------------------------------------------------------------------------------
\* groove_queue_put: allocate and fill outside the mutex, then link, hook, signal.
PutAlloc(t, o) ==
  /\ new[t] = Null
  /\ mutex # t
  /\ \E n \in Node \ live :
       /\ live' = live \cup {n}
       /\ obj' = [obj EXCEPT ![n] = o]
       /\ next' = [next EXCEPT ![n] = Null]
       /\ new' = [new EXCEPT ![t] = n]
  /\ UNCHANGED <<first, last, abort_request, mutex, section, el, prev, victims, accounted,
                 waiting, ret>>

PutLink(t) ==
  /\ new[t] # Null
  /\ Enter(t, "put")
  /\ IF last = Null
     THEN first' = new[t] /\ UNCHANGED next
     ELSE next' = [next EXCEPT ![last] = new[t]] /\ UNCHANGED first
  /\ last' = new[t]
  /\ UNCHANGED <<obj, live, new, abort_request, el, prev, victims, accounted, waiting, ret>>

PutHook(t) ==
  /\ In(t, "put")
  /\ accounted' = accounted + 1
  /\ section' = "signal"
  /\ UNCHANGED <<list, new, abort_request, mutex, el, prev, victims, waiting, ret>>

\* Mutant of PutSignal: the signal is forgotten.
PutUnsignalled(t) ==
  /\ In(t, "signal")
  /\ Leave
  /\ new' = [new EXCEPT ![t] = Null]
  /\ UNCHANGED <<list, abort_request, accounted, waiting, ret>>

PutSignal(t) ==
  /\ In(t, "signal")
  /\ Signal
  /\ Leave
  /\ new' = [new EXCEPT ![t] = Null]
  /\ UNCHANGED <<list, abort_request, accounted, ret>>

--------------------------------------------------------------------------------
\* The loop of get and peek; only the removal of a node takes more than one step.
InLoop(t) == Free /\ waiting[t] \in {"no", "woken"}

Aborted(t) ==
  /\ InLoop(t)
  /\ abort_request
  /\ Returns(t, -1, NoObject)
  /\ UNCHANGED <<list, new, abort_request, mutex, section, el, prev, victims, accounted>>

GetPop(t) ==
  /\ InLoop(t)
  /\ ~abort_request
  /\ first # Null
  /\ Enter(t, "got")
  /\ el' = first
  /\ first' = next[first]
  /\ last' = IF next[first] = Null THEN Null ELSE last
  /\ UNCHANGED <<next, obj, live, new, abort_request, prev, victims, accounted, waiting, ret>>

GetHook(t) ==
  /\ In(t, "got")
  /\ accounted' = accounted - 1
  /\ Returns(t, 1, obj[el])
  /\ FreeNode(el)
  /\ Leave
  /\ UNCHANGED <<first, last, next, new, abort_request>>

PeekObject(t) ==
  /\ InLoop(t)
  /\ ~abort_request
  /\ first # Null
  /\ Returns(t, 1, NoObject)
  /\ UNCHANGED <<list, new, abort_request, mutex, section, el, prev, victims, accounted>>

Nothing(t) ==
  /\ Free
  /\ waiting[t] = "no"
  /\ ~abort_request
  /\ first = Null
  /\ Returns(t, 0, NoObject)
  /\ UNCHANGED <<list, new, abort_request, mutex, section, el, prev, victims, accounted>>

Sleep(t) ==
  /\ InLoop(t)
  /\ ~abort_request
  /\ first = Null
  /\ waiting' = [waiting EXCEPT ![t] = "asleep"]
  /\ UNCHANGED <<list, new, abort_request, mutex, section, el, prev, victims, accounted, ret>>

SpuriousWake(t) ==
  /\ waiting[t] = "asleep"
  /\ waiting' = [waiting EXCEPT ![t] = "woken"]
  /\ UNCHANGED <<list, new, abort_request, mutex, section, el, prev, victims, accounted, ret>>

--------------------------------------------------------------------------------
FlushStart(t) ==
  /\ new[t] = Null
  /\ Enter(t, "flush")
  /\ el' = first
  /\ UNCHANGED <<list, new, abort_request, prev, victims, accounted, waiting, ret>>

\* One turn of the loop: the cleanup hook, then the node is freed.
FlushOne(t) ==
  /\ In(t, "flush")
  /\ el # Null
  /\ accounted' = accounted - 1
  /\ FreeNode(el)
  /\ el' = next[el]
  /\ UNCHANGED <<first, last, next, new, abort_request, mutex, section, prev, victims,
                 waiting, ret>>

FlushEnd(t) ==
  /\ In(t, "flush")
  /\ el = Null
  /\ first' = Null /\ last' = Null
  /\ Leave
  /\ UNCHANGED <<next, obj, live, new, abort_request, accounted, waiting, ret>>

PurgeStart(t, v) ==
  /\ new[t] = Null
  /\ Enter(t, "purge")
  /\ el' = first
  /\ prev' = Null
  /\ victims' = v
  /\ UNCHANGED <<list, new, abort_request, accounted, waiting, ret>>

PurgeKeep(t) ==
  /\ In(t, "purge")
  /\ el # Null
  /\ obj[el] \notin victims
  /\ prev' = el
  /\ el' = next[el]
  /\ UNCHANGED <<list, new, abort_request, mutex, section, victims, accounted, waiting, ret>>

\* The cleanup hook and the release of a purged node, wherever it is.
Drop ==
  /\ el # Null
  /\ obj[el] \in victims
  /\ FreeNode(el)
  /\ el' = next[el]
  /\ UNCHANGED <<new, abort_request, mutex, section, prev, victims, waiting, ret>>

\* Mutant of PurgeInner: last still points at the node just freed.
PurgeInnerKeepsLast(t) ==
  /\ In(t, "purge")
  /\ prev # Null
  /\ Drop
  /\ accounted' = accounted - 1
  /\ next' = [next EXCEPT ![prev] = next[el]]
  /\ UNCHANGED <<first, last>>

PurgeInner(t) ==
  /\ In(t, "purge")
  /\ prev # Null
  /\ Drop
  /\ accounted' = accounted - 1
  /\ next' = [next EXCEPT ![prev] = next[el]]
  /\ last' = IF next[el] = Null THEN prev ELSE last
  /\ UNCHANGED first

\* Mutant of PurgeHead: the cleanup hook is not called for the first node.
PurgeHeadNoCleanup(t) ==
  /\ In(t, "purge")
  /\ prev = Null
  /\ Drop
  /\ first' = next[el]
  /\ last' = IF next[el] = Null THEN Null ELSE last
  /\ UNCHANGED <<next, accounted>>

PurgeHead(t) ==
  /\ In(t, "purge")
  /\ prev = Null
  /\ Drop
  /\ accounted' = accounted - 1
  /\ first' = next[el]
  /\ last' = IF next[el] = Null THEN Null ELSE last
  /\ UNCHANGED next

PurgeEnd(t) ==
  /\ In(t, "purge")
  /\ el = Null
  /\ Leave
  /\ UNCHANGED <<list, new, abort_request, accounted, waiting, ret>>

Abort ==
  /\ MayAbort
  /\ Free
  /\ abort_request' = TRUE
  /\ Signal
  /\ UNCHANGED <<list, new, mutex, section, el, prev, victims, accounted, ret>>

Reset ==
  /\ Free
  /\ abort_request' = FALSE
  /\ UNCHANGED <<list, new, mutex, section, el, prev, victims, accounted, waiting, ret>>

CallerStep(t) ==
  \/ \E o \in Object : PutAlloc(t, o)
  \/ PutLink(t) \/ PutHook(t) \/ PutSignal(t)
  \/ FlushStart(t) \/ FlushOne(t) \/ FlushEnd(t)
  \/ \E v \in SUBSET Object : PurgeStart(t, v)
  \/ PurgeKeep(t) \/ PurgeInner(t) \/ PurgeHead(t) \/ PurgeEnd(t)

Next ==
  \/ \E t \in Caller : CallerStep(t)
  \/ \E t \in Getter : GetPop(t) \/ GetHook(t)
  \/ \E t \in Peeker : PeekObject(t)
  \/ \E t \in Sleepers : Aborted(t) \/ Nothing(t) \/ Sleep(t) \/ SpuriousWake(t)
  \/ Abort
  \/ Reset

Spec == Init /\ [][Next]_vars

--------------------------------------------------------------------------------
TypeOK ==
  /\ {first, last, el, prev} \subseteq Node \cup {Null}
  /\ next \in [Node -> Node \cup {Null}]
  /\ obj \in [Node -> Object \cup {NoObject}]
  /\ live \subseteq Node
  /\ new \in [Caller -> live \cup {Null}]
  /\ mutex \in Thread \cup {NoThread}
  /\ victims \subseteq Object
  /\ accounted \in Nat

\* From start, next leads through the nodes of S, each of them once, to end.
Linked(S, start, end, nxt) ==
  /\ start \in S \cup {Null} /\ (start = Null <=> S = {})
  /\ S # {} => end \in S
  /\ \A n \in S : IF n = end THEN nxt[n] = Null ELSE nxt[n] \in S \ {start}
  /\ \A m, n \in S : nxt[m] = nxt[n] => m = n
  /\ \A V \in SUBSET S : start \in V /\ (\A n \in V : nxt[n] \in V \cup {Null}) => V = S

\* Between two calls these are the nodes of the queue: all but those that a
\* caller of put has filled and not linked.
Queued == live \ Range(new)

(***************************************************************************)
(* Whenever nobody is inside, the list is sound: it leads through every     *)
(* allocated node but those about to be linked, and ends in last (nothing   *)
(* reachable was freed, nothing unreachable was forgotten), whatever puts,  *)
(* gets, flushes and purges came before.                                   *)
(***************************************************************************)
WellLinked ==
  /\ TypeOK
  /\ Free => Linked(Queued, first, last, next) /\ (last = Null <=> Queued = {})

(***************************************************************************)
(* Whenever nobody is inside, the count kept by the hooks is the length of  *)
(* the queue: put counts every object once and exactly one of get and       *)
(* cleanup uncounts it.                                                    *)
(***************************************************************************)
HooksBalanced == Free => accounted = Cardinality(Queued)
================================================================================
