------------------------------ MODULE GrooveQueue ------------------------------
(***************************************************************************)
(* What groove_queue_* (src/src/queue.c) promises its callers: one mutex,   *)
(* one condition variable and an unbounded FIFO of object pointers.  Every  *)
(* call runs under the mutex from its first to its last line, except while  *)
(* it sleeps in pthread_cond_wait, so a call is one atomic step, cut in two *)
(* at most by a sleep.  GrooveQueueList refines this module down to the     *)
(* linked list; Playlist builds its audio queues the same way.              *)
(*                                                                         *)
(* Threads that only make calls which never sleep need no identity here.    *)
(***************************************************************************)
EXTENDS KeepSeq, Integers, FiniteSets

CONSTANTS
  Object,     \* what may be put: the pointers handed to groove_queue_put
  Thread,     \* the threads that may sleep on the queue
  Roles,      \* what the queue may be used for.  Of each use:
              \*   getters  threads that may sleep in groove_queue_get(q, &o, 1)
              \*   peekers  those that may sleep in groove_queue_peek(q, 1), some
              \*            of the getters perhaps
              \*   aborts   does the application ever call groove_queue_abort?
  MaxLen,     \* bound of the model: the C queue is limited by memory only
  NoObject    \* what *obj_ptr holds when nothing was returned

ASSUME ThreadAssumption == IsFiniteSet(Thread)
ASSUME RolesAssumption  ==
  Roles \subseteq [getters : SUBSET Thread, peekers : SUBSET Thread, aborts : BOOLEAN]
ASSUME LenAssumption    == MaxLen \in Nat
ASSUME ObjectAssumption == NoObject \notin Object

VARIABLES
  roles,          \* which of Roles it is
  queue,          \* the objects, first to last
  abort_request,  \* set by abort, cleared by reset
  waiting,        \* per thread: not in a sleep, asleep on the cond, or
                  \* signalled but not yet through the loop again
  call,           \* per thread: the call it slept in last
  ret             \* per thread: what its last call returned

vars == <<roles, queue, abort_request, waiting, call, ret>>

Getters  == roles.getters
Peekers  == roles.peekers
CanAbort == roles.aborts
Blocking == Getters \cup Peekers

Result == [code : {-1, 0, 1}, obj : Object \cup {NoObject}]

Returns(t, c, o) ==
  /\ ret' = [ret EXCEPT ![t] = [code |-> c, obj |-> o]]
  /\ waiting' = [waiting EXCEPT ![t] = "no"]

Asleep == {t \in Thread : waiting[t] = "asleep"}
Woken  == {t \in Thread : waiting[t] = "woken"}

\* pthread_cond_signal: one sleeper is released, if there is one.
Signal ==
  \/ Asleep = {} /\ UNCHANGED waiting
  \/ \E t \in Asleep : waiting' = [waiting EXCEPT ![t] = "woken"]

Init ==
  /\ roles \in Roles
  /\ queue = <<>>
  /\ abort_request = FALSE
  /\ waiting = [t \in Thread |-> "no"]
  /\ call = [t \in Thread |-> IF t \in Getters THEN "get" ELSE "peek"]
  /\ ret = [t \in Thread |-> [code |-> 0, obj |-> NoObject]]

\* Mutants of Put: no signal; a signal only when the queue was empty; the
\* object pointer never stored in the element.
PutSilent(o) ==
  /\ Len(queue) < MaxLen
  /\ queue' = Append(queue, o)
  /\ UNCHANGED <<abort_request, waiting, call, ret>>

PutSignalsFirst(o) ==
  /\ Len(queue) < MaxLen
  /\ queue' = Append(queue, o)
  /\ IF queue = <<>> THEN Signal ELSE UNCHANGED waiting
  /\ UNCHANGED <<abort_request, call, ret>>

PutUnset(o) ==
  /\ Len(queue) < MaxLen
  /\ queue' = Append(queue, NoObject)
  /\ Signal
  /\ UNCHANGED <<abort_request, call, ret>>

Put(o) ==
  /\ Len(queue) < MaxLen
  /\ queue' = Append(queue, o)
  /\ Signal
  /\ UNCHANGED <<abort_request, call, ret>>

(***************************************************************************)
(* One turn of the for(;;) loop of get and peek, by a thread that just      *)
(* locked the mutex or came out of the wait.  The abort test comes first.   *)
(***************************************************************************)
InLoop(t, c) == waiting[t] = "no" \/ (waiting[t] = "woken" /\ call[t] = c)

Aborted(t) ==
  /\ abort_request
  /\ Returns(t, -1, NoObject)
  /\ UNCHANGED <<queue, abort_request, call>>

GetObject(t) ==
  /\ ~abort_request
  /\ queue # <<>>
  /\ queue' = Tail(queue)
  /\ Returns(t, 1, Head(queue))
  /\ UNCHANGED <<abort_request, call>>

PeekObject(t) ==
  /\ ~abort_request
  /\ queue # <<>>
  /\ Returns(t, 1, NoObject)
  /\ UNCHANGED <<queue, abort_request, call>>

\* block = 0: only a call that has not slept can be a non-blocking one.
Nothing(t) ==
  /\ waiting[t] = "no"
  /\ ~abort_request
  /\ queue = <<>>
  /\ Returns(t, 0, NoObject)
  /\ UNCHANGED <<queue, abort_request, call>>

Sleep(t, c) ==
  /\ ~abort_request
  /\ queue = <<>>
  /\ waiting' = [waiting EXCEPT ![t] = "asleep"]
  /\ call' = [call EXCEPT ![t] = c]
  /\ UNCHANGED <<queue, abort_request, ret>>

Get(t)  == InLoop(t, "get")  /\ (Aborted(t) \/ GetObject(t)  \/ Nothing(t) \/ Sleep(t, "get"))
Peek(t) == InLoop(t, "peek") /\ (Aborted(t) \/ PeekObject(t) \/ Nothing(t) \/ Sleep(t, "peek"))

\* pthread_cond_wait may return without a signal.
SpuriousWake(t) ==
  /\ waiting[t] = "asleep"
  /\ waiting' = [waiting EXCEPT ![t] = "woken"]
  /\ UNCHANGED <<queue, abort_request, call, ret>>

Flush ==
  /\ queue' = <<>>
  /\ UNCHANGED <<abort_request, waiting, call, ret>>

\* purge drops every object the purge hook answers 1 for; the others stay in order.
Rest(victims) == [q \in Seq(Object) |-> Keep(q, Object \ victims)]

Purge(victims) ==
  /\ queue' = Rest(victims)[queue]
  /\ UNCHANGED <<abort_request, waiting, call, ret>>

\* Mutant of Abort: the flag is set and nobody is told.
AbortSilent ==
  /\ CanAbort
  /\ abort_request' = TRUE
  /\ UNCHANGED <<queue, waiting, call, ret>>

Abort ==
  /\ CanAbort
  /\ abort_request' = TRUE
  /\ Signal
  /\ UNCHANGED <<queue, call, ret>>

Reset ==
  /\ abort_request' = FALSE
  /\ UNCHANGED <<queue, waiting, call, ret>>

Step ==
  \/ \E o \in Object : Put(o)
  \/ \E t \in Getters : Get(t)
  \/ \E t \in Peekers : Peek(t)
  \/ \E t \in Thread : SpuriousWake(t)
  \/ Flush
  \/ \E victims \in SUBSET Object : Purge(victims)
  \/ Abort
  \/ Reset

Next == Step /\ UNCHANGED roles

(***************************************************************************)
(* A signalled thread is runnable and the mutex is only ever held for the   *)
(* length of a call, so it gets through its loop again.  Nothing makes the  *)
(* application call anything, and no sleep ends by itself.                  *)
(***************************************************************************)
Resume(t) == waiting[t] = "woken" /\ ((t \in Getters /\ Get(t)) \/ (t \in Peekers /\ Peek(t)))

SafeSpec == Init /\ [][Next]_vars
Spec     == SafeSpec /\ \A t \in Thread : WF_vars(Resume(t) /\ UNCHANGED roles)

--------------------------------------------------------------------------------

TypeOK ==
  /\ roles \in Roles
  /\ queue \in Seq(Object)
  /\ abort_request \in BOOLEAN
  /\ waiting \in [Thread -> {"no", "asleep", "woken"}]
  /\ \A t \in Thread \ Blocking : waiting[t] = "no"
  /\ call \in [Thread -> {"get", "peek"}]
  /\ ret \in [Thread -> Result]

(***************************************************************************)
(* With a single thread that blocks (how every queue of libgroove is meant  *)
(* to be read), that thread never sleeps on a queue that holds something    *)
(* or that has been aborted: put and abort signal once, and once is enough. *)
(***************************************************************************)
SoleWaiterNotStranded ==
  Cardinality(Blocking) = 1 =>
    \A t \in Asleep : queue = <<>> /\ ~abort_request

(***************************************************************************)
(* With any number of blocked getters, no peeker and no abort, one signal   *)
(* per put is enough: while somebody still sleeps there are at least as     *)
(* many threads on their way to the queue as there are objects in it.       *)
(***************************************************************************)
GettersNotStranded ==
  Peekers = {} /\ ~CanAbort =>
    (Asleep # {} => Len(queue) <= Cardinality(Woken))

(***************************************************************************)
(* groove_queue_get returns -1 "if aborted" (queue.h): a thread blocked     *)
(* when abort is called comes out, unless reset comes first.                *)
(***************************************************************************)
AbortReturns ==
  \A t \in Thread :
    (waiting[t] # "no" /\ abort_request) ~> (waiting[t] = "no" \/ ~abort_request)
================================================================================
