-------------------------- MODULE GrooveQueueRefinement -------------------------
(***************************************************************************)
(* GrooveQueueList implements GrooveQueue: what the queue holds is the      *)
(* chain of nodes from first, but for a call that is inside the mutex.      *)
(***************************************************************************)
EXTENDS GrooveQueueList, KeepSeq

\* Memory is bounded.
ASSUME NodeAssumption == IsFiniteSet(Node)

MaxLen == Cardinality(Node)          \* bound: one node per queued object

\* From n, nxt leads through the nodes of q, first to last.
LeadsThrough(q, n, nxt) ==
  /\ q = <<>> <=> n = Null
  /\ q # <<>> => q[1] = n
  /\ \A k \in DOMAIN q : nxt[q[k]] = IF k = Len(q) THEN Null ELSE q[k + 1]

Lists == UNION {[1 .. k -> Node] : k \in 0 .. MaxLen}

Chain(n) == CHOOSE q \in Lists : LeadsThrough(q, n, next)

Objects == [q \in Seq(Node) |-> [k \in DOMAIN q |-> obj[q[k]]]]

(***************************************************************************)
(* The calls are atomic.  flush and purge take effect when they enter, put  *)
(* when it signals and get when it returns the object.                     *)
(***************************************************************************)
\* As in GrooveQueue.
Rest(v) == [s \in Seq(Object) |-> Keep(s, Object \ v)]

AbstractQueue ==
  LET s == Objects[Chain(first)] IN
    CASE section = "flush"              -> <<>>
      [] section = "purge"              -> Rest(victims)[s]
      [] section \in {"put", "signal"}  -> Front(s)
      [] section = "got"                -> <<obj[el]>> \o s
      [] OTHER                          -> s

RoleOf == [t \in Sleepers |-> IF t \in Getter THEN "get" ELSE "peek"]
Use    == [getters |-> Getter, peekers |-> Peeker, aborts |-> MayAbort]

Contract == INSTANCE GrooveQueue WITH Thread <- Sleepers, Roles <- {Use}, roles <- Use,
                                      queue <- AbstractQueue, call <- RoleOf

\* The linked list implements the contract, results of the calls included.
ImplementsContract == Contract!SafeSpec
================================================================================
