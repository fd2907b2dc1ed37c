----------------------- MODULE MemQBrokerProperties -----------------------
(***************************************************************************)
(* What makes the broker of MemQBroker correct.                            *)
(***************************************************************************)
EXTENDS MemQBroker

\* The labels of a handler that wrote b.mu's announcement, and of one that
\* is past the wait for the readers; likewise for q.mu.
BWriting == {"creating", "inserting", "deleting", "draining", "drain_lock",
             "drain_clear", "drain_count"}
BGranted == {"inserting", "drain_lock", "drain_clear", "drain_count"}
BReading == {"put_find", "get_find", "stats_next", "stats_row"}
QWriting == {"put_append", "put_count", "get_head", "get_pop", "get_count",
             "drain_clear", "drain_count"}
QGranted == {"put_count", "get_pop", "get_count", "drain_count"}
\* The labels at which a handler's q is in scope, with DrainQueue's apart.
Draining == {"drain_lock", "drain_clear", "drain_count"}
HasQueue == Draining \cup {"put_new", "put_lock", "put_append", "put_count",
             "get_lock", "get_head", "get_pop", "get_count", "stats_row"}

BrokerTypes ==
  /\ queues \in [Names -> Queues \cup {Nil}]
  /\ heap \in [Queues -> Queue]
  /\ drawn \subseteq Messages
  /\ arrived \in [Queues -> Seq(Messages)]
  /\ taken \in [Queues -> Seq(Messages)]

MutexTypes ==
  /\ bmu \in M!Mutex(Handlers)
  /\ qmu \in [Queues -> M!Mutex(Handlers)]

HandlerTypes ==
  /\ pc \in [Handlers -> Labels]
  /\ arg \in [Handlers -> Names \cup {Nil}]
  /\ ptr \in [Handlers -> Queues \cup {Nil}]
  /\ msg \in [Handlers -> Messages \cup {Nil}]
  /\ todo \in [Handlers -> SUBSET Names]
  /\ rows \in [Handlers -> SUBSET Stat]
  /\ status \in [Handlers -> {0, 200, 204, 400, 500}]

\* What a handler's label says of its locals.
HandlerScope(h) ==
  /\ ptr[h] # Nil <=> pc[h] \in HasQueue
  /\ pc[h] \notin {"idle", "reply"} => arg[h] \in Names
  /\ pc[h] \in {"put_lock", "put_append", "get_pop"} => msg[h] # Nil
  /\ pc[h] \in {"idle", "stats"} => rows[h] = {}

Scopes == \A h \in Handlers : HandlerScope(h)

\* Every variable has its type; and no handler dereferences a nil *Queue or
\* stores a nil *Message: whoever works on a queue found one (the ok of every
\* map lookup is tested), whoever appends made a message.
TypeOK == BrokerTypes /\ MutexTypes /\ HandlerTypes /\ Scopes

\* The books of a queue balance.
Balanced(q) ==
  /\ q.depth = Len(q.messages)
  /\ q.enqueued = q.dequeued + q.drained + q.depth

\* Whenever nobody is between the assignments of a critical section of q.mu,
\* Depth is the number of messages and every message ever enqueued is still
\* there, was dequeued or was drained: counters written at different lines of
\* PutMessage, GetMessage and DrainQueue never drift from the messages.
Ledger ==
  \A q \in Queues : qmu[q].writer = Nil => Balanced(heap[q])

\* Stats never reports a row torn by a concurrent writer: Enqueued =
\* Dequeued + Drained + Depth in every row, whatever runs meanwhile.
StatsNotTorn ==
  \A h \in Handlers : \A r \in rows[h] :
    r.enqueued = r.dequeued + r.drained + r.depth

\* Of the messages in that arrived, those left are the latest, and those handed
\* out are among the others, in their order.
Fifo(left, out, in) ==
  LET n == Len(in)
  IN  /\ left = SubSeq(in, n - Len(left) + 1, n)
      /\ \A i \in 1..Len(out) : \E k \in 1..(n - Len(left)) : in[k] = out[i]
      /\ \A i, j \in 1..Len(out) : i < j =>
           \E k, l \in 1..(n - Len(left)) :
             k < l /\ in[k] = out[i] /\ in[l] = out[j]

\* Every message that arrived at a queue was handed out, is left or is counted
\* as drained.
Accounted(q) ==
  Len(arrived[q]) = Len(taken[q]) + heap[q].drained + Len(heap[q].messages)

\* Messages leave a queue in the order in which they arrived, each at most
\* once, and those left are exactly the latest to arrive: no GetMessage hands
\* out a message that another has or passes over one that stays.  And whenever
\* q.mu is free, as many as are neither left nor handed out were drained: no
\* GetMessage loses one.
FirstInFirstOut ==
  \A q \in Queues :
    /\ Fifo(heap[q].messages, taken[q], arrived[q])
    /\ qmu[q].writer = Nil => Accounted(q)

\* While DrainQueue and Stats work on a queue it is still the queue of that
\* name, the name CreateQueue found free is free when it inserts, and Stats
\* reports or has yet to visit every queue of the broker: no CreateQueue or
\* DeleteQueue comes in between.
DirectoryStable ==
  \A h \in Handlers :
    /\ pc[h] \in Draining \cup {"stats_row"} => ptr[h] = queues[arg[h]]
    /\ pc[h] = "inserting" => queues[arg[h]] = Nil
    /\ pc[h] \in {"stats_next", "stats_row"} =>
         {r.name : r \in rows[h]} \cup todo[h]
           \cup (IF pc[h] = "stats_row" THEN {arg[h]} ELSE {}) = Attached

\* A mutex names exactly the handlers that are in its critical sections (or,
\* the writer, at its threshold), and a writer that went in is alone there.
Exclusion ==
  /\ \A h \in Handlers : bmu.writer = h <=> pc[h] \in BWriting
  /\ \A h \in Handlers : h \in bmu.readers <=> pc[h] \in BReading
  /\ \A h \in Handlers : pc[h] \in BGranted => bmu.readers = {}
  /\ \A h \in Handlers, q \in Queues :
       qmu[q].writer = h <=> pc[h] \in QWriting /\ ptr[h] = q
  /\ \A h \in Handlers, q \in Queues :
       h \in qmu[q].readers <=> pc[h] = "stats_row" /\ ptr[h] = q
  /\ \A h \in Handlers : pc[h] \in QGranted => qmu[ptr[h]].readers = {}

\* The books of a queue balance unless some h is between two assignments
\* of a critical section of it, and then one known counter is behind.
Midway == {"put_count", "get_count", "drain_count", "get_pop"}
Half(label, q) ==
  /\ label = "get_pop" => Balanced(q) /\ q.messages # <<>>
  /\ label \in {"put_count", "get_count"} => q.depth = Len(q.messages)
  /\ label = "put_count" =>
       q.enqueued + 1 = q.dequeued + q.drained + q.depth
  /\ label = "get_count" =>
       q.enqueued = q.dequeued + 1 + q.drained + q.depth
  /\ label = "drain_count" =>
       q.messages = <<>> /\ q.enqueued = q.dequeued + q.drained

Books(q) ==
  /\ (\A h \in Handlers : ptr[h] = q => pc[h] \notin Midway) => Balanced(heap[q])
  /\ \A h \in Handlers : ptr[h] = q => Half(pc[h], heap[q])

AllBooks == \A q \in Queues : Books(q)

\* A handler has a message in hand only between the line that makes or reads
\* it and its answer, and the one GetMessage is about to remove is the first
\* of its queue.
InHand ==
  \A h \in Handlers :
    /\ msg[h] # Nil => pc[h] \in {"put_lock", "put_append", "put_count", "get_pop",
                                 "get_count", "reply"}
    /\ pc[h] = "get_pop" => msg[h] = Head(heap[ptr[h]].messages)

\* The same with a witness: gone messages have left the queue.
Gone(gone, left, out, in) ==
  /\ left = SubSeq(in, gone + 1, Len(in))
  /\ \A i \in 1..Len(out) : \E k \in 1..gone : in[k] = out[i]
  /\ \A i, j \in 1..Len(out) : i < j =>
       \E k, l \in 1..gone : k < l /\ in[k] = out[i] /\ in[l] = out[j]

InOrder(left, out, in) == \E gone \in 0..Len(in) : Gone(gone, left, out, in)

AllInOrder == \A q \in Queues : InOrder(heap[q].messages, taken[q], arrived[q])
AllAccounted == \A q \in Queues : Accounted(q)

\* The inductive invariant from which the invariants above are proved: what
\* the mutexes exclude, how far off a queue's books are at each label, where
\* the messages in hand and out of hand stood in their queue, and that none
\* is lost.
Inductive ==
  /\ TypeOK /\ Exclusion /\ DirectoryStable /\ AllBooks /\ StatsNotTorn
  /\ InHand /\ AllInOrder /\ AllAccounted

\* Two CreateQueue calls of one name never both succeed: a queue that is in
\* the map, with its messages, is never replaced by another.
NeverReplaced ==
  [][\A n \in Names : queues[n] # Nil => queues'[n] \in {queues[n], Nil}]_vars

\* Every request is answered: no handler waits for ever for b.mu or q.mu, in
\* particular not a writer behind ever new readers, nor Stats and DrainQueue,
\* which wait for q.mu while they hold b.mu.
EveryRequestAnswered ==
  \A h \in Handlers : pc[h] # "idle" ~> pc[h] = "idle"

-----------------------------------------------------------------------------
(* The broker implements AtomicBroker.  An enqueue takes effect when the   *)
(* message is appended, a dequeue when it is popped, a drain when the      *)
(* messages are dropped; the counters of a queue follow a step later.      *)

In(label, q) == \E h \in Handlers : pc[h] = label /\ ptr[h] = q

Store(q) ==
  [enqueued |-> heap[q].enqueued + (IF In("put_count", q) THEN 1 ELSE 0),
   dequeued |-> heap[q].dequeued + (IF In("get_count", q) THEN 1 ELSE 0),
   drained  |-> heap[q].drained,
   messages |-> heap[q].messages]

UsesQueue == {"put_new", "put_lock", "put_append", "get_lock", "get_head",
              "get_pop"}
Answering == {"put_count", "get_count", "reply"}

storeBar  == [q \in Queues |-> Store(q)]
foundBar  == [h \in Handlers |-> IF pc[h] \in UsesQueue THEN ptr[h] ELSE Nil]
answerBar == [h \in Handlers |-> IF pc[h] \in Answering THEN msg[h] ELSE Nil]

Atomic == INSTANCE AtomicBroker WITH
  store <- storeBar, found <- foundBar, answer <- answerBar

\* Requests that run concurrently act as if each took effect at one instant,
\* as AtomicBroker has it; a dequeue answers with the message that was the
\* first of the queue at that instant.
ImplementsAtomicBroker == Atomic!Spec
=============================================================================
