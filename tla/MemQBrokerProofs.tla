-------------------------- MODULE MemQBrokerProofs --------------------------
(***************************************************************************)
(* The invariants of MemQBroker for any number of handlers, names, queue   *)
(* objects and messages.                                                   *)
(***************************************************************************)
EXTENDS MemQBrokerProperties, TLAPS, SequenceTheorems

USE NilAssumption

-----------------------------------------------------------------------------
(* Operations on the values of mutexes and queues.                         *)

\* The four operations map mutexes to mutexes.
LEMMA MutexOps ==
  ASSUME NEW m \in M!Mutex(Handlers), NEW u \in Handlers
  PROVE  /\ M!RLock(m, u) \in M!Mutex(Handlers)
         /\ M!RUnlock(m, u) \in M!Mutex(Handlers)
         /\ M!Lock(m, u) \in M!Mutex(Handlers)
         /\ M!Unlock(m) \in M!Mutex(Handlers)
  BY DEF M!Mutex, M!RLock, M!RUnlock, M!Lock, M!Unlock

\* A new queue balances.
LEMMA NewQueueOps == newQueue \in Queue /\ Balanced(newQueue)
  BY DEF newQueue, Queue, Balanced

\* Dropping all messages leaves only Depth to be reset.
LEMMA ClearedOps ==
  ASSUME NEW q \in Queue, Balanced(q)
  PROVE  Cleared(q) \in Queue /\ Half("drain_count", Cleared(q))
<1>1. <<>> \in Seq(Messages) OBVIOUS
<1>2. q.drained + q.depth \in Int BY DEF Queue
<1>3. Cleared(q) \in Queue BY <1>1, <1>2 DEF Queue, Cleared
<1>4. /\ Cleared(q).messages = <<>>
      /\ Cleared(q).drained = q.drained + q.depth
      /\ Cleared(q).enqueued = q.enqueued
      /\ Cleared(q).dequeued = q.dequeued
  BY <1>1, <1>2 DEF Queue, Cleared
<1> QED BY <1>1, <1>3, <1>4 DEF Queue, Half, Balanced

\* Appending a message leaves only Enqueued to be counted.
LEMMA AppendedOps ==
  ASSUME NEW q \in Queue, NEW m \in Messages, Balanced(q)
  PROVE  Appended(q, m) \in Queue /\ Half("put_count", Appended(q, m))
<1>1. /\ Append(q.messages, m) \in Seq(Messages)
      /\ Len(Append(q.messages, m)) = Len(q.messages) + 1
  BY DEF Queue
<1>2. q.depth + 1 \in Int BY DEF Queue
<1>3. Appended(q, m) \in Queue BY <1>1, <1>2 DEF Queue, Appended
<1>4. /\ Appended(q, m).messages = Append(q.messages, m)
      /\ Appended(q, m).depth = q.depth + 1
      /\ Appended(q, m).enqueued = q.enqueued
      /\ Appended(q, m).dequeued = q.dequeued
      /\ Appended(q, m).drained = q.drained
  BY <1>1, <1>2 DEF Queue, Appended
<1> QED BY <1>1, <1>3, <1>4 DEF Queue, Half, Balanced

\* Removing the first message leaves only Dequeued to be counted.
LEMMA PoppedOps ==
  ASSUME NEW q \in Queue, Balanced(q), q.messages # <<>>
  PROVE  Popped(q) \in Queue /\ Half("get_count", Popped(q))
<1>1. /\ Tail(q.messages) \in Seq(Messages)
      /\ Len(Tail(q.messages)) = Len(q.messages) - 1
  BY DEF Queue
<1>2. q.depth - 1 \in Int BY DEF Queue
<1>3. Popped(q) \in Queue BY <1>1, <1>2 DEF Queue, Popped
<1>4. /\ Popped(q).messages = Tail(q.messages)
      /\ Popped(q).depth = q.depth - 1
      /\ Popped(q).enqueued = q.enqueued
      /\ Popped(q).dequeued = q.dequeued
      /\ Popped(q).drained = q.drained
  BY <1>1, <1>2 DEF Queue, Popped
<1> QED BY <1>1, <1>3, <1>4 DEF Queue, Half, Balanced

\* Each last assignment of a critical section makes the books balance.
LEMMA CountedOps ==
  ASSUME NEW q \in Queue
  PROVE  LET put == [q EXCEPT !.enqueued = @ + 1]
             get == [q EXCEPT !.dequeued = @ + 1]
             drain == [q EXCEPT !.depth = 0]
         IN  /\ put \in Queue /\ (Half("put_count", q) => Balanced(put))
             /\ get \in Queue /\ (Half("get_count", q) => Balanced(get))
             /\ drain \in Queue /\ (Half("drain_count", q) => Balanced(drain))
  BY DEF Queue, Half, Balanced

-----------------------------------------------------------------------------
(* The order of the messages of one queue.                                 *)

\* A new queue is in order.
LEMMA OrderNew == InOrder(<<>>, <<>>, <<>>)
  BY DEF InOrder, Gone

\* The messages that have not left a queue, one by one.
LEMMA LeftAreLast ==
  ASSUME NEW in \in Seq(Messages), NEW gone \in 0..Len(in)
  PROVE  LET left == SubSeq(in, gone + 1, Len(in))
         IN  /\ left \in Seq(Messages) /\ Len(left) = Len(in) - gone
             /\ \A i \in 1..Len(in) - gone : left[i] = in[gone + i]
<1>1. gone + 1 \in Int /\ Len(in) \in Int /\ Len(in) \in Nat /\ gone \in Nat
  BY LenProperties
<1>2. \A i \in gone + 1 .. Len(in) : in[i] \in Messages
  BY <1>1, ElementOfSeq
<1> DEFINE left == SubSeq(in, gone + 1, Len(in))
<1>3. /\ left \in Seq(Messages)
      /\ Len(left) = IF gone + 1 <= Len(in) THEN Len(in) - (gone + 1) + 1 ELSE 0
      /\ \A i \in 1..Len(in) - (gone + 1) + 1 : left[i] = in[gone + 1 + i - 1]
  BY <1>1, <1>2, SubSeqProperties
<1> HIDE DEF left
<1>4. Len(left) = Len(in) - gone
  BY <1>1, <1>3
<1>5. ASSUME NEW i \in 1..Len(in) - gone PROVE left[i] = in[gone + i]
  <2>1. i \in 1..Len(in) - (gone + 1) + 1 /\ gone + 1 + i - 1 = gone + i
    BY <1>1
  <2> QED BY <1>3, <2>1
<1> QED BY <1>3, <1>4, <1>5 DEF left

\* A message that arrives keeps the order.
LEMMA OrderAppended ==
  ASSUME NEW left \in Seq(Messages), NEW out \in Seq(Messages),
         NEW in \in Seq(Messages), NEW m \in Messages, InOrder(left, out, in)
  PROVE  InOrder(Append(left, m), out, Append(in, m))
<1> DEFINE more == Append(in, m)
           rest == Append(left, m)
<1>1. PICK gone \in 0..Len(in) : Gone(gone, left, out, in)
  BY DEF InOrder
<1>2. /\ more \in Seq(Messages) /\ Len(more) = Len(in) + 1
      /\ \A k \in 1..Len(in) : more[k] = in[k]
      /\ more[Len(in) + 1] = m
      /\ rest \in Seq(Messages) /\ Len(rest) = Len(left) + 1
      /\ \A k \in 1..Len(left) : rest[k] = left[k]
      /\ rest[Len(left) + 1] = m
      /\ Len(in) \in Nat /\ Len(left) \in Nat
  BY AppendProperties, LenProperties
<1> HIDE DEF more, rest
<1>3. /\ Len(left) = Len(in) - gone /\ gone \in 0..Len(more)
      /\ \A i \in 1..Len(in) - gone : left[i] = in[gone + i]
  BY <1>1, <1>2, LeftAreLast DEF Gone
<1> DEFINE tail == SubSeq(more, gone + 1, Len(more))
<1>4. /\ tail \in Seq(Messages) /\ Len(tail) = Len(more) - gone
      /\ \A i \in 1..Len(more) - gone : tail[i] = more[gone + i]
  BY <1>2, <1>3, LeftAreLast
<1> HIDE DEF tail
<1>5. rest = tail
  <2>1. Len(rest) = Len(tail)
    BY <1>2, <1>3, <1>4
  <2>2. ASSUME NEW i \in 1..Len(rest) PROVE rest[i] = tail[i]
    <3>1. tail[i] = more[gone + i]
      BY <1>2, <1>3, <1>4
    <3>2. CASE i = Len(left) + 1
      BY <1>2, <1>3, <3>1, <3>2
    <3>3. CASE i \in 1..Len(left)
      <4>1. gone + i \in 1..Len(in) BY <1>2, <1>3, <3>3
      <4> QED BY <1>2, <1>3, <3>1, <3>3, <4>1
    <3> QED BY <1>2, <2>2, <3>2, <3>3
  <2> QED BY <1>2, <1>4, <2>1, <2>2, SeqEqual
<1>6. \A k \in 1..gone : more[k] = in[k]
  BY <1>2
<1>7. Gone(gone, rest, out, more)
  BY <1>1, <1>5, <1>6 DEF Gone, tail
<1> QED BY <1>3, <1>7 DEF InOrder, more, rest

\* So does the first message of a queue that is taken from it.
LEMMA OrderPopped ==
  ASSUME NEW left \in Seq(Messages), NEW out \in Seq(Messages),
         NEW in \in Seq(Messages), left # <<>>, InOrder(left, out, in)
  PROVE  InOrder(Tail(left), Append(out, Head(left)), in)
<1> DEFINE m == Head(left)
           taker == Append(out, m)
           rest == Tail(left)
<1>1. PICK gone \in 0..Len(in) : Gone(gone, left, out, in)
  BY DEF InOrder
<1>2. /\ Len(in) \in Nat /\ Len(left) \in Nat \ {0} /\ Len(out) \in Nat
      /\ m \in Messages
  BY LenProperties, EmptySeq, HeadTailProperties
<1>3. /\ Len(taker) = Len(out) + 1
      /\ \A i \in 1..Len(out) : taker[i] = out[i]
      /\ taker[Len(out) + 1] = m
  BY <1>2, AppendProperties
<1>4. gone \in Nat /\ gone + 1 \in 1..Len(in) /\ Len(in) \in gone + 1 .. Len(in)
  BY <1>1, <1>2, LeftAreLast DEF Gone
<1>5. m = in[gone + 1] /\ rest = SubSeq(in, gone + 1 + 1, Len(in))
  <2>1. left = SubSeq(in, gone + 1, Len(in))
    BY <1>1 DEF Gone
  <2>2. /\ Head(SubSeq(in, gone + 1, Len(in))) = in[gone + 1]
        /\ Tail(SubSeq(in, gone + 1, Len(in))) = SubSeq(in, gone + 1 + 1, Len(in))
    BY <1>4, HeadTailOfSubSeq
  <2> QED BY <2>1, <2>2, Zenon
<1> HIDE DEF taker, m, rest
<1>6. \A i \in 1..Len(taker) : \E k \in 1..gone + 1 : in[k] = taker[i]
  <2> SUFFICES ASSUME NEW i \in 1..Len(taker)
               PROVE  \E k \in 1..gone + 1 : in[k] = taker[i]
    OBVIOUS
  <2>1. CASE i = Len(out) + 1 BY <1>3, <1>4, <1>5, <2>1
  <2>2. CASE i \in 1..Len(out) BY <1>1, <1>3, <1>4, <2>2 DEF Gone
  <2> QED BY <1>2, <1>3, <2>1, <2>2
<1>7. \A i, j \in 1..Len(taker) : i < j =>
        \E k, l \in 1..gone + 1 : k < l /\ in[k] = taker[i] /\ in[l] = taker[j]
  <2> SUFFICES ASSUME NEW i \in 1..Len(taker), NEW j \in 1..Len(taker), i < j
               PROVE  \E k, l \in 1..gone + 1 :
                        k < l /\ in[k] = taker[i] /\ in[l] = taker[j]
    OBVIOUS
  <2>1. i \in 1..Len(out) BY <1>2, <1>3
  <2>2. CASE j = Len(out) + 1
    <3>1. PICK k \in 1..gone : in[k] = out[i] BY <1>1, <2>1 DEF Gone
    <3>2. k < gone + 1 /\ k \in 1..gone + 1 /\ gone + 1 \in 1..gone + 1
      BY <1>4
    <3> QED BY <1>3, <1>5, <2>1, <2>2, <3>1, <3>2
  <2>3. CASE j \in 1..Len(out)
    <3>1. PICK k \in 1..gone, l \in 1..gone :
            k < l /\ in[k] = out[i] /\ in[l] = out[j]
      BY <1>1, <2>1, <2>3 DEF Gone
    <3> QED BY <1>3, <1>4, <2>1, <2>3, <3>1
  <2> QED BY <1>2, <1>3, <2>2, <2>3
<1>8. Gone(gone + 1, rest, taker, in) /\ gone + 1 \in 0..Len(in)
  BY <1>4, <1>5, <1>6, <1>7 DEF Gone
<1> QED BY <1>8 DEF InOrder, taker, m, rest

\* So does dropping all that are left.
LEMMA OrderCleared ==
  ASSUME NEW left \in Seq(Messages), NEW out \in Seq(Messages),
         NEW in \in Seq(Messages), InOrder(left, out, in)
  PROVE  InOrder(<<>>, out, in)
<1>1. PICK gone \in 0..Len(in) : Gone(gone, left, out, in)
  BY DEF InOrder
<1>2. Len(in) \in Nat /\ gone \in Nat /\ gone <= Len(in)
  BY LenProperties
<1>3. <<>> = SubSeq(in, Len(in) + 1, Len(in))
  BY <1>2, SubSeqEmpty
<1>4. \A k \in 1..gone : k \in 1..Len(in)
  BY <1>2
<1>5. Gone(Len(in), <<>>, out, in)
  <2>1. \A i \in 1..Len(out) : \E k \in 1..Len(in) : in[k] = out[i]
    BY <1>1, <1>4, Zenon DEF Gone
  <2>2. ASSUME NEW i \in 1..Len(out), NEW j \in 1..Len(out), i < j
        PROVE  \E k, l \in 1..Len(in) :
                 k < l /\ in[k] = out[i] /\ in[l] = out[j]
    <3>1. PICK k \in 1..gone, l \in 1..gone :
            k < l /\ in[k] = out[i] /\ in[l] = out[j]
      BY <1>1, <2>2 DEF Gone
    <3> QED BY <1>4, <3>1
  <2> QED BY <1>3, <2>1, <2>2, Zenon DEF Gone
<1> QED BY <1>2, <1>5 DEF InOrder

\* A queue that is in order is first in, first out.
LEMMA OrderMeans ==
  ASSUME NEW left \in Seq(Messages), NEW out \in Seq(Messages),
         NEW in \in Seq(Messages), InOrder(left, out, in)
  PROVE  Fifo(left, out, in)
<1>1. PICK gone \in 0..Len(in) : Gone(gone, left, out, in)
  BY DEF InOrder
<1>2. Len(left) = Len(in) - gone /\ Len(in) \in Nat
  BY <1>1, LeftAreLast, LenProperties DEF Gone
<1>3. gone = Len(in) - Len(left)
  BY <1>2
<1>4. left = SubSeq(in, Len(in) - Len(left) + 1, Len(in))
  BY <1>1, <1>3, Zenon DEF Gone
<1>5. ASSUME NEW i \in 1..Len(out), NEW j \in 1..Len(out), i < j
      PROVE  \E k, l \in 1..(Len(in) - Len(left)) :
               k < l /\ in[k] = out[i] /\ in[l] = out[j]
  <2>1. PICK k \in 1..gone, l \in 1..gone :
          k < l /\ in[k] = out[i] /\ in[l] = out[j]
    BY <1>1, <1>5 DEF Gone
  <2> QED BY <1>3, <2>1
<1>6. \A i \in 1..Len(out) : \E k \in 1..(Len(in) - Len(left)) : in[k] = out[i]
  BY <1>1, <1>3, Zenon DEF Gone
<1> QED BY <1>4, <1>5, <1>6, Zenon DEF Fifo

-----------------------------------------------------------------------------
(* What one handler's step leaves alone, and what the mutexes exclude.     *)

\* No step moves another handler.
LEMMA Locality ==
  ASSUME HandlerTypes, NEW h \in Handlers, Arrive(h) \/ Acquire(h) \/ Step(h),
         NEW x \in Handlers, x # h
  PROVE  pc'[x] = pc[x] /\ ptr'[x] = ptr[x]
  BY DEF HandlerTypes, Arrive, Acquire, Step, Request, Refuse, Respond,
     LockBroker, RLockBroker, LockQueue, StatsNext, NotExist, Find,
     CreateExists, CreateAbsent, CreateQueue, DeleteQueue, DrainClear,
     DrainCount, NewMessage, NewMessageFails, PutAppend, PutCount, GetEmpty,
     GetHead, GetPop, GetCount, StatsRow, StatsDone, Goto, Answer, locals,
     history

\* A handler with a queue in scope can dereference it.
LEMMA InUse ==
  ASSUME TypeOK, NEW h \in Handlers, pc[h] \in HasQueue
  PROVE  /\ ptr[h] \in Queues
         /\ heap[ptr[h]] \in Queue
         /\ qmu[ptr[h]] \in M!Mutex(Handlers)
  BY DEF TypeOK, Scopes, HandlerScope, HandlerTypes, BrokerTypes, MutexTypes

\* Two handlers are never both writers of one queue.
LEMMA Alone ==
  ASSUME TypeOK, Exclusion, NEW h \in Handlers, pc[h] \in QWriting,
         NEW x \in Handlers, x # h, ptr[x] = ptr[h]
  PROVE  pc[x] \notin QWriting
<1>1. ptr[h] \in Queues BY InUse DEF QWriting, HasQueue, Draining
<1> QED BY <1>1 DEF Exclusion

\* A step that leaves a queue alone leaves its books as they were.
LEMMA BooksFrame ==
  ASSUME NEW h \in Handlers, NEW q \in Queues, Books(q), heap'[q] = heap[q],
         \A x \in Handlers : x # h => pc'[x] = pc[x] /\ ptr'[x] = ptr[x],
         ptr[h] = q => pc[h] \notin Midway,
         ptr'[h] = q => pc'[h] \notin Midway
  PROVE  Books(q)'
  BY DEF Books, Half, Midway

\* A step outside the critical sections leaves all books as they were.
LEMMA BooksQuiet ==
  ASSUME Inductive, NEW h \in Handlers, Arrive(h) \/ Acquire(h) \/ Step(h),
         heap' = heap, pc[h] \notin Midway, pc'[h] \notin Midway
  PROVE  AllBooks'
  BY Locality, BooksFrame DEF AllBooks, Inductive, TypeOK

\* A step of the handler that owns q.mu accounts for what it does to q.
LEMMA BooksOwner ==
  ASSUME Inductive, NEW h \in Handlers,
         Arrive(h) \/ Acquire(h) \/ Step(h), pc[h] \in QWriting,
         NEW q \in Queues, q = ptr[h], NEW new \in Queue,
         heap' = [heap EXCEPT ![q] = new],
         \/ ptr'[h] = q /\ pc'[h] \in Midway /\ Half(pc'[h], new)
         \/ ptr'[h] # q /\ pc'[h] \notin Midway /\ Balanced(new)
  PROVE  AllBooks'
<1>1. \A x \in Handlers : x # h => pc'[x] = pc[x] /\ ptr'[x] = ptr[x]
  BY Locality DEF Inductive, TypeOK
<1>2. heap'[q] = new BY DEF Inductive, TypeOK, BrokerTypes
<1>3. ASSUME NEW p \in Queues, p # q PROVE Books(p)'
  <2>1. heap'[p] = heap[p] BY <1>3 DEF Inductive, TypeOK, BrokerTypes
  <2>2. Books(p) BY DEF Inductive, AllBooks
  <2>3. ptr'[h] = p => pc'[h] \notin Midway BY <1>3
  <2> QED BY <1>1, <1>3, <2>1, <2>2, <2>3, BooksFrame
<1>4. \A x \in Handlers : x # h /\ ptr'[x] = q => pc'[x] \notin Midway
  BY <1>1, Alone DEF Midway, QWriting, Inductive
<1>5. Books(q)' BY <1>2, <1>4 DEF Books, Midway, Half
<1> QED BY <1>3, <1>5 DEF AllBooks

\* The books of a queue as the owner of its q.mu finds them.
LEMMA OwnHalf ==
  ASSUME Inductive, NEW h \in Handlers, pc[h] \in Midway
  PROVE  Half(pc[h], heap[ptr[h]])
<1>1. ptr[h] \in Queues
  BY InUse DEF Midway, HasQueue, Draining, Inductive
<1> QED BY <1>1 DEF Inductive, AllBooks, Books

\* They balance when it has made none of its assignments yet.
LEMMA OwnBooks ==
  ASSUME Inductive, NEW h \in Handlers,
         pc[h] \in {"put_append", "get_head", "drain_clear"}
  PROVE  Balanced(heap[ptr[h]])
<1>1. ptr[h] \in Queues BY InUse DEF HasQueue, Draining, Inductive
<1>2. \A x \in Handlers : ptr[x] = ptr[h] => pc[x] \notin Midway
  BY Alone DEF Midway, QWriting, Inductive
<1> QED BY <1>1, <1>2 DEF Inductive, AllBooks, Books

\* Nobody writes the counters of a queue that Stats reads.
LEMMA ReadBooks ==
  ASSUME Inductive, NEW h \in Handlers, pc[h] = "stats_row"
  PROVE  Balanced(heap[ptr[h]])
<1>1. ptr[h] \in Queues BY InUse DEF HasQueue, Inductive
<1>2. h \in qmu[ptr[h]].readers BY <1>1 DEF Inductive, Exclusion
<1>3. \A x \in Handlers : ptr[x] = ptr[h] => pc[x] \notin Midway
  BY <1>2 DEF Midway, QGranted, Inductive, Exclusion
<1> QED BY <1>1, <1>3 DEF Inductive, AllBooks, Books

-----------------------------------------------------------------------------
(* The parts of the invariant, one lemma for each.                         *)

\* A step of any handler keeps the types of the handlers' locals.
LEMMA HandlerTypesStep ==
  ASSUME TypeOK, NEW h \in Handlers, Arrive(h) \/ Acquire(h) \/ Step(h)
  PROVE  HandlerTypes'
<1>1. CASE (\E code \in {400, 500} : Refuse(h, code)) \/ Respond(h) \/
            NotExist(h) \/ CreateExists(h) \/ CreateAbsent(h) \/
            (\E q \in Queues : CreateQueue(h, q))
  BY <1>1 DEF TypeOK, HandlerTypes, Goto, Answer, Labels, Requests, locals,
     Attached, Refuse, Respond, NotExist, CreateExists, CreateAbsent,
     CreateQueue
<1>2. CASE DeleteQueue(h) \/ DrainClear(h) \/ DrainCount(h) \/
            NewMessageFails(h) \/ PutAppend(h)
  BY <1>2 DEF TypeOK, HandlerTypes, Goto, Answer, Labels, Requests, locals,
     Attached, DeleteQueue, DrainClear, DrainCount, NewMessageFails, PutAppend
<1>3. CASE PutCount(h) \/ GetEmpty(h) \/ GetPop(h) \/ GetCount(h) \/
            StatsDone(h)
  BY <1>3 DEF TypeOK, HandlerTypes, Goto, Answer, Labels, Requests, locals,
     Attached, PutCount, GetEmpty, GetPop, GetCount, StatsDone
<1>4. CASE \E op \in Requests, n \in Names : Request(h, op, n)
  BY <1>4 DEF TypeOK, HandlerTypes, Goto, Labels, Requests, Attached,
     Request
<1>5. CASE LockBroker(h)
  BY <1>5 DEF TypeOK, HandlerTypes, Goto, Labels, Requests, locals,
     Attached, AfterLock, LockBroker
<1>6. CASE LockQueue(h)
  BY <1>6 DEF TypeOK, HandlerTypes, Goto, Labels, Requests, locals,
     Attached, AfterQLock, LockQueue
<1>7. CASE RLockBroker(h)
  BY <1>7 DEF TypeOK, HandlerTypes, Goto, Labels, Requests, Attached,
     AfterRLock, RLockBroker
<1>8. CASE \E m \in Messages : NewMessage(h, m)
  BY <1>8 DEF TypeOK, HandlerTypes, Goto, Labels, Requests, Attached,
     NewMessage
<1>9. ASSUME NEW n \in Names, StatsNext(h, n) PROVE HandlerTypes'
  <2> QED BY <1>9 DEF StatsNext, Goto, Labels, TypeOK, HandlerTypes,
          BrokerTypes
<1>10. ASSUME Find(h) PROVE HandlerTypes'
  <2>1. queues[arg[h]] \in Queues
    BY <1>10 DEF Find, Exists, TypeOK, Scopes, HandlerScope, BrokerTypes,
       AfterFind
  <2>2. AfterFind[pc[h]] \in Labels BY <1>10 DEF Find, AfterFind, Labels
  <2> QED BY <1>10, <2>1, <2>2 DEF Find, Goto, TypeOK, HandlerTypes, locals
<1>11. ASSUME GetHead(h) PROVE HandlerTypes'
  <2>1. heap[ptr[h]] \in Queue BY <1>11, InUse DEF GetHead, HasQueue
  <2>2. Head(heap[ptr[h]].messages) \in Messages
    BY <1>11, <2>1 DEF GetHead, Queue
  <2> QED BY <1>11, <2>2 DEF GetHead, Goto, TypeOK, HandlerTypes, Labels
<1>12. ASSUME StatsRow(h) PROVE HandlerTypes'
  <2> DEFINE q == heap[ptr[h]]
             stat == [name |-> arg[h], depth |-> q.depth,
                      enqueued |-> q.enqueued, dequeued |-> q.dequeued,
                      drained |-> q.drained]
  <2>1. q \in Queue /\ arg[h] \in Names
    BY <1>12, InUse DEF StatsRow, HasQueue, TypeOK, Scopes, HandlerScope
  <2>2. stat \in Stat BY <2>1 DEF Queue, Stat
  <2>3. rows' = [rows EXCEPT ![h] = @ \cup {stat}] BY <1>12 DEF StatsRow
  <2> HIDE DEF stat
  <2> QED BY <1>12, <2>2, <2>3 DEF StatsRow, Goto, TypeOK, HandlerTypes,
          Labels
<1> QED BY <1>1, <1>2, <1>3, <1>4, <1>5, <1>6, <1>7, <1>8, <1>9, <1>10, <1>11,
           <1>12 DEF Arrive, Acquire, Step

\* A step of any handler keeps the types of the broker's map and queues.
LEMMA BrokerTypesStep ==
  ASSUME Inductive, NEW h \in Handlers, Arrive(h) \/ Acquire(h) \/ Step(h)
  PROVE  BrokerTypes'
<1>1. CASE (\E op \in Requests, n \in Names : Request(h, op, n)) \/
            (\E code \in {400, 500} : Refuse(h, code)) \/ Respond(h) \/
            LockBroker(h) \/ RLockBroker(h) \/ LockQueue(h) \/
            (\E n \in Names : StatsNext(h, n)) \/ NotExist(h) \/ Find(h) \/
            CreateExists(h) \/ CreateAbsent(h) \/
            (\E m \in Messages : NewMessage(h, m)) \/ NewMessageFails(h) \/
            GetEmpty(h) \/ GetHead(h) \/ StatsRow(h) \/ StatsDone(h)
  BY <1>1 DEF Inductive, TypeOK, BrokerTypes, history, Request, Refuse,
     Respond, LockBroker, RLockBroker, LockQueue, StatsNext, NotExist, Find,
     CreateExists, CreateAbsent, NewMessage, NewMessageFails, GetEmpty,
     GetHead, StatsRow, StatsDone
<1>2. CASE DeleteQueue(h)
  BY <1>2 DEF Inductive, TypeOK, BrokerTypes, history, DeleteQueue
<1>3. ASSUME NEW q \in Queues, CreateQueue(h, q) PROVE BrokerTypes'
  <2>1. <<>> \in Seq(Messages) OBVIOUS
  <2>2. arg[h] \in Names
    BY <1>3 DEF CreateQueue, Inductive, TypeOK, Scopes, HandlerScope
  <2> QED BY <1>3, <2>1, <2>2, NewQueueOps
          DEF CreateQueue, Inductive, TypeOK, BrokerTypes
<1>4. ASSUME DrainClear(h) PROVE BrokerTypes'
  <2>1. ptr[h] \in Queues /\ heap[ptr[h]] \in Queue
    BY <1>4, InUse DEF DrainClear, HasQueue, Draining, Inductive
  <2>2. Cleared(heap[ptr[h]]) \in Queue
    BY <1>4, <2>1, OwnBooks, ClearedOps DEF DrainClear
  <2> QED BY <1>4, <2>1, <2>2 DEF DrainClear, Inductive, TypeOK, BrokerTypes,
          history
<1>5. ASSUME DrainCount(h) PROVE BrokerTypes'
  <2>1. ptr[h] \in Queues /\ heap[ptr[h]] \in Queue
    BY <1>5, InUse DEF DrainCount, HasQueue, Draining, Inductive
  <2> QED BY <1>5, <2>1, CountedOps DEF DrainCount, Inductive, TypeOK,
          BrokerTypes, history
<1>6. ASSUME PutAppend(h) PROVE BrokerTypes'
  <2>1. ptr[h] \in Queues /\ heap[ptr[h]] \in Queue
    BY <1>6, InUse DEF PutAppend, HasQueue, Inductive
  <2>2. msg[h] \in Messages
    BY <1>6 DEF PutAppend, Inductive, TypeOK, Scopes, HandlerScope,
       HandlerTypes
  <2>3. Appended(heap[ptr[h]], msg[h]) \in Queue
    BY <1>6, <2>1, <2>2, OwnBooks, AppendedOps DEF PutAppend
  <2> QED BY <1>6, <2>1, <2>2, <2>3 DEF PutAppend, Inductive, TypeOK,
          BrokerTypes
<1>7. ASSUME PutCount(h) PROVE BrokerTypes'
  <2>1. ptr[h] \in Queues /\ heap[ptr[h]] \in Queue
    BY <1>7, InUse DEF PutCount, HasQueue, Draining, Inductive
  <2> QED BY <1>7, <2>1, CountedOps DEF PutCount, Inductive, TypeOK,
          BrokerTypes, history
<1>8. ASSUME GetPop(h) PROVE BrokerTypes'
  <2>1. ptr[h] \in Queues /\ heap[ptr[h]] \in Queue
    BY <1>8, InUse DEF GetPop, HasQueue, Inductive
  <2>2. msg[h] \in Messages
    BY <1>8 DEF GetPop, Inductive, TypeOK, Scopes, HandlerScope, HandlerTypes
  <2>3. Popped(heap[ptr[h]]) \in Queue
    BY <1>8, <2>1, OwnHalf, PoppedOps DEF GetPop, Half, Midway
  <2> QED BY <1>8, <2>1, <2>2, <2>3 DEF GetPop, Inductive, TypeOK, BrokerTypes
<1>9. ASSUME GetCount(h) PROVE BrokerTypes'
  <2>1. ptr[h] \in Queues /\ heap[ptr[h]] \in Queue
    BY <1>9, InUse DEF GetCount, HasQueue, Draining, Inductive
  <2> QED BY <1>9, <2>1, CountedOps DEF GetCount, Inductive, TypeOK,
          BrokerTypes, history
<1> QED BY <1>1, <1>2, <1>3, <1>4, <1>5, <1>6, <1>7, <1>8, <1>9 DEF Arrive,
           Acquire, Step

\* A step of any handler keeps the types of the mutexes.
LEMMA MutexTypesStep ==
  ASSUME Inductive, NEW h \in Handlers, Arrive(h) \/ Acquire(h) \/ Step(h)
  PROVE  MutexTypes'
<1>1. CASE (\E op \in Requests, n \in Names : Request(h, op, n)) \/
            (\E code \in {400, 500} : Refuse(h, code)) \/ Respond(h) \/
            CreateAbsent(h) \/ DrainClear(h) \/
            (\E m \in Messages : NewMessage(h, m)) \/ NewMessageFails(h) \/
            PutAppend(h) \/ GetHead(h) \/ GetPop(h)
  BY <1>1, MutexOps, InUse DEF Inductive, TypeOK, MutexTypes, HasQueue,
     Draining, Request, Refuse, Respond, CreateAbsent, DrainClear, NewMessage,
     NewMessageFails, PutAppend, GetHead, GetPop
<1>2. CASE CreateExists(h) \/ (\E q \in Queues : CreateQueue(h, q)) \/
            DeleteQueue(h) \/ StatsDone(h) \/ NotExist(h) \/ Find(h)
  BY <1>2, MutexOps, InUse DEF Inductive, TypeOK, MutexTypes, UnlockBroker,
     HasQueue, Draining, CreateExists, CreateQueue, DeleteQueue, StatsDone,
     NotExist, Find
<1>3. CASE PutCount(h) \/ GetEmpty(h) \/ GetCount(h)
  BY <1>3, MutexOps, InUse DEF Inductive, TypeOK, MutexTypes, UnlockQueue,
     HasQueue, Draining, PutCount, GetEmpty, GetCount
<1>4. CASE DrainCount(h)
  BY <1>4, MutexOps, InUse DEF Inductive, TypeOK, MutexTypes, UnlockBroker,
     UnlockQueue, HasQueue, Draining, DrainCount
<1>5. CASE LockBroker(h)
  BY <1>5, MutexOps, InUse DEF Inductive, TypeOK, MutexTypes, HasQueue,
     Draining, LockBroker
<1>6. CASE RLockBroker(h)
  BY <1>6, MutexOps, InUse DEF Inductive, TypeOK, MutexTypes, HasQueue,
     Draining, RLockBroker
<1>7. ASSUME LockQueue(h) PROVE MutexTypes'
  <2>1. pc[h] \in HasQueue
    BY <1>7 DEF LockQueue, AfterQLock, HasQueue, Draining
  <2> QED BY <1>7, <2>1, InUse, MutexOps
          DEF LockQueue, Inductive, TypeOK, MutexTypes
<1>8. ASSUME NEW n \in Names, StatsNext(h, n) PROVE MutexTypes'
  <2>1. n \in Attached BY <1>8 DEF StatsNext, Inductive, DirectoryStable
  <2>2. queues[n] \in Queues
    BY <2>1 DEF Attached, Inductive, TypeOK, BrokerTypes
  <2> QED BY <1>8, <2>2, MutexOps DEF StatsNext, Inductive, TypeOK, MutexTypes
<1>9. ASSUME StatsRow(h) PROVE MutexTypes'
  <2> QED BY <1>9, InUse, MutexOps
          DEF StatsRow, HasQueue, Inductive, TypeOK, MutexTypes
<1> QED BY <1>1, <1>2, <1>3, <1>4, <1>5, <1>6, <1>7, <1>8, <1>9 DEF Arrive,
           Acquire, Step

\* A step of any handler keeps locals in step with its label.
LEMMA ScopesStep ==
  ASSUME Inductive, NEW h \in Handlers, Arrive(h) \/ Acquire(h) \/ Step(h)
  PROVE  Scopes'
<1>1. CASE (\E op \in Requests, n \in Names : Request(h, op, n)) \/
            (\E code \in {400, 500} : Refuse(h, code))
  BY <1>1 DEF Inductive, TypeOK, Scopes, HandlerScope, HandlerTypes,
     HasQueue, Draining, Goto, Answer, Labels, Requests, locals, history,
     Request, Refuse
<1>2. CASE Respond(h) \/ LockBroker(h) \/ RLockBroker(h) \/ LockQueue(h) \/
            NotExist(h) \/ CreateExists(h)
  BY <1>2 DEF Inductive, TypeOK, Scopes, HandlerScope, HandlerTypes,
     HasQueue, Draining, Goto, Answer, Labels, Requests, AfterLock,
     AfterRLock, AfterQLock, locals, history, Respond, LockBroker,
     RLockBroker, LockQueue, NotExist, CreateExists
<1>3. CASE CreateAbsent(h) \/ DeleteQueue(h) \/ DrainClear(h) \/
            DrainCount(h) \/ NewMessageFails(h) \/ PutAppend(h)
  BY <1>3 DEF Inductive, TypeOK, Scopes, HandlerScope, HandlerTypes,
     HasQueue, Draining, Goto, Answer, Labels, Requests, locals, history,
     CreateAbsent, DeleteQueue, DrainClear, DrainCount, NewMessageFails,
     PutAppend
<1>4. CASE PutCount(h) \/ GetEmpty(h) \/ GetPop(h) \/ GetCount(h) \/
            StatsRow(h) \/ StatsDone(h)
  BY <1>4 DEF Inductive, TypeOK, Scopes, HandlerScope, HandlerTypes,
     HasQueue, Draining, Goto, Answer, Labels, Requests, locals, history,
     PutCount, GetEmpty, GetPop, GetCount, StatsRow, StatsDone
<1>5. CASE \E q \in Queues : CreateQueue(h, q)
  BY <1>5 DEF Inductive, TypeOK, Scopes, HandlerScope, HandlerTypes,
     HasQueue, Draining, Answer, Labels, Requests, locals, CreateQueue
<1>6. CASE \E m \in Messages : NewMessage(h, m)
  BY <1>6 DEF Inductive, TypeOK, Scopes, HandlerScope, HandlerTypes,
     HasQueue, Draining, Goto, Labels, Requests, history, NewMessage
<1>7. ASSUME Find(h) PROVE Scopes'
  <2>1. queues[arg[h]] # Nil BY <1>7 DEF Find, Exists
  <2>2. ptr' = [ptr EXCEPT ![h] = queues[arg[h]]] BY <1>7 DEF Find
  <2> QED BY <1>7, <2>1, <2>2 DEF Find, Goto, AfterFind, locals, HasQueue,
          Draining, Inductive, TypeOK, Scopes, HandlerScope, HandlerTypes
<1>8. ASSUME NEW n \in Names, StatsNext(h, n) PROVE Scopes'
  <2>1. queues[n] # Nil
    BY <1>8 DEF StatsNext, Inductive, DirectoryStable, Attached
  <2> QED BY <1>8, <2>1 DEF StatsNext, Goto, HasQueue, Draining, Inductive,
          TypeOK, Scopes, HandlerScope, HandlerTypes
<1>9. ASSUME GetHead(h) PROVE Scopes'
  <2>1. heap[ptr[h]] \in Queue BY <1>9, InUse DEF GetHead, HasQueue, Inductive
  <2>2. Head(heap[ptr[h]].messages) \in Messages
    BY <1>9, <2>1 DEF GetHead, Queue
  <2>3. msg'[h] # Nil
    BY <1>9, <2>2 DEF GetHead, Inductive, TypeOK, HandlerTypes
  <2> QED BY <1>9, <2>3 DEF GetHead, Goto, HasQueue, Draining, Inductive,
          TypeOK, Scopes, HandlerScope, HandlerTypes
<1> QED BY <1>1, <1>2, <1>3, <1>4, <1>5, <1>6, <1>7, <1>8, <1>9 DEF Arrive,
           Acquire, Step

\* The mutexes exclude what they should after a step, too.
LEMMA ExclusionStep ==
  ASSUME Inductive, NEW h \in Handlers, Arrive(h) \/ Acquire(h) \/ Step(h)
  PROVE  Exclusion'
<1>1. CASE (\E op \in Requests, n \in Names : Request(h, op, n)) \/
            (\E code \in {400, 500} : Refuse(h, code)) \/ Respond(h) \/
            (\E m \in Messages : NewMessage(h, m)) \/ NewMessageFails(h) \/
            CreateAbsent(h)
  BY <1>1 DEF Goto, Answer, OwnsBroker, M!Owns, M!Mutex, locals, history,
     BWriting, BGranted, BReading, QWriting, QGranted, HandlerTypes,
     MutexTypes, TypeOK, Inductive, Exclusion, Requests, Exists, HasQueue,
     Draining, Scopes, HandlerScope, Request, Refuse, Respond, NewMessage,
     NewMessageFails, CreateAbsent
<1>2. CASE LockBroker(h)
  BY <1>2 DEF Goto, BrokerFree, M!Lock, M!NoWriter, M!Mutex, locals,
     history, AfterLock, BWriting, BGranted, BReading, QWriting, QGranted,
     HandlerTypes, MutexTypes, TypeOK, Inductive, Exclusion, Requests,
     HasQueue, Draining, Scopes, HandlerScope, LockBroker
<1>3. CASE RLockBroker(h)
  BY <1>3 DEF Goto, BrokerFree, M!RLock, M!NoWriter, M!Mutex, history,
     AfterRLock, BWriting, BGranted, BReading, QWriting, QGranted,
     HandlerTypes, MutexTypes, TypeOK, Inductive, Exclusion, Requests,
     HasQueue, Draining, Scopes, HandlerScope, RLockBroker
<1>4. CASE LockQueue(h)
  BY <1>4 DEF Goto, QueueFree, M!Lock, M!NoWriter, M!Mutex, locals,
     history, AfterQLock, BWriting, BGranted, BReading, QWriting, QGranted,
     HandlerTypes, MutexTypes, TypeOK, Inductive, Exclusion, Requests,
     HasQueue, Draining, Scopes, HandlerScope, LockQueue
<1>5. CASE NotExist(h)
  BY <1>5 DEF Answer, UnlockBroker, OwnsBroker, M!RUnlock, M!Unlock,
     M!Owns, M!Mutex, locals, history, AfterFind, BWriting, BGranted,
     BReading, QWriting, QGranted, HandlerTypes, MutexTypes, TypeOK,
     Inductive, Exclusion, Requests, Exists, HasQueue, Draining, Scopes,
     HandlerScope, NotExist
<1>6. CASE Find(h)
  BY <1>6 DEF Goto, UnlockBroker, OwnsBroker, M!RUnlock, M!Unlock, M!Owns,
     M!Mutex, locals, history, AfterFind, BWriting, BGranted, BReading,
     QWriting, QGranted, HandlerTypes, MutexTypes, TypeOK, Inductive,
     Exclusion, Requests, Exists, HasQueue, Draining, Scopes, HandlerScope,
     Find
<1>7. CASE \E q \in Queues : CreateQueue(h, q)
  BY <1>7 DEF Answer, UnlockBroker, M!RUnlock, M!Unlock, M!Mutex, locals,
     BWriting, BGranted, BReading, QWriting, QGranted, HandlerTypes,
     MutexTypes, TypeOK, Inductive, Exclusion, Requests, HasQueue, Draining,
     Scopes, HandlerScope, CreateQueue
<1>8. CASE DrainClear(h) \/ PutAppend(h) \/ GetHead(h) \/ GetPop(h)
  BY <1>8 DEF Goto, OwnsQueue, M!Owns, M!Mutex, locals, history, BWriting,
     BGranted, BReading, QWriting, QGranted, HandlerTypes, MutexTypes, TypeOK,
     Inductive, Exclusion, Requests, HasQueue, Draining, Scopes, HandlerScope,
     DrainClear, PutAppend, GetHead, GetPop
<1>9. CASE DrainCount(h)
  BY <1>9 DEF Answer, UnlockQueue, UnlockBroker, M!RUnlock, M!Unlock,
     M!Mutex, locals, history, BWriting, BGranted, BReading, QWriting,
     QGranted, HandlerTypes, MutexTypes, TypeOK, Inductive, Exclusion,
     Requests, HasQueue, Draining, Scopes, HandlerScope, DrainCount
<1>10. CASE PutCount(h)
  BY <1>10 DEF Answer, UnlockQueue, M!Unlock, M!Mutex, locals, history,
     BWriting, BGranted, BReading, QWriting, QGranted, HandlerTypes,
     MutexTypes, TypeOK, Inductive, Exclusion, Requests, HasQueue, Draining,
     Scopes, HandlerScope, PutCount
<1>11. CASE GetEmpty(h)
  BY <1>11 DEF Answer, UnlockQueue, OwnsQueue, M!Unlock, M!Owns, M!Mutex,
     locals, history, BWriting, BGranted, BReading, QWriting, QGranted,
     HandlerTypes, MutexTypes, TypeOK, Inductive, Exclusion, Requests,
     HasQueue, Draining, Scopes, HandlerScope, GetEmpty
<1>12. CASE GetCount(h)
  BY <1>12 DEF Answer, UnlockQueue, M!Unlock, M!Mutex, locals, history,
     BWriting, BGranted, BReading, QWriting, QGranted, HandlerTypes,
     MutexTypes, TypeOK, Inductive, Exclusion, Requests, HasQueue, Draining,
     Scopes, HandlerScope, GetCount
<1>13. CASE \E n \in Names : StatsNext(h, n)
  BY <1>13 DEF Goto, M!RLock, M!NoWriter, M!Mutex, history, BWriting,
     BGranted, BReading, QWriting, QGranted, HandlerTypes, MutexTypes, TypeOK,
     Inductive, Exclusion, Requests, HasQueue, Draining, Scopes, HandlerScope,
     StatsNext
<1>14. CASE StatsRow(h)
  BY <1>14 DEF Goto, M!RUnlock, M!Mutex, history, BWriting, BGranted,
     BReading, QWriting, QGranted, HandlerTypes, MutexTypes, TypeOK,
     Inductive, Exclusion, Requests, HasQueue, Draining, Scopes, HandlerScope,
     StatsRow
<1>15. CASE StatsDone(h)
  BY <1>15 DEF Answer, UnlockBroker, M!RUnlock, M!Unlock, M!Mutex, locals,
     history, BWriting, BGranted, BReading, QWriting, QGranted, HandlerTypes,
     MutexTypes, TypeOK, Inductive, Exclusion, Requests, HasQueue, Draining,
     Scopes, HandlerScope, StatsDone
<1>16. ASSUME CreateExists(h) PROVE Exclusion'
  <2>1. bmu.writer = h /\ h \notin bmu.readers
    BY <1>16 DEF CreateExists, Inductive, Exclusion, BWriting, BReading
  <2>2. bmu' = [bmu EXCEPT !.writer = Nil]
    BY <1>16, <2>1 DEF CreateExists, UnlockBroker, M!Unlock
  <2> QED BY <1>16, <2>1, <2>2 DEF CreateExists, Answer, BWriting, BGranted,
          BReading,
          QWriting, QGranted, Inductive, Exclusion, TypeOK, HandlerTypes,
          MutexTypes, M!Mutex
<1>17. ASSUME DeleteQueue(h) PROVE Exclusion'
  <2>1. bmu.writer = h /\ h \notin bmu.readers
    BY <1>17 DEF DeleteQueue, Inductive, Exclusion, BWriting, BReading
  <2>2. bmu' = [bmu EXCEPT !.writer = Nil]
    BY <1>17, <2>1 DEF DeleteQueue, UnlockBroker, M!Unlock
  <2> QED BY <1>17, <2>1, <2>2 DEF DeleteQueue, Answer, BWriting, BGranted,
          BReading,
          QWriting, QGranted, Inductive, Exclusion, TypeOK, HandlerTypes,
          MutexTypes, M!Mutex
<1> QED BY <1>1, <1>2, <1>3, <1>4, <1>5, <1>6, <1>7, <1>8, <1>9, <1>10, <1>11,
           <1>12, <1>13, <1>14, <1>15, <1>16, <1>17 DEF Arrive, Acquire, Step

\* A step of any handler leaves the others' queues where they found them.
LEMMA DirectoryStableStep ==
  ASSUME Inductive, NEW h \in Handlers, Arrive(h) \/ Acquire(h) \/ Step(h)
  PROVE  DirectoryStable'
<1>1. CASE (\E op \in Requests, n \in Names : Request(h, op, n)) \/
            (\E code \in {400, 500} : Refuse(h, code)) \/ Respond(h) \/
            LockBroker(h) \/ LockQueue(h) \/
            (\E m \in Messages : NewMessage(h, m)) \/ NewMessageFails(h) \/
            PutAppend(h) \/ PutCount(h) \/ GetEmpty(h) \/ GetHead(h) \/
            GetPop(h) \/ GetCount(h)
  BY <1>1 DEF Inductive, TypeOK, Scopes, HandlerScope, HandlerTypes,
     DirectoryStable, Draining, Goto, Answer, AfterLock, AfterQLock, Attached,
     Requests, locals, history, Request, Refuse, Respond, LockBroker,
     LockQueue, NewMessage, NewMessageFails, PutAppend, PutCount, GetEmpty,
     GetHead, GetPop, GetCount
<1>2. CASE NotExist(h) \/ CreateExists(h) \/ DrainClear(h) \/ DrainCount(h)
            \/ StatsDone(h)
  BY <1>2 DEF Inductive, TypeOK, Scopes, HandlerScope, HandlerTypes,
     DirectoryStable, Draining, Goto, Answer, AfterFind, Attached, Requests,
     locals, history, Exists, NotExist, CreateExists, DrainClear, DrainCount,
     StatsDone
<1>3. CASE CreateAbsent(h)
  BY <1>3 DEF Inductive, TypeOK, Scopes, HandlerScope, HandlerTypes,
     DirectoryStable, Draining, Goto, Attached, Requests, locals, history,
     Exists, CreateAbsent
<1>4. CASE Find(h)
  BY <1>4 DEF Inductive, TypeOK, Scopes, HandlerScope, HandlerTypes,
     DirectoryStable, Draining, Goto, AfterFind, Attached, Requests, locals,
     history, Exists, Find
<1>5. CASE \E n \in Names : StatsNext(h, n)
  BY <1>5 DEF Inductive, TypeOK, Scopes, HandlerScope, HandlerTypes,
     DirectoryStable, Draining, Goto, Attached, Requests, history, StatsNext
<1>6. ASSUME NEW q \in Queues, CreateQueue(h, q) PROVE DirectoryStable'
  <2>1. bmu.writer = h /\ bmu.readers = {}
    BY <1>6 DEF CreateQueue, Inductive, Exclusion, BWriting, BGranted
  <2>2. \A x \in Handlers : pc'[x] \notin Draining \cup
                            {"stats_next", "stats_row", "inserting"}
    BY <1>6, <2>1 DEF CreateQueue, Answer, Inductive, Exclusion, BWriting,
       BReading, Draining, TypeOK, HandlerTypes
  <2> QED BY <2>2 DEF DirectoryStable
<1>7. ASSUME DeleteQueue(h) PROVE DirectoryStable'
  <2>1. bmu.writer = h /\ bmu.readers = {}
    BY <1>7 DEF DeleteQueue, OwnsBroker, M!Owns, Inductive, Exclusion,
       BReading
  <2>2. \A x \in Handlers : pc'[x] \notin Draining \cup
                            {"stats_next", "stats_row", "inserting"}
    BY <1>7, <2>1 DEF DeleteQueue, Answer, Inductive, Exclusion, BWriting,
       BReading, Draining, TypeOK, HandlerTypes
  <2> QED BY <2>2 DEF DirectoryStable
<1>8. ASSUME RLockBroker(h) PROVE DirectoryStable'
  <2>1. \A x \in Handlers : x # h => pc'[x] = pc[x] /\ todo'[x] = todo[x]
    BY <1>8 DEF RLockBroker, Goto, Inductive, TypeOK, HandlerTypes
  <2>2. pc'[h] \in {"put_find", "get_find", "stats_next"}
    BY <1>8 DEF RLockBroker, Goto, AfterRLock, Inductive, TypeOK, HandlerTypes
  <2>3. pc'[h] = "stats_next" => todo'[h] = Attached /\ rows[h] = {}
    BY <1>8 DEF RLockBroker, Goto, AfterRLock, Inductive, TypeOK,
       HandlerTypes,
       Scopes, HandlerScope
  <2> QED BY <1>8, <2>1, <2>2, <2>3
          DEF RLockBroker, DirectoryStable, Attached, Draining, Inductive
<1>9. ASSUME StatsRow(h) PROVE DirectoryStable'
  <2> DEFINE q == heap[ptr[h]]
             stat == [name |-> arg[h], depth |-> q.depth,
                      enqueued |-> q.enqueued, dequeued |-> q.dequeued,
                      drained |-> q.drained]
  <2>1. rows' = [rows EXCEPT ![h] = @ \cup {stat}] BY <1>9 DEF StatsRow
  <2>2. stat.name = arg[h] OBVIOUS
  <2> HIDE DEF stat
  <2>3. rows'[h] = rows[h] \cup {stat}
    BY <2>1 DEF Inductive, TypeOK, HandlerTypes
  <2>4. {r.name : r \in rows'[h]} = {r.name : r \in rows[h]} \cup {arg[h]}
    BY <2>2, <2>3
  <2>5. pc[h] = "stats_row" /\ pc'[h] = "stats_next"
    BY <1>9 DEF StatsRow, Goto, Inductive, TypeOK, HandlerTypes
  <2>6. {r.name : r \in rows[h]} \cup todo[h] \cup {arg[h]} = Attached
    BY <2>5 DEF DirectoryStable, Inductive
  <2>7. todo' = todo /\ Attached' = Attached BY <1>9 DEF StatsRow, Attached
  <2>8. {r.name : r \in rows'[h]} \cup todo'[h] = Attached'
    BY <2>4, <2>6, <2>7
  <2>9. \A x \in Handlers :
          x # h => pc'[x] = pc[x] /\ rows'[x] = rows[x] /\ ptr'[x] = ptr[x]
    BY <1>9, <2>1 DEF StatsRow, Goto, Inductive, TypeOK, HandlerTypes
  <2> QED BY <1>9, <2>5, <2>7, <2>8, <2>9
          DEF StatsRow, DirectoryStable, Draining, Inductive
<1> QED BY <1>1, <1>2, <1>3, <1>4, <1>5, <1>6, <1>7, <1>8, <1>9 DEF Arrive,
           Acquire, Step

\* A step of any handler keeps the books of every queue.
LEMMA BooksStep ==
  ASSUME Inductive, NEW h \in Handlers, Arrive(h) \/ Acquire(h) \/ Step(h)
  PROVE  AllBooks'
<1>1. CASE (\E op \in Requests, n \in Names : Request(h, op, n)) \/
            (\E code \in {400, 500} : Refuse(h, code)) \/ Respond(h) \/
            LockBroker(h) \/ RLockBroker(h) \/ LockQueue(h)
  BY <1>1, BooksQuiet DEF Inductive, TypeOK, HandlerTypes, Midway, Goto,
     Answer, AfterLock, AfterRLock, AfterQLock, Requests, history, Request,
     Refuse, Respond, LockBroker, RLockBroker, LockQueue
<1>2. CASE (\E n \in Names : StatsNext(h, n)) \/ NotExist(h) \/ Find(h) \/
            CreateExists(h) \/ CreateAbsent(h) \/ DeleteQueue(h)
  BY <1>2, BooksQuiet DEF Inductive, TypeOK, HandlerTypes, Midway, Goto,
     Answer, AfterFind, Requests, history, StatsNext, NotExist, Find,
     CreateExists, CreateAbsent, DeleteQueue
<1>3. CASE (\E m \in Messages : NewMessage(h, m)) \/ NewMessageFails(h) \/
            GetEmpty(h) \/ StatsRow(h) \/ StatsDone(h)
  BY <1>3, BooksQuiet DEF Inductive, TypeOK, HandlerTypes, Midway, Goto,
     Answer, Requests, history, NewMessage, NewMessageFails, GetEmpty,
     StatsRow, StatsDone
<1>4. ASSUME NEW q \in Queues, CreateQueue(h, q) PROVE AllBooks'
  <2>1. \A x \in Handlers : ptr[x] # q BY <1>4 DEF CreateQueue, Unreachable
  <2>2. \A x \in Handlers : ptr'[x] # q
    BY <1>4, <2>1 DEF CreateQueue, Answer, Inductive, TypeOK, HandlerTypes
  <2>3. heap'[q] = newQueue
    BY <1>4 DEF CreateQueue, Inductive, TypeOK, BrokerTypes
  <2>4. Books(q)' BY <2>2, <2>3, NewQueueOps DEF Books
  <2>5. ASSUME NEW p \in Queues, p # q PROVE Books(p)'
    <3>1. heap'[p] = heap[p]
      BY <1>4, <2>5 DEF CreateQueue, Inductive, TypeOK, BrokerTypes
    <3>2. pc[h] \notin Midway /\ pc'[h] \notin Midway
      BY <1>4 DEF CreateQueue, Answer, Midway, Inductive, TypeOK, HandlerTypes
    <3>3. Books(p) BY DEF Inductive, AllBooks
    <3>4. \A x \in Handlers : x # h => pc'[x] = pc[x] /\ ptr'[x] = ptr[x]
      BY Locality DEF Inductive, TypeOK
    <3> QED BY <3>1, <3>2, <3>3, <3>4, BooksFrame
  <2> QED BY <2>4, <2>5 DEF AllBooks
<1>5. ASSUME DrainClear(h) PROVE AllBooks'
  <2> PICK q \in Queues : q = ptr[h]
    BY <1>5, InUse DEF DrainClear, HasQueue, Draining, Inductive
  <2> DEFINE new == Cleared(heap[q])
  <2>1. heap[q] \in Queue BY DEF Inductive, TypeOK, BrokerTypes
  <2>2. new \in Queue /\ Half("drain_count", new)
    BY <1>5, <2>1, OwnBooks, ClearedOps DEF DrainClear
  <2>3. heap' = [heap EXCEPT ![q] = new] BY <1>5 DEF DrainClear
  <2>4. pc[h] \in QWriting BY <1>5 DEF DrainClear, QWriting
  <2>5. ptr'[h] = q /\ pc'[h] = "drain_count" /\ pc'[h] \in Midway
    BY <1>5 DEF DrainClear, Goto, Midway, Inductive, TypeOK, HandlerTypes,
       locals
  <2> HIDE DEF new
  <2> QED BY <2>2, <2>3, <2>4, <2>5, BooksOwner
<1>6. ASSUME PutAppend(h) PROVE AllBooks'
  <2> PICK q \in Queues : q = ptr[h]
    BY <1>6, InUse DEF PutAppend, HasQueue, Draining, Inductive
  <2> DEFINE new == Appended(heap[q], msg[h])
  <2>1. heap[q] \in Queue BY DEF Inductive, TypeOK, BrokerTypes
  <2>2. new \in Queue /\ Half("put_count", new)
    BY <1>6, <2>1, OwnBooks, AppendedOps DEF PutAppend, Inductive, TypeOK,
       Scopes, HandlerScope, HandlerTypes
  <2>3. heap' = [heap EXCEPT ![q] = new] BY <1>6 DEF PutAppend
  <2>4. pc[h] \in QWriting BY <1>6 DEF PutAppend, QWriting
  <2>5. ptr'[h] = q /\ pc'[h] = "put_count" /\ pc'[h] \in Midway
    BY <1>6 DEF PutAppend, Goto, Midway, Inductive, TypeOK, HandlerTypes,
       locals
  <2> HIDE DEF new
  <2> QED BY <2>2, <2>3, <2>4, <2>5, BooksOwner
<1>7. ASSUME GetPop(h) PROVE AllBooks'
  <2> PICK q \in Queues : q = ptr[h]
    BY <1>7, InUse DEF GetPop, HasQueue, Draining, Inductive
  <2> DEFINE new == Popped(heap[q])
  <2>1. heap[q] \in Queue BY DEF Inductive, TypeOK, BrokerTypes
  <2>2. new \in Queue /\ Half("get_count", new)
    BY <1>7, <2>1, OwnHalf, PoppedOps DEF GetPop, Half, Midway
  <2>3. heap' = [heap EXCEPT ![q] = new] BY <1>7 DEF GetPop
  <2>4. pc[h] \in QWriting BY <1>7 DEF GetPop, QWriting
  <2>5. ptr'[h] = q /\ pc'[h] = "get_count" /\ pc'[h] \in Midway
    BY <1>7 DEF GetPop, Goto, Midway, Inductive, TypeOK, HandlerTypes, locals
  <2> HIDE DEF new
  <2> QED BY <2>2, <2>3, <2>4, <2>5, BooksOwner
<1>8. ASSUME PutCount(h) PROVE AllBooks'
  <2> PICK q \in Queues : q = ptr[h]
    BY <1>8, InUse DEF PutCount, HasQueue, Draining, Inductive
  <2> DEFINE new == [heap[q] EXCEPT !.enqueued = @ + 1]
  <2>1. heap[q] \in Queue BY DEF Inductive, TypeOK, BrokerTypes
  <2>2. new \in Queue /\ Balanced(new)
    BY <1>8, <2>1, OwnHalf, CountedOps DEF PutCount, Midway
  <2>3. heap' = [heap EXCEPT ![q] = new] BY <1>8 DEF PutCount
  <2>4. pc[h] \in QWriting BY <1>8 DEF PutCount, QWriting
  <2>5. ptr'[h] # q /\ pc'[h] \notin Midway
    BY <1>8 DEF PutCount, Answer, Midway, Inductive, TypeOK, HandlerTypes
  <2> HIDE DEF new
  <2> QED BY <2>2, <2>3, <2>4, <2>5, BooksOwner
<1>9. ASSUME GetCount(h) PROVE AllBooks'
  <2> PICK q \in Queues : q = ptr[h]
    BY <1>9, InUse DEF GetCount, HasQueue, Draining, Inductive
  <2> DEFINE new == [heap[q] EXCEPT !.dequeued = @ + 1]
  <2>1. heap[q] \in Queue BY DEF Inductive, TypeOK, BrokerTypes
  <2>2. new \in Queue /\ Balanced(new)
    BY <1>9, <2>1, OwnHalf, CountedOps DEF GetCount, Midway
  <2>3. heap' = [heap EXCEPT ![q] = new] BY <1>9 DEF GetCount
  <2>4. pc[h] \in QWriting BY <1>9 DEF GetCount, QWriting
  <2>5. ptr'[h] # q /\ pc'[h] \notin Midway
    BY <1>9 DEF GetCount, Answer, Midway, Inductive, TypeOK, HandlerTypes
  <2> HIDE DEF new
  <2> QED BY <2>2, <2>3, <2>4, <2>5, BooksOwner
<1>10. ASSUME DrainCount(h) PROVE AllBooks'
  <2> PICK q \in Queues : q = ptr[h]
    BY <1>10, InUse DEF DrainCount, HasQueue, Draining, Inductive
  <2> DEFINE new == [heap[q] EXCEPT !.depth = 0]
  <2>1. heap[q] \in Queue BY DEF Inductive, TypeOK, BrokerTypes
  <2>2. new \in Queue /\ Balanced(new)
    BY <1>10, <2>1, OwnHalf, CountedOps DEF DrainCount, Midway
  <2>3. heap' = [heap EXCEPT ![q] = new] BY <1>10 DEF DrainCount
  <2>4. pc[h] \in QWriting BY <1>10 DEF DrainCount, QWriting
  <2>5. ptr'[h] # q /\ pc'[h] \notin Midway
    BY <1>10 DEF DrainCount, Answer, Midway, Inductive, TypeOK, HandlerTypes
  <2> HIDE DEF new
  <2> QED BY <2>2, <2>3, <2>4, <2>5, BooksOwner
<1>11. ASSUME GetHead(h) PROVE AllBooks'
  <2> PICK q \in Queues : q = ptr[h]
    BY <1>11, InUse DEF GetHead, HasQueue, Inductive
  <2>1. Half("get_pop", heap[q]) BY <1>11, OwnBooks DEF GetHead, Half
  <2>2. pc'[h] = "get_pop" /\ ptr' = ptr /\ heap' = heap
    BY <1>11 DEF GetHead, Goto, Inductive, TypeOK, HandlerTypes
  <2>3. \A x \in Handlers : x # h => pc'[x] = pc[x]
    BY Locality DEF Inductive, TypeOK
  <2>4. \A x \in Handlers : x # h /\ ptr[x] = q => pc[x] \notin Midway
    BY <1>11, Alone DEF GetHead, Midway, QWriting, Inductive
  <2>5. Books(q)' BY <2>1, <2>2, <2>3, <2>4 DEF Books, Midway, Half
  <2>6. ASSUME NEW p \in Queues, p # q PROVE Books(p)'
    BY <2>2, <2>3, <2>6, BooksFrame DEF Inductive, AllBooks
  <2> QED BY <2>5, <2>6 DEF AllBooks
<1> QED BY <1>1, <1>2, <1>3, <1>4, <1>5, <1>6, <1>7, <1>8, <1>9, <1>10, <1>11
           DEF Arrive, Acquire, Step

\* No step adds a torn row to an answer of Stats.
LEMMA StatsNotTornStep ==
  ASSUME Inductive, NEW h \in Handlers, Arrive(h) \/ Acquire(h) \/ Step(h)
  PROVE  StatsNotTorn'
<1>1. CASE (\E op \in Requests, n \in Names : Request(h, op, n)) \/
            (\E code \in {400, 500} : Refuse(h, code)) \/ LockBroker(h) \/
            RLockBroker(h) \/ LockQueue(h) \/
            (\E n \in Names : StatsNext(h, n)) \/ NotExist(h) \/ Find(h) \/
            CreateExists(h) \/ CreateAbsent(h) \/
            (\E q \in Queues : CreateQueue(h, q)) \/ DeleteQueue(h) \/
            DrainClear(h) \/ DrainCount(h) \/
            (\E m \in Messages : NewMessage(h, m)) \/ NewMessageFails(h) \/
            PutAppend(h) \/ PutCount(h) \/ GetEmpty(h) \/ GetHead(h) \/
            GetPop(h) \/ GetCount(h) \/ StatsDone(h)
  BY <1>1 DEF StatsNotTorn, Inductive, TypeOK, HandlerTypes, locals,
     Request, Refuse, LockBroker, RLockBroker, LockQueue, StatsNext, NotExist,
     Find, CreateExists, CreateAbsent, CreateQueue, DeleteQueue, DrainClear,
     DrainCount, NewMessage, NewMessageFails, PutAppend, PutCount, GetEmpty,
     GetHead, GetPop, GetCount, StatsDone
<1>2. CASE Respond(h)
  BY <1>2 DEF StatsNotTorn, Inductive, TypeOK, HandlerTypes, Respond
<1>3. ASSUME StatsRow(h) PROVE StatsNotTorn'
  <2> DEFINE q == heap[ptr[h]]
             stat == [name |-> arg[h], depth |-> q.depth,
                      enqueued |-> q.enqueued, dequeued |-> q.dequeued,
                      drained |-> q.drained]
  <2>1. stat.enqueued = stat.dequeued + stat.drained + stat.depth
    BY <1>3, ReadBooks DEF StatsRow, Balanced
  <2>2. rows' = [rows EXCEPT ![h] = @ \cup {stat}] BY <1>3 DEF StatsRow
  <2> HIDE DEF stat
  <2> QED BY <2>1, <2>2 DEF StatsNotTorn, Inductive, TypeOK, HandlerTypes
<1> QED BY <1>1, <1>2, <1>3 DEF Arrive, Acquire, Step

\* What a step does to the messages of a queue: a new queue has none, the
\* owner of q.mu drops, appends or takes one, and every other step leaves
\* them, and the history of those that came and went, as they are.
LEMMA Contents ==
  ASSUME Inductive, NEW h \in Handlers, Arrive(h) \/ Acquire(h) \/ Step(h),
         NEW q \in Queues
  PROVE  \/ /\ heap'[q].messages = heap[q].messages
            /\ arrived'[q] = arrived[q] /\ taken'[q] = taken[q]
            /\ heap'[q].drained = heap[q].drained
         \/ /\ CreateQueue(h, q) /\ heap'[q].messages = <<>>
            /\ arrived'[q] = <<>> /\ taken'[q] = <<>>
            /\ heap'[q].drained = 0
         \/ /\ DrainClear(h) /\ ptr[h] = q /\ heap'[q].messages = <<>>
            /\ arrived'[q] = arrived[q] /\ taken'[q] = taken[q]
            /\ heap'[q].drained = heap[q].drained + heap[q].depth
         \/ /\ PutAppend(h) /\ ptr[h] = q
            /\ heap'[q].messages = Append(heap[q].messages, msg[h])
            /\ arrived'[q] = Append(arrived[q], msg[h])
            /\ taken'[q] = taken[q]
            /\ heap'[q].drained = heap[q].drained
         \/ /\ GetPop(h) /\ ptr[h] = q
            /\ heap'[q].messages = Tail(heap[q].messages)
            /\ arrived'[q] = arrived[q]
            /\ taken'[q] = Append(taken[q], msg[h])
            /\ heap'[q].drained = heap[q].drained
<1>1. CASE (\E op \in Requests, n \in Names : Request(h, op, n)) \/
            (\E code \in {400, 500} : Refuse(h, code)) \/ Respond(h) \/
            LockBroker(h) \/ RLockBroker(h) \/ LockQueue(h) \/
            (\E n \in Names : StatsNext(h, n)) \/ NotExist(h) \/ Find(h) \/
            CreateExists(h) \/ CreateAbsent(h) \/ DeleteQueue(h) \/
            (\E m \in Messages : NewMessage(h, m)) \/ NewMessageFails(h) \/
            GetEmpty(h) \/ GetHead(h) \/ StatsRow(h) \/ StatsDone(h)
  BY <1>1 DEF history, Request, Refuse,
     Respond, LockBroker, RLockBroker, LockQueue, StatsNext, NotExist, Find,
     CreateExists, CreateAbsent, DeleteQueue, NewMessage, NewMessageFails,
     GetEmpty, GetHead, StatsRow, StatsDone
<1>2. heap[q] \in Queue /\ arrived \in [Queues -> Seq(Messages)]
      /\ taken \in [Queues -> Seq(Messages)] /\ heap \in [Queues -> Queue]
  BY DEF Inductive, TypeOK, BrokerTypes
<1>3. ASSUME NEW p \in Queues, CreateQueue(h, p)
      PROVE  IF p = q THEN /\ heap'[q].messages = <<>> /\ heap'[q].drained = 0
                           /\ arrived'[q] = <<>> /\ taken'[q] = <<>>
             ELSE /\ heap'[q].messages = heap[q].messages
                  /\ heap'[q].drained = heap[q].drained
                  /\ arrived'[q] = arrived[q] /\ taken'[q] = taken[q]
  BY <1>2, <1>3 DEF CreateQueue, newQueue
<1>4. CASE DrainClear(h)
  BY <1>2, <1>4 DEF DrainClear, history, Cleared, Queue
<1>5. ASSUME DrainCount(h) \/ PutCount(h) \/ GetCount(h)
      PROVE  /\ heap'[q].messages = heap[q].messages
             /\ heap'[q].drained = heap[q].drained
             /\ arrived'[q] = arrived[q] /\ taken'[q] = taken[q]
  <2>1. arrived' = arrived /\ taken' = taken
    BY <1>5 DEF DrainCount, PutCount, GetCount, history
  <2>2. CASE DrainCount(h) BY <1>2, <2>1, <2>2 DEF DrainCount, Queue
  <2>3. CASE PutCount(h) BY <1>2, <2>1, <2>3 DEF PutCount, Queue
  <2>4. CASE GetCount(h) BY <1>2, <2>1, <2>4 DEF GetCount, Queue
  <2> QED BY <1>5, <2>2, <2>3, <2>4
<1>6. CASE PutAppend(h)
  BY <1>2, <1>6 DEF PutAppend, Appended, Queue
<1>7. CASE GetPop(h)
  BY <1>2, <1>7 DEF GetPop, Popped, Queue
<1> QED BY <1>1, <1>3, <1>4, <1>5, <1>6, <1>7 DEF Arrive, Acquire, Step

\* Another handler's message in hand stays the first of its queue: only the
\* owner of q.mu changes what is in a queue.
LEMMA OthersMessages ==
  ASSUME Inductive, NEW h \in Handlers, Arrive(h) \/ Acquire(h) \/ Step(h),
         NEW x \in Handlers, x # h, pc[x] \in QWriting
  PROVE  heap'[ptr[x]].messages = heap[ptr[x]].messages
<1>1. ptr[x] \in Queues
  BY InUse DEF QWriting, HasQueue, Draining, Inductive
<1>2. ~ CreateQueue(h, ptr[x]) BY DEF CreateQueue, Unreachable
<1>3. ptr[h] = ptr[x] => pc[h] \notin QWriting BY Alone DEF Inductive
<1>4. ptr[h] = ptr[x] => ~ DrainClear(h) /\ ~ PutAppend(h) /\ ~ GetPop(h)
  BY <1>3 DEF DrainClear, PutAppend, GetPop, QWriting
<1> QED BY <1>1, <1>2, <1>4, Contents

\* A step of any handler keeps what is said of the messages in hand.
LEMMA InHandStep ==
  ASSUME Inductive, NEW h \in Handlers, Arrive(h) \/ Acquire(h) \/ Step(h)
  PROVE  InHand'
<1>1. ASSUME NEW x \in Handlers, x # h
      PROVE  pc'[x] = pc[x] /\ ptr'[x] = ptr[x] /\ msg'[x] = msg[x]
  <2>1. pc'[x] = pc[x] /\ ptr'[x] = ptr[x]
    BY <1>1, Locality DEF Inductive, TypeOK
  <2>2. msg'[x] = msg[x]
    BY <1>1 DEF Inductive, TypeOK, HandlerTypes, locals, Arrive, Acquire,
       Step, Request, Refuse, Respond, LockBroker, RLockBroker, LockQueue,
       StatsNext, NotExist, Find, CreateExists, CreateAbsent, CreateQueue,
       DeleteQueue, DrainClear, DrainCount, NewMessage, NewMessageFails,
       PutAppend, PutCount, GetEmpty, GetHead, GetPop, GetCount, StatsRow,
       StatsDone
  <2> QED BY <2>1, <2>2
<1>2. ASSUME NEW x \in Handlers, x # h, pc'[x] = "get_pop"
      PROVE  msg'[x] = Head(heap'[ptr'[x]].messages)
  BY <1>1, <1>2, OthersMessages DEF QWriting, Inductive, InHand
<1> DEFINE Held == {"put_lock", "put_append", "put_count", "get_pop",
                    "get_count", "reply"}
<1>3. /\ msg'[h] # Nil => pc'[h] \in Held
      /\ pc'[h] = "get_pop" => msg'[h] = Head(heap'[ptr'[h]].messages)
  <2>1. CASE (\E op \in Requests, n \in Names : Request(h, op, n)) \/
              (\E code \in {400, 500} : Refuse(h, code)) \/ Respond(h) \/
              LockBroker(h) \/ RLockBroker(h) \/ LockQueue(h)
    BY <2>1 DEF Inductive, TypeOK, HandlerTypes, InHand, locals, Goto,
       Answer, AfterLock, AfterRLock, AfterQLock, Requests, Request, Refuse,
       Respond, LockBroker, RLockBroker, LockQueue
  <2>2. CASE (\E n \in Names : StatsNext(h, n)) \/ NotExist(h) \/ Find(h) \/
              CreateExists(h) \/ CreateAbsent(h) \/ DeleteQueue(h) \/
              \E q \in Queues : CreateQueue(h, q)
    BY <2>2 DEF Inductive, TypeOK, HandlerTypes, InHand, locals, Goto,
       Answer, AfterFind, StatsNext, NotExist, Find, CreateExists,
       CreateAbsent, CreateQueue, DeleteQueue
  <2>3. CASE (\E m \in Messages : NewMessage(h, m)) \/ NewMessageFails(h) \/
              GetEmpty(h) \/ StatsRow(h) \/ StatsDone(h)
    BY <2>3 DEF Inductive, TypeOK, HandlerTypes, InHand, locals, Goto,
       Answer, NewMessage, NewMessageFails, GetEmpty, StatsRow, StatsDone
  <2>4. CASE DrainClear(h) \/ DrainCount(h) \/ PutAppend(h) \/ PutCount(h) \/
              GetPop(h) \/ GetCount(h)
    BY <2>4 DEF Inductive, TypeOK, HandlerTypes, InHand, locals, Goto,
       Answer, DrainClear, DrainCount, PutAppend, PutCount, GetPop, GetCount
  <2>5. CASE GetHead(h)
    BY <2>5 DEF Inductive, TypeOK, HandlerTypes, GetHead, Goto
  <2> QED BY <2>1, <2>2, <2>3, <2>4, <2>5 DEF Arrive, Acquire, Step
<1> QED BY <1>1, <1>2, <1>3 DEF InHand, Inductive

\* A step of any handler keeps every queue in order.
LEMMA InOrderStep ==
  ASSUME Inductive, NEW h \in Handlers, Arrive(h) \/ Acquire(h) \/ Step(h)
  PROVE  AllInOrder'
<1> SUFFICES ASSUME NEW q \in Queues
             PROVE  InOrder(heap'[q].messages, taken'[q], arrived'[q])
  BY DEF AllInOrder
<1>1. /\ heap[q].messages \in Seq(Messages)
      /\ taken[q] \in Seq(Messages) /\ arrived[q] \in Seq(Messages)
      /\ InOrder(heap[q].messages, taken[q], arrived[q])
  BY DEF Inductive, TypeOK, BrokerTypes, Queue, AllInOrder
<1>2. ASSUME PutAppend(h), ptr[h] = q PROVE msg[h] \in Messages
  BY <1>2 DEF PutAppend, Inductive, TypeOK, Scopes, HandlerScope,
     HandlerTypes
<1>3. ASSUME GetPop(h), ptr[h] = q
      PROVE  heap[q].messages # <<>> /\ msg[h] = Head(heap[q].messages)
  BY <1>3, OwnHalf DEF GetPop, Half, Midway, Inductive, InHand
<1>4. CASE /\ heap'[q].messages = heap[q].messages
           /\ arrived'[q] = arrived[q] /\ taken'[q] = taken[q]
  BY <1>1, <1>4
<1>5. CASE /\ heap'[q].messages = <<>>
           /\ arrived'[q] = <<>> /\ taken'[q] = <<>>
  BY <1>5, OrderNew
<1>6. CASE /\ heap'[q].messages = <<>>
           /\ arrived'[q] = arrived[q] /\ taken'[q] = taken[q]
  BY <1>1, <1>6, OrderCleared
<1>7. CASE /\ PutAppend(h) /\ ptr[h] = q
           /\ heap'[q].messages = Append(heap[q].messages, msg[h])
           /\ arrived'[q] = Append(arrived[q], msg[h])
           /\ taken'[q] = taken[q]
  BY <1>1, <1>2, <1>7, OrderAppended
<1>8. CASE /\ GetPop(h) /\ ptr[h] = q
           /\ heap'[q].messages = Tail(heap[q].messages)
           /\ arrived'[q] = arrived[q]
           /\ taken'[q] = Append(taken[q], msg[h])
  BY <1>1, <1>3, <1>8, OrderPopped
<1> QED BY <1>4, <1>5, <1>6, <1>7, <1>8, Contents

\* A step of any handler accounts for every message.
LEMMA AccountedStep ==
  ASSUME Inductive, NEW h \in Handlers, Arrive(h) \/ Acquire(h) \/ Step(h)
  PROVE  AllAccounted'
<1> SUFFICES ASSUME NEW q \in Queues
             PROVE  Len(arrived'[q]) = Len(taken'[q]) + heap'[q].drained
                                         + Len(heap'[q].messages)
  BY DEF AllAccounted, Accounted
<1>1. /\ heap[q].messages \in Seq(Messages)
      /\ heap[q].drained \in Int /\ heap[q].depth \in Int
      /\ taken[q] \in Seq(Messages) /\ arrived[q] \in Seq(Messages)
      /\ Len(arrived[q]) = Len(taken[q]) + heap[q].drained + Len(heap[q].messages)
  BY DEF Inductive, TypeOK, BrokerTypes, Queue, AllAccounted, Accounted
<1>2. CASE /\ heap'[q].messages = heap[q].messages
           /\ arrived'[q] = arrived[q] /\ taken'[q] = taken[q]
           /\ heap'[q].drained = heap[q].drained
  BY <1>1, <1>2
<1>3. CASE /\ heap'[q].messages = <<>>
           /\ arrived'[q] = <<>> /\ taken'[q] = <<>>
           /\ heap'[q].drained = 0
  BY <1>3
<1>4. CASE /\ DrainClear(h) /\ ptr[h] = q /\ heap'[q].messages = <<>>
           /\ arrived'[q] = arrived[q] /\ taken'[q] = taken[q]
           /\ heap'[q].drained = heap[q].drained + heap[q].depth
  <2>1. heap[q].depth = Len(heap[q].messages)
    BY <1>4, OwnBooks DEF DrainClear, Balanced
  <2>2. Len(heap'[q].messages) = 0 BY <1>4
  <2>3. Len(taken[q]) \in Nat /\ Len(heap[q].messages) \in Nat
    BY <1>1, LenProperties
  <2>4. Len(arrived'[q]) = Len(arrived[q]) /\ Len(taken'[q]) = Len(taken[q])
    BY <1>4
  <2>5. heap'[q].drained = heap[q].drained + heap[q].depth BY <1>4
  <2> QED BY <1>1, <2>1, <2>2, <2>3, <2>4, <2>5
<1>5. CASE /\ PutAppend(h) /\ ptr[h] = q
           /\ heap'[q].messages = Append(heap[q].messages, msg[h])
           /\ arrived'[q] = Append(arrived[q], msg[h])
           /\ taken'[q] = taken[q]
           /\ heap'[q].drained = heap[q].drained
  <2>1. msg[h] \in Messages
    BY <1>5 DEF PutAppend, Inductive, TypeOK, Scopes, HandlerScope, HandlerTypes
  <2>2. /\ Len(heap'[q].messages) = Len(heap[q].messages) + 1
        /\ Len(arrived'[q]) = Len(arrived[q]) + 1
    BY <1>1, <1>5, <2>1, AppendProperties
  <2>3. Len(taken[q]) \in Nat /\ Len(heap[q].messages) \in Nat
    BY <1>1, LenProperties
  <2>4. Len(taken'[q]) = Len(taken[q]) /\ heap'[q].drained = heap[q].drained
    BY <1>5
  <2> QED BY <1>1, <2>2, <2>3, <2>4
<1>6. CASE /\ GetPop(h) /\ ptr[h] = q
           /\ heap'[q].messages = Tail(heap[q].messages)
           /\ arrived'[q] = arrived[q]
           /\ taken'[q] = Append(taken[q], msg[h])
           /\ heap'[q].drained = heap[q].drained
  <2>1. heap[q].messages # <<>> /\ msg[h] \in Messages
    BY <1>6, OwnHalf DEF GetPop, Half, Midway, Inductive, TypeOK, Scopes,
       HandlerScope, HandlerTypes
  <2>2. Len(heap'[q].messages) = Len(heap[q].messages) - 1
    BY <1>1, <1>6, <2>1, HeadTailProperties
  <2> QED BY <1>1, <1>6, <2>1, <2>2, AppendProperties, LenProperties
<1> QED BY <1>2, <1>3, <1>4, <1>5, <1>6, Contents

-----------------------------------------------------------------------------
(* The theorems.                                                           *)

\* What the mutexes exclude, the directory they keep stable and the books
\* they keep balanced, all together, are preserved by every step.
THEOREM Invariance == Spec => []Inductive
<1>1. Init => Inductive
  <2> SUFFICES ASSUME Init PROVE Inductive OBVIOUS
  <2>1. <<>> \in Seq(Messages) OBVIOUS
  <2>2. BrokerTypes BY <2>1, NewQueueOps DEF Init, BrokerTypes
  <2>3. MutexTypes BY DEF Init, MutexTypes, M!Mutex, M!Free
  <2>4. HandlerTypes /\ Scopes
    BY DEF Init, HandlerTypes, Labels, Scopes, HandlerScope, HasQueue,
       Draining
  <2>5. Exclusion
    BY DEF Init, Exclusion, M!Free, BWriting, BGranted, BReading, QWriting,
       QGranted
  <2>6. DirectoryStable BY DEF Init, DirectoryStable, Draining
  <2>7. AllBooks BY NewQueueOps DEF Init, AllBooks, Books
  <2>8. StatsNotTorn BY DEF Init, StatsNotTorn
  <2>9. InHand BY DEF Init, InHand
  <2>10. AllInOrder BY OrderNew, NewQueueOps DEF Init, AllInOrder, newQueue
  <2>11. AllAccounted BY DEF Init, AllAccounted, Accounted, newQueue
  <2> QED BY <2>2, <2>3, <2>4, <2>5, <2>6, <2>7, <2>8, <2>9, <2>10, <2>11
          DEF Inductive, TypeOK
<1>2. Inductive /\ [Next]_vars => Inductive'
  <2> SUFFICES ASSUME Inductive, [Next]_vars PROVE Inductive' OBVIOUS
  <2>1. ASSUME NEW h \in Handlers, Arrive(h) \/ Acquire(h) \/ Step(h)
        PROVE  Inductive'
    BY <2>1, BrokerTypesStep, MutexTypesStep, HandlerTypesStep, ScopesStep,
       ExclusionStep, DirectoryStableStep, BooksStep, StatsNotTornStep,
       InHandStep, InOrderStep, AccountedStep
       DEF Inductive, TypeOK
  <2>2. CASE UNCHANGED vars
    BY <2>2 DEF vars, locals, history, Inductive, TypeOK, BrokerTypes,
       MutexTypes, HandlerTypes, Scopes, HandlerScope, Exclusion, AllBooks,
       Books, Half, Balanced, DirectoryStable, Attached, StatsNotTorn, M!Mutex,
       InHand, AllInOrder, AllAccounted, Accounted
  <2> QED BY <2>1, <2>2 DEF Next
<1> QED BY <1>1, <1>2, PTL DEF Spec

\* No handler dereferences a nil queue or appends a nil message, and every
\* variable keeps its type.
THEOREM TypeCorrect == Spec => []TypeOK
<1>1. Inductive => TypeOK BY DEF Inductive
<1> QED BY <1>1, Invariance, PTL

\* The counters of a queue agree with its messages whenever its mutex is free.
THEOREM LedgerHolds == Spec => []Ledger
<1>1. Inductive => Ledger
  <2> SUFFICES ASSUME Inductive, NEW q \in Queues, qmu[q].writer = Nil
               PROVE  Balanced(heap[q])
    BY DEF Ledger
  <2>1. \A h \in Handlers : ptr[h] = q => pc[h] \notin Midway
    BY DEF Inductive, Exclusion, QWriting, Midway
  <2> QED BY <2>1 DEF Inductive, AllBooks, Books
<1> QED BY <1>1, Invariance, PTL

\* Every row of every Stats answer balances, however many writers run.
THEOREM StatsRowsBalance == Spec => []StatsNotTorn
<1>1. Inductive => StatsNotTorn BY DEF Inductive
<1> QED BY <1>1, Invariance, PTL

\* Each queue hands out its messages first in, first out, each of them at most
\* once, and loses none that is not counted as drained, whoever else is
\* putting, getting, draining or deleting.
THEOREM FifoHolds == Spec => []FirstInFirstOut
<1>1. Inductive => FirstInFirstOut
  <2> SUFFICES ASSUME Inductive, NEW q \in Queues
               PROVE  Fifo(heap[q].messages, taken[q], arrived[q])
    BY DEF FirstInFirstOut, Inductive, AllAccounted
  <2>1. /\ heap[q].messages \in Seq(Messages)
        /\ taken[q] \in Seq(Messages) /\ arrived[q] \in Seq(Messages)
        /\ InOrder(heap[q].messages, taken[q], arrived[q])
    BY DEF Inductive, TypeOK, BrokerTypes, Queue, AllInOrder
  <2> QED BY <2>1, OrderMeans
<1> QED BY <1>1, Invariance, PTL

\* DrainQueue and Stats work on the queues of the broker, all along.
THEOREM DirectoryIsStable == Spec => []DirectoryStable
<1>1. Inductive => DirectoryStable BY DEF Inductive
<1> QED BY <1>1, Invariance, PTL

\* A queue leaves the map only by DeleteQueue: CreateQueue, however often it
\* runs concurrently, never puts another in the place of one that is there.
THEOREM NothingReplaced == Spec => NeverReplaced
<1>1. Inductive /\ [Next]_vars =>
        \A n \in Names : queues[n] # Nil => queues'[n] \in {queues[n], Nil}
  <2> SUFFICES ASSUME Inductive, [Next]_vars, NEW n \in Names, queues[n] # Nil
               PROVE  queues'[n] \in {queues[n], Nil}
    OBVIOUS
  <2>1. ASSUME NEW h \in Handlers, NEW q \in Queues, CreateQueue(h, q)
        PROVE  queues'[n] = queues[n]
    <3>1. arg[h] # n BY <2>1 DEF CreateQueue, Inductive, DirectoryStable
    <3> QED BY <2>1, <3>1 DEF CreateQueue, Inductive, TypeOK, BrokerTypes
  <2>2. ASSUME NEW h \in Handlers, DeleteQueue(h)
        PROVE  queues'[n] \in {queues[n], Nil}
    BY <2>2 DEF DeleteQueue, Inductive, TypeOK, BrokerTypes
  <2>3. ASSUME NEW h \in Handlers, Arrive(h) \/ Acquire(h) \/ Step(h),
               ~ DeleteQueue(h), \A q \in Queues : ~ CreateQueue(h, q)
        PROVE  queues' = queues
    BY <2>3 DEF Arrive, Acquire, Step, Request, Refuse, Respond, LockBroker,
       RLockBroker, LockQueue, StatsNext, NotExist, Find, CreateExists,
       CreateAbsent, DrainClear, DrainCount, NewMessage, NewMessageFails,
       PutAppend, PutCount, GetEmpty, GetHead, GetPop, GetCount, StatsRow,
       StatsDone
  <2>4. CASE UNCHANGED vars BY <2>4 DEF vars
  <2> QED BY <2>1, <2>2, <2>3, <2>4 DEF Next
<1> QED BY <1>1, Invariance, PTL DEF Spec, NeverReplaced
=============================================================================
