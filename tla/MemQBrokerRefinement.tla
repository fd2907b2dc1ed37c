------------------------ MODULE MemQBrokerRefinement ------------------------
(***************************************************************************)
(* MemQBroker implements AtomicBroker, for any number of handlers, names,  *)
(* queue objects and messages: each step of a handler is one step of       *)
(* AtomicBroker or leaves what AtomicBroker sees unchanged.                *)
(***************************************************************************)
EXTENDS MemQBrokerProofs

USE NilAssumption

-----------------------------------------------------------------------------
(* What AtomicBroker sees.                                                 *)

\* What another handler has found and will answer stays as it is.
LEMMA OthersStay ==
  ASSUME HandlerTypes, NEW h \in Handlers, Arrive(h) \/ Acquire(h) \/ Step(h),
         NEW x \in Handlers, x # h
  PROVE  pc'[x] = pc[x] /\ ptr'[x] = ptr[x] /\ msg'[x] = msg[x]
  BY DEF HandlerTypes, locals, Arrive, Acquire, Step, Request, Refuse,
     Respond, LockBroker, RLockBroker, LockQueue, StatsNext, NotExist, Find,
     CreateExists, CreateAbsent, CreateQueue, DeleteQueue, DrainClear,
     DrainCount, NewMessage, NewMessageFails, PutAppend, PutCount, GetEmpty,
     GetHead, GetPop, GetCount, StatsRow, StatsDone, Goto, Answer

\* What a handler has found, and the message it will answer with.
FoundBy(h)  == IF pc[h] \in UsesQueue THEN ptr[h] ELSE Nil
AnswerBy(h) == IF pc[h] \in Answering THEN msg[h] ELSE Nil

\* A step of one handler changes what that handler has found and will answer.
LEMMA BarsLocal ==
  ASSUME HandlerTypes, NEW h \in Handlers, Arrive(h) \/ Acquire(h) \/ Step(h)
  PROVE  /\ foundBar' = [foundBar EXCEPT ![h] = FoundBy(h)']
         /\ answerBar' = [answerBar EXCEPT ![h] = AnswerBy(h)']
  BY OthersStay DEF foundBar, answerBar, FoundBy, AnswerBy

\* And if it changes neither, nothing.
LEMMA BarsSame ==
  ASSUME HandlerTypes, NEW h \in Handlers, Arrive(h) \/ Acquire(h) \/ Step(h)
  PROVE  /\ FoundBy(h)' = FoundBy(h) => foundBar' = foundBar
         /\ AnswerBy(h)' = AnswerBy(h) => answerBar' = answerBar
<1>1. \A x \in Handlers : x # h =>
        FoundBy(x)' = FoundBy(x) /\ AnswerBy(x)' = AnswerBy(x)
  BY OthersStay DEF FoundBy, AnswerBy
<1>2. /\ foundBar = [x \in Handlers |-> FoundBy(x)]
      /\ answerBar = [x \in Handlers |-> AnswerBy(x)]
      /\ foundBar' = [x \in Handlers |-> FoundBy(x)']
      /\ answerBar' = [x \in Handlers |-> AnswerBy(x)']
  BY DEF foundBar, answerBar, FoundBy, AnswerBy
<1> HIDE DEF FoundBy, AnswerBy
<1>3. ASSUME FoundBy(h)' = FoundBy(h) PROVE foundBar' = foundBar
  BY <1>1, <1>2, <1>3
<1>4. ASSUME AnswerBy(h)' = AnswerBy(h) PROVE answerBar' = answerBar
  BY <1>1, <1>2, <1>4
<1> QED BY <1>3, <1>4

Counting == {"put_count", "get_count"}

\* Which handlers are about to count changes at a queue only by a step of one
\* that gets there or leaves.
LEMMA InFrame ==
  ASSUME HandlerTypes, NEW h \in Handlers, Arrive(h) \/ Acquire(h) \/ Step(h),
         NEW label, NEW q \in Queues,
         pc'[h] = label /\ ptr'[h] = q <=> pc[h] = label /\ ptr[h] = q
  PROVE  In(label, q)' <=> In(label, q)
  BY Locality DEF In

\* A step of a handler that counts neither before nor after it changes no
\* queue that the step leaves as it is, but for Depth.
LEMMA StoreFrame ==
  ASSUME HandlerTypes, NEW h \in Handlers, Arrive(h) \/ Acquire(h) \/ Step(h),
         NEW q \in Queues,
         heap'[q].messages = heap[q].messages,
         heap'[q].enqueued = heap[q].enqueued,
         heap'[q].dequeued = heap[q].dequeued,
         heap'[q].drained = heap[q].drained,
         ptr[h] = q => pc[h] \notin Counting,
         ptr'[h] = q => pc'[h] \notin Counting
  PROVE  Store(q)' = Store(q)
<1>1. In("put_count", q)' <=> In("put_count", q) BY InFrame DEF Counting
<1>2. In("get_count", q)' <=> In("get_count", q) BY InFrame DEF Counting
<1> QED BY <1>1, <1>2 DEF Store

\* Of the queue whose q.mu it owns, only the owner can be about to count.
LEMMA InOwn ==
  ASSUME Inductive, NEW h \in Handlers, pc[h] \in QWriting,
         NEW label \in Counting
  PROVE  In(label, ptr[h]) <=> pc[h] = label
  BY Alone DEF In, Counting, QWriting, Inductive

\* The same after its step.
LEMMA InOwnNext ==
  ASSUME Inductive, NEW h \in Handlers, Arrive(h) \/ Acquire(h) \/ Step(h),
         pc[h] \in QWriting, NEW q \in Queues, q = ptr[h],
         NEW label \in Counting
  PROVE  In(label, q)' <=> pc'[h] = label /\ ptr'[h] = q
<1>1. \A x \in Handlers : x # h => pc'[x] = pc[x] /\ ptr'[x] = ptr[x]
  BY Locality DEF Inductive, TypeOK
<1>2. \A x \in Handlers : x # h /\ ptr[x] = q => pc[x] # label
  BY Alone DEF Counting, QWriting, Inductive
<1> QED BY <1>1, <1>2 DEF In

-----------------------------------------------------------------------------
(* The steps that AtomicBroker does not see.                               *)

Unseen == UNCHANGED <<queues, storeBar, foundBar, answerBar>>

\* A step that changes neither the map nor a queue, outside the stretches in
\* which a handler counts, shows only in what its handler has found and will
\* answer.
LEMMA QuietStep ==
  ASSUME Inductive, NEW h \in Handlers, Arrive(h) \/ Acquire(h) \/ Step(h),
         heap' = heap, pc[h] \notin Counting, pc'[h] \notin Counting
  PROVE  storeBar' = storeBar
<1>1. ASSUME NEW q \in Queues PROVE Store(q)' = Store(q)
  BY StoreFrame DEF Inductive, TypeOK
<1> QED BY <1>1 DEF storeBar

\* Requests, locks, refusals, and all that Stats does.
LEMMA UnseenSteps ==
  ASSUME Inductive, NEW h \in Handlers,
         \/ Arrive(h) \/ Acquire(h)
         \/ NotExist(h) \/ CreateExists(h) \/ CreateAbsent(h)
         \/ (\E m \in Messages : NewMessage(h, m)) \/ GetHead(h)
         \/ StatsRow(h) \/ StatsDone(h)
         \/ Find(h) /\ pc[h] = "draining"
  PROVE  Unseen
<1>1. Arrive(h) \/ Acquire(h) \/ Step(h) BY DEF Step
<1>2. /\ queues' = queues /\ heap' = heap
      /\ pc[h] \notin Counting /\ pc'[h] \notin Counting
  <2>1. CASE Arrive(h) \/ Acquire(h)
    BY <2>1 DEF Inductive, TypeOK, HandlerTypes, Counting, Goto, Answer,
       AfterLock, AfterRLock, AfterQLock, Requests, Arrive, Acquire, Request,
       Refuse, LockBroker, RLockBroker, LockQueue, StatsNext
  <2>2. CASE ~ (Arrive(h) \/ Acquire(h))
    BY <2>2 DEF Inductive, TypeOK, HandlerTypes, Counting, Goto, Answer,
       AfterFind, NotExist, CreateExists, CreateAbsent, NewMessage, GetHead,
       StatsRow, StatsDone, Find
  <2> QED BY <2>1, <2>2
<1>3. FoundBy(h)' = FoundBy(h) /\ AnswerBy(h)' = AnswerBy(h)
  <2>1. CASE Arrive(h) \/ Acquire(h)
    BY <2>1 DEF Inductive, TypeOK, HandlerTypes, InHand, FoundBy, AnswerBy,
       UsesQueue, Answering,
       Goto, Answer, AfterLock, AfterRLock, AfterQLock, Requests, locals,
       Arrive, Acquire, Request, Refuse, LockBroker, RLockBroker, LockQueue,
       StatsNext
  <2>2. CASE ~ (Arrive(h) \/ Acquire(h))
    BY <2>2 DEF Inductive, TypeOK, HandlerTypes, InHand, FoundBy, AnswerBy,
       UsesQueue, Answering,
       Goto, Answer, AfterFind, locals, NotExist, CreateExists, CreateAbsent,
       NewMessage, GetHead, StatsRow, StatsDone, Find
  <2> QED BY <2>1, <2>2
<1> QED BY <1>1, <1>2, <1>3, QuietStep, BarsSame DEF Unseen, Inductive, TypeOK

\* The counters of a queue, which AtomicBroker has counted already.
LEMMA CountSteps ==
  ASSUME Inductive, NEW h \in Handlers,
         PutCount(h) \/ GetCount(h) \/ DrainCount(h)
  PROVE  Unseen
<1>1. Arrive(h) \/ Acquire(h) \/ Step(h) BY DEF Step
<1> PICK q \in Queues : q = ptr[h]
  BY InUse DEF PutCount, GetCount, DrainCount, HasQueue, Draining, Inductive
<1>2. /\ pc[h] \in QWriting /\ pc'[h] = "reply" /\ ptr'[h] = Nil
      /\ queues' = queues /\ msg' = msg
  BY DEF PutCount, GetCount, DrainCount, Answer, QWriting, Inductive, TypeOK,
     HandlerTypes, locals
<1>3. /\ In("put_count", q) <=> pc[h] = "put_count"
      /\ In("get_count", q) <=> pc[h] = "get_count"
      /\ ~ In("put_count", q)' /\ ~ In("get_count", q)'
  BY <1>1, <1>2, InOwn, InOwnNext DEF Counting
<1>4. heap[q] \in Queue /\ heap \in [Queues -> Queue]
  BY DEF Inductive, TypeOK, BrokerTypes
<1>5. Store(q)' = Store(q)
  <2>1. CASE PutCount(h)
    BY <1>3, <1>4, <2>1 DEF PutCount, Store, Queue
  <2>2. CASE GetCount(h)
    BY <1>3, <1>4, <2>2 DEF GetCount, Store, Queue
  <2>3. CASE DrainCount(h)
    BY <1>3, <1>4, <2>3 DEF DrainCount, Store, Queue
  <2> QED BY <2>1, <2>2, <2>3
<1>6. ASSUME NEW p \in Queues, p # q PROVE Store(p)' = Store(p)
  <2>1. heap'[p] = heap[p]
    BY <1>4, <1>6 DEF PutCount, GetCount, DrainCount
  <2> QED BY <1>1, <1>2, <1>6, <2>1, StoreFrame DEF Inductive, TypeOK
<1>7. storeBar' = storeBar BY <1>5, <1>6 DEF storeBar
<1>8. foundBar' = foundBar /\ answerBar' = answerBar
  BY <1>1, <1>2, BarsSame DEF PutCount, GetCount, DrainCount, UsesQueue,
     Answering, FoundBy, AnswerBy, Inductive, InHand, TypeOK
<1> QED BY <1>2, <1>7, <1>8 DEF Unseen

-----------------------------------------------------------------------------
(* The steps that AtomicBroker sees.                                       *)

\* getQueue of PutMessage and GetMessage.
LEMMA FindStep ==
  ASSUME Inductive, NEW h \in Handlers, Find(h), pc[h] # "draining"
  PROVE  arg[h] \in Names /\ Atomic!Find(h, arg[h])
<1>1. Arrive(h) \/ Acquire(h) \/ Step(h) BY DEF Step
<1>2. /\ pc[h] \in {"put_find", "get_find"}
      /\ pc'[h] \in {"put_new", "get_lock"} /\ ptr'[h] = queues[arg[h]]
      /\ msg' = msg /\ heap' = heap /\ queues' = queues
      /\ queues[arg[h]] # Nil
  BY DEF Find, AfterFind, Exists, Goto, locals, Inductive, TypeOK, HandlerTypes
<1>3. arg[h] \in Names
  BY <1>2 DEF Inductive, TypeOK, Scopes, HandlerScope
<1>4. storeBar' = storeBar BY <1>1, <1>2, QuietStep DEF Counting
<1>5. foundBar[h] = Nil /\ foundBar' = [foundBar EXCEPT ![h] = queues[arg[h]]]
  BY <1>1, <1>2, BarsLocal DEF FoundBy, foundBar, UsesQueue, Inductive, TypeOK
<1>6. answerBar' = answerBar
  BY <1>1, <1>2, BarsSame DEF AnswerBy, Answering, Inductive, TypeOK
<1> QED BY <1>2, <1>3, <1>4, <1>5, <1>6 DEF Atomic!Find

\* No message could be made, or the queue was empty.
LEMMA GiveUpStep ==
  ASSUME Inductive, NEW h \in Handlers, NewMessageFails(h) \/ GetEmpty(h)
  PROVE  Atomic!GiveUp(h)
<1>1. Arrive(h) \/ Acquire(h) \/ Step(h) BY DEF Step
<1>2. /\ pc[h] \in {"put_new", "get_head"} /\ pc'[h] = "reply"
      /\ msg' = msg /\ heap' = heap /\ queues' = queues
  BY DEF NewMessageFails, GetEmpty, Answer, locals, Inductive, TypeOK,
     HandlerTypes
<1>3. storeBar' = storeBar BY <1>1, <1>2, QuietStep DEF Counting
<1>4. foundBar' = [foundBar EXCEPT ![h] = Nil]
  BY <1>1, <1>2, BarsLocal DEF FoundBy, UsesQueue, Inductive, TypeOK
<1>5. answerBar' = answerBar
  BY <1>1, <1>2, BarsSame DEF AnswerBy, Answering, Inductive, TypeOK, InHand
<1> QED BY <1>2, <1>3, <1>4, <1>5 DEF Atomic!GiveUp

\* The answer is out.
LEMMA RespondStep ==
  ASSUME Inductive, NEW h \in Handlers, Respond(h)
  PROVE  Atomic!Respond(h)
<1>1. Arrive(h) \/ Acquire(h) \/ Step(h) BY DEF Step
<1>2. /\ pc[h] = "reply" /\ pc'[h] = "idle"
      /\ heap' = heap /\ queues' = queues
  BY DEF Respond, Inductive, TypeOK, HandlerTypes
<1>3. storeBar' = storeBar BY <1>1, <1>2, QuietStep DEF Counting
<1>4. foundBar' = foundBar
  BY <1>1, <1>2, BarsSame DEF FoundBy, UsesQueue, Inductive, TypeOK
<1>5. answerBar' = [answerBar EXCEPT ![h] = Nil]
  BY <1>1, <1>2, BarsLocal DEF AnswerBy, Answering, Inductive, TypeOK
<1> QED BY <1>2, <1>3, <1>4, <1>5 DEF Atomic!Respond

\* DeleteQueue, though handlers may still hold the queue.
LEMMA DeleteStep ==
  ASSUME Inductive, NEW h \in Handlers, DeleteQueue(h)
  PROVE  arg[h] \in Names /\ Atomic!Delete(arg[h])
<1>1. Arrive(h) \/ Acquire(h) \/ Step(h) BY DEF Step
<1>2. /\ pc[h] = "deleting" /\ pc'[h] = "reply" /\ msg' = msg /\ heap' = heap
      /\ queues[arg[h]] # Nil /\ queues' = [queues EXCEPT ![arg[h]] = Nil]
  BY DEF DeleteQueue, Exists, Answer, locals, Inductive, TypeOK, HandlerTypes
<1>3. arg[h] \in Names
  BY <1>2 DEF Inductive, TypeOK, Scopes, HandlerScope
<1>4. storeBar' = storeBar BY <1>1, <1>2, QuietStep DEF Counting
<1>5. foundBar' = foundBar /\ answerBar' = answerBar
  BY <1>1, <1>2, BarsSame DEF FoundBy, AnswerBy, UsesQueue, Answering,
     Inductive, TypeOK, InHand
<1> QED BY <1>2, <1>3, <1>4, <1>5 DEF Atomic!Delete

\* CreateQueue, whose new queue no handler holds.
LEMMA CreateStep ==
  ASSUME Inductive, NEW h \in Handlers, NEW q \in Queues, CreateQueue(h, q)
  PROVE  arg[h] \in Names /\ Atomic!Create(arg[h], q)
<1>1. Arrive(h) \/ Acquire(h) \/ Step(h) BY DEF Step
<1>2. /\ pc[h] = "inserting" /\ pc'[h] = "reply" /\ msg' = msg
      /\ queues' = [queues EXCEPT ![arg[h]] = q]
  BY DEF CreateQueue, Answer, locals, Inductive, TypeOK, HandlerTypes
<1>3. arg[h] \in Names /\ queues[arg[h]] = Nil
  BY <1>2 DEF Inductive, TypeOK, Scopes, HandlerScope, DirectoryStable
<1>4. /\ \A n \in Names : queues[n] # q
      /\ \A x \in Handlers : ptr[x] # q /\ ptr'[x] # q
  BY DEF CreateQueue, Unreachable, Answer, Inductive, TypeOK, HandlerTypes
<1>5. q \notin Atomic!InUse
  BY <1>4 DEF Atomic!InUse, foundBar
<1>6. /\ heap'[q] = newQueue /\ \A p \in Queues \ {q} : heap'[p] = heap[p]
  BY DEF CreateQueue, Inductive, TypeOK, BrokerTypes
<1>7. storeBar' = [storeBar EXCEPT ![q] = Atomic!Empty]
  <2>1. ~ In("put_count", q)' /\ ~ In("get_count", q)' BY <1>4 DEF In
  <2>2. Store(q)' = Atomic!Empty
    BY <1>6, <2>1 DEF Store, newQueue, Atomic!Empty
  <2>3. ASSUME NEW p \in Queues \ {q} PROVE Store(p)' = Store(p)
    BY <1>1, <1>2, <1>6, StoreFrame DEF Counting, Inductive, TypeOK
  <2> QED BY <2>2, <2>3 DEF storeBar
<1>8. foundBar' = foundBar /\ answerBar' = answerBar
  BY <1>1, <1>2, BarsSame DEF FoundBy, AnswerBy, UsesQueue, Answering,
     Inductive, TypeOK, InHand
<1> QED BY <1>2, <1>3, <1>5, <1>7, <1>8 DEF Atomic!Create

\* A queue as AtomicBroker sees it.
AsStore(e, d, r, m) ==
  [enqueued |-> e, dequeued |-> d, drained |-> r, messages |-> m]

\* What the owner of q.mu does shows at the queue it owns and no other.
LEMMA OtherStores ==
  ASSUME Inductive, NEW h \in Handlers, NEW q \in Queues, q = ptr[h],
         DrainClear(h) \/ PutAppend(h) \/ GetPop(h),
         NEW p \in Queues, p # q
  PROVE  Store(p)' = Store(p)
<1>1. Arrive(h) \/ Acquire(h) \/ Step(h) BY DEF Step
<1>2. ptr'[h] = q /\ heap'[p] = heap[p]
  BY DEF DrainClear, PutAppend, GetPop, locals, Inductive, TypeOK, BrokerTypes
<1> QED BY <1>1, <1>2, StoreFrame DEF Inductive, TypeOK

\* DrainQueue, when the messages are dropped: Depth is their number.
LEMMA DrainStep ==
  ASSUME Inductive, NEW h \in Handlers, DrainClear(h)
  PROVE  arg[h] \in Names /\ Atomic!Drain(arg[h])
<1>1. Arrive(h) \/ Acquire(h) \/ Step(h) BY DEF Step
<1> PICK q \in Queues : q = ptr[h]
  BY InUse DEF DrainClear, HasQueue, Draining, Inductive
<1>2. /\ pc[h] = "drain_clear" /\ pc[h] \in QWriting
      /\ pc'[h] = "drain_count" /\ msg' = msg /\ queues' = queues
  BY DEF DrainClear, Goto, locals, QWriting, Inductive, TypeOK, HandlerTypes
<1>3. arg[h] \in Names /\ q = queues[arg[h]]
  BY <1>2 DEF Inductive, TypeOK, Scopes, HandlerScope, DirectoryStable,
     Draining
<1>4. heap[q] \in Queue /\ Balanced(heap[q])
  BY <1>2, OwnBooks DEF Inductive, TypeOK, BrokerTypes
<1>5. /\ heap'[q].messages = <<>>
      /\ heap'[q].enqueued = heap[q].enqueued
      /\ heap'[q].dequeued = heap[q].dequeued
      /\ heap'[q].drained = heap[q].drained + Len(heap[q].messages)
  BY <1>4 DEF DrainClear, Cleared, Balanced, Queue, Inductive, TypeOK,
     BrokerTypes
<1>6. ~ In("put_count", q) /\ ~ In("get_count", q)
      /\ ~ In("put_count", q)' /\ ~ In("get_count", q)'
  BY <1>1, <1>2, InOwn, InOwnNext DEF Counting
<1>7. Store(q)' = [Store(q) EXCEPT !.messages = <<>>,
                     !.drained = @ + Len(Store(q).messages)]
  <2>1. Store(q) = AsStore(heap[q].enqueued, heap[q].dequeued,
                           heap[q].drained, heap[q].messages)
    BY <1>4, <1>6 DEF Store, AsStore, Queue
  <2>2. Store(q)' = AsStore(heap'[q].enqueued, heap'[q].dequeued,
                            heap'[q].drained, heap'[q].messages)
    <3>1. heap'[q].enqueued + 0 = heap'[q].enqueued
          /\ heap'[q].dequeued + 0 = heap'[q].dequeued
      BY <1>4, <1>5 DEF Queue
    <3> QED BY <1>6, <3>1 DEF Store, AsStore
  <2> DEFINE more == heap'[q].messages
             x == heap'[q].drained
             t == AsStore(heap'[q].enqueued, heap'[q].dequeued,
                          heap[q].drained, more)
  <2>3. /\ heap'[q].enqueued = heap[q].enqueued
        /\ heap'[q].dequeued = heap[q].dequeued
    BY <1>5
  <2>4. [Store(q) EXCEPT !.messages = more] = t BY <2>1, <2>3 DEF AsStore
  <2>5. [t EXCEPT !.drained = x] = Store(q)' BY <2>2 DEF AsStore
  <2>6. [Store(q) EXCEPT !.messages = more, !.drained = x]
          = [[Store(q) EXCEPT !.messages = more] EXCEPT !.drained = x]
    OBVIOUS
  <2>7. /\ more = <<>>
        /\ x = Store(q).drained + Len(Store(q).messages)
    BY <1>5, <2>1 DEF AsStore
  <2> HIDE DEF more, x, t
  <2> QED BY <2>4, <2>5, <2>6, <2>7
<1>8. storeBar' = [storeBar EXCEPT ![q].messages = <<>>,
                     ![q].drained = @ + Len(storeBar[q].messages)]
  BY <1>7, OtherStores DEF storeBar
<1>9. foundBar' = foundBar /\ answerBar' = answerBar
  BY <1>1, <1>2, BarsSame DEF FoundBy, AnswerBy, UsesQueue, Answering,
     Inductive, TypeOK
<1> QED BY <1>2, <1>3, <1>8, <1>9 DEF Atomic!Drain

\* PutMessage, when the message is appended.
LEMMA EnqueueStep ==
  ASSUME Inductive, NEW h \in Handlers, PutAppend(h)
  PROVE  msg[h] \in Messages /\ Atomic!Enqueue(h, msg[h])
<1>1. Arrive(h) \/ Acquire(h) \/ Step(h) BY DEF Step
<1> PICK q \in Queues : q = ptr[h]
  BY InUse DEF PutAppend, HasQueue, Inductive
<1>2. /\ pc[h] = "put_append" /\ pc[h] \in QWriting
      /\ pc'[h] = "put_count" /\ msg' = msg /\ ptr' = ptr /\ queues' = queues
  BY DEF PutAppend, Goto, locals, QWriting, Inductive, TypeOK, HandlerTypes
<1>3. msg[h] \in Messages
  BY <1>2 DEF Inductive, TypeOK, Scopes, HandlerScope, HandlerTypes
<1>4. heap[q] \in Queue BY DEF Inductive, TypeOK, BrokerTypes
<1>5. /\ heap'[q].messages = Append(heap[q].messages, msg[h])
      /\ heap'[q].enqueued = heap[q].enqueued
      /\ heap'[q].dequeued = heap[q].dequeued
      /\ heap'[q].drained = heap[q].drained
  BY <1>4 DEF PutAppend, Appended, Queue, Inductive, TypeOK, BrokerTypes
<1>6. ~ In("put_count", q) /\ ~ In("get_count", q)
      /\ In("put_count", q)' /\ ~ In("get_count", q)'
  BY <1>1, <1>2, InOwn, InOwnNext DEF Counting
<1>7. Store(q)' = [Store(q) EXCEPT !.messages = Append(@, msg[h]),
                                   !.enqueued = @ + 1]
  <2>1. Store(q) = AsStore(heap[q].enqueued, heap[q].dequeued,
                           heap[q].drained, heap[q].messages)
    BY <1>4, <1>6 DEF Store, AsStore, Queue
  <2>2. Store(q)' = AsStore(heap'[q].enqueued + 1, heap'[q].dequeued,
                            heap'[q].drained, heap'[q].messages)
    <3>1. heap'[q].enqueued + 0 = heap'[q].enqueued
          /\ heap'[q].dequeued + 0 = heap'[q].dequeued
      BY <1>4, <1>5 DEF Queue
    <3> QED BY <1>6, <3>1 DEF Store, AsStore
  <2> DEFINE more == heap'[q].messages
             x == heap'[q].enqueued + 1
             t == AsStore(heap[q].enqueued, heap'[q].dequeued,
                          heap'[q].drained, more)
  <2>3. /\ heap'[q].dequeued = heap[q].dequeued
        /\ heap'[q].drained = heap[q].drained
    BY <1>5
  <2>4. [Store(q) EXCEPT !.messages = more] = t BY <2>1, <2>3 DEF AsStore
  <2>5. [t EXCEPT !.enqueued = x] = Store(q)' BY <2>2 DEF AsStore
  <2>6. [Store(q) EXCEPT !.messages = more, !.enqueued = x]
          = [[Store(q) EXCEPT !.messages = more] EXCEPT !.enqueued = x]
    OBVIOUS
  <2>7. /\ more = Append(Store(q).messages, msg[h])
        /\ x = Store(q).enqueued + 1
    BY <1>5, <2>1 DEF AsStore
  <2> HIDE DEF more, x, t
  <2> QED BY <2>4, <2>5, <2>6, <2>7
<1>8. storeBar' = [storeBar EXCEPT ![q].messages = Append(@, msg[h]),
                                   ![q].enqueued = @ + 1]
  BY <1>7, OtherStores DEF storeBar
<1>9. /\ foundBar[h] = q /\ q # Nil
      /\ foundBar' = [foundBar EXCEPT ![h] = Nil]
      /\ answerBar' = [answerBar EXCEPT ![h] = msg[h]]
  BY <1>1, <1>2, BarsLocal DEF FoundBy, AnswerBy, foundBar, UsesQueue,
     Answering, Inductive, TypeOK
<1> QED BY <1>2, <1>3, <1>8, <1>9 DEF Atomic!Enqueue

\* GetMessage, when the message is removed.
LEMMA DequeueStep ==
  ASSUME Inductive, NEW h \in Handlers, GetPop(h)
  PROVE  Atomic!Dequeue(h)
<1>1. Arrive(h) \/ Acquire(h) \/ Step(h) BY DEF Step
<1> PICK q \in Queues : q = ptr[h]
  BY InUse DEF GetPop, HasQueue, Inductive
<1>2. /\ pc[h] = "get_pop" /\ pc[h] \in QWriting
      /\ pc'[h] = "get_count" /\ msg' = msg /\ ptr' = ptr /\ queues' = queues
  BY DEF GetPop, Goto, locals, QWriting, Inductive, TypeOK, HandlerTypes
<1>3. heap[q].messages # <<>> /\ msg[h] = Head(heap[q].messages)
  BY <1>2, OwnHalf DEF Half, Midway, Inductive, InHand
<1>4. heap[q] \in Queue BY DEF Inductive, TypeOK, BrokerTypes
<1>5. /\ heap'[q].messages = Tail(heap[q].messages)
      /\ heap'[q].enqueued = heap[q].enqueued
      /\ heap'[q].dequeued = heap[q].dequeued
      /\ heap'[q].drained = heap[q].drained
  BY <1>4 DEF GetPop, Popped, Queue, Inductive, TypeOK, BrokerTypes
<1>6. ~ In("put_count", q) /\ ~ In("get_count", q)
      /\ ~ In("put_count", q)' /\ In("get_count", q)'
  BY <1>1, <1>2, InOwn, InOwnNext DEF Counting
<1>7. Store(q)' = [Store(q) EXCEPT !.messages = Tail(@), !.dequeued = @ + 1]
  <2>1. Store(q) = AsStore(heap[q].enqueued, heap[q].dequeued,
                           heap[q].drained, heap[q].messages)
    BY <1>4, <1>6 DEF Store, AsStore, Queue
  <2>2. Store(q)' = AsStore(heap'[q].enqueued, heap'[q].dequeued + 1,
                            heap'[q].drained, heap'[q].messages)
    <3>1. heap'[q].enqueued + 0 = heap'[q].enqueued
          /\ heap'[q].dequeued + 0 = heap'[q].dequeued
      BY <1>4, <1>5 DEF Queue
    <3> QED BY <1>6, <3>1 DEF Store, AsStore
  <2> DEFINE more == heap'[q].messages
             x == heap'[q].dequeued + 1
             t == AsStore(heap'[q].enqueued, heap[q].dequeued,
                          heap'[q].drained, more)
  <2>3. /\ heap'[q].enqueued = heap[q].enqueued
        /\ heap'[q].drained = heap[q].drained
    BY <1>5
  <2>4. [Store(q) EXCEPT !.messages = more] = t BY <2>1, <2>3 DEF AsStore
  <2>5. [t EXCEPT !.dequeued = x] = Store(q)' BY <2>2 DEF AsStore
  <2>6. [Store(q) EXCEPT !.messages = more, !.dequeued = x]
          = [[Store(q) EXCEPT !.messages = more] EXCEPT !.dequeued = x]
    OBVIOUS
  <2>7. /\ more = Tail(Store(q).messages)
        /\ x = Store(q).dequeued + 1
    BY <1>5, <2>1 DEF AsStore
  <2> HIDE DEF more, x, t
  <2> QED BY <2>4, <2>5, <2>6, <2>7
<1>8. storeBar' = [storeBar EXCEPT ![q].messages = Tail(@),
                                   ![q].dequeued = @ + 1]
  BY <1>7, OtherStores DEF storeBar
<1>9. /\ foundBar[h] = q /\ q # Nil
      /\ storeBar[q].messages = heap[q].messages
      /\ foundBar' = [foundBar EXCEPT ![h] = Nil]
      /\ answerBar' = [answerBar EXCEPT ![h] = msg[h]]
  BY <1>1, <1>2, BarsLocal DEF FoundBy, AnswerBy, foundBar, storeBar, Store,
     UsesQueue, Answering, Inductive, TypeOK
<1> QED BY <1>2, <1>3, <1>8, <1>9 DEF Atomic!Dequeue

-----------------------------------------------------------------------------
(* The theorem.                                                            *)

\* Requests that run concurrently act as if each took effect at one instant:
\* every behaviour of the broker under its two levels of locks, seen through
\* its map, its queues as counted at that instant and the messages answered,
\* is one of AtomicBroker.
THEOREM Refinement == Spec => ImplementsAtomicBroker
<1>1. Init => Atomic!Init
  <2> SUFFICES ASSUME Init PROVE Atomic!Init OBVIOUS
  <2>1. \A q \in Queues : Store(q) = Atomic!Empty
    BY DEF Init, Store, In, newQueue, Atomic!Empty
  <2> QED BY <2>1 DEF Init, Atomic!Init, storeBar, foundBar, answerBar,
          UsesQueue, Answering
<1>2. Inductive /\ [Next]_vars => [Atomic!Next]_(Atomic!vars)
  <2> SUFFICES ASSUME Inductive, [Next]_vars
               PROVE  Atomic!Next \/ UNCHANGED Atomic!vars
    OBVIOUS
  <2>1. ASSUME NEW h \in Handlers, Arrive(h) \/ Acquire(h) \/ Step(h)
        PROVE  Atomic!Next \/ Unseen
    BY <2>1, UnseenSteps, CountSteps, FindStep, GiveUpStep, RespondStep,
       DeleteStep, CreateStep, DrainStep, EnqueueStep, DequeueStep
       DEF Step, Atomic!Next
  <2>2. CASE UNCHANGED vars
    <3>1. /\ \A q \in Queues : Store(q)' = Store(q)
          /\ foundBar' = foundBar /\ answerBar' = answerBar
      BY <2>2 DEF vars, locals, Store, In, foundBar, answerBar
    <3> QED BY <2>2, <3>1 DEF vars, storeBar, Atomic!vars
  <2> QED BY <2>1, <2>2 DEF Next, Unseen, Atomic!vars
<1> QED BY <1>1, <1>2, Invariance, PTL DEF Spec, ImplementsAtomicBroker,
           Atomic!Spec
=============================================================================
