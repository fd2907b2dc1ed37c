----------------------------- MODULE MemQBroker -----------------------------
(***************************************************************************)
(* The in-memory queue broker of kuard: kuard/pkg/memq/server/broker.go    *)
(* under the HTTP handlers of api.go.  net/http runs every request in a    *)
(* goroutine of its own, a handler here, and the handlers meet only in the *)
(* broker: the map of queues under b.mu, and each queue under its own      *)
(* q.mu.  PutMessage and GetMessage release b.mu before they lock q.mu, so *)
(* a queue can be deleted between the lookup and the use.                  *)
(*                                                                         *)
(* One action is one stretch of code between two points where another      *)
(* goroutine can be observed: taking a lock, and the separate assignments  *)
(* of a critical section.  A message is the uuid newMessage gives it.      *)
(***************************************************************************)
EXTENDS Integers, Sequences

CONSTANTS Handlers,    \* goroutines serving a request
          Names,       \* queue names clients use
          Queues,      \* addresses of Queue objects
          Messages,    \* uuids; each is drawn once, so it bounds the enqueues
          Nil

ASSUME NilAssumption == Nil \notin Handlers \cup Names \cup Queues \cup Messages

VARIABLES queues,      \* Broker.Queues: name -> address, Nil where absent
          heap,        \* the Queue object at each address
          bmu,         \* Broker.mu
          qmu,         \* Queue.mu of each object
          drawn,       \* uuids drawn so far
          pc,          \* where each handler is
          arg,         \* the queue name it works on (in Stats, the row's)
          ptr,         \* its local q
          msg,         \* its local message
          todo,        \* names the range loop of Stats has still to visit
          rows,        \* rows Stats has collected
          status,      \* HTTP status of its answer, 0 before there is one
          arrived,     \* history: messages appended to each object
          taken        \* history: messages GetMessage took from each object

locals  == <<arg, msg, todo, rows>>
history == <<arrived, taken>>
vars == <<queues, heap, bmu, qmu, drawn, pc, ptr, locals, status, history>>

M == INSTANCE RWMutex WITH Nobody <- Nil

newQueue == [depth |-> 0, enqueued |-> 0, dequeued |-> 0, drained |-> 0,
             messages |-> <<>>]

\* What DrainQueue, PutMessage and GetMessage do to q.Messages and q.Depth.
ClearedUncounted(q) == [q EXCEPT !.messages = <<>>]
Cleared(q)     == [q EXCEPT !.messages = <<>>, !.drained = @ + q.depth]
Appended(q, m) == [q EXCEPT !.messages = Append(@, m), !.depth = @ + 1]
DropsLast(q)   == [q EXCEPT !.messages = SubSeq(@, 1, Len(@) - 1),
                            !.depth = @ - 1]
Popped(q)      == [q EXCEPT !.messages = Tail(@), !.depth = @ - 1]

Queue == [depth : Int, enqueued : Int, dequeued : Int, drained : Int,
          messages : Seq(Messages)]
Stat  == [name : Names, depth : Int, enqueued : Int, dequeued : Int,
          drained : Int]

\* Where a handler gets to by announcing b.mu.Lock, taking b.mu.RLock,
\* announcing q.mu.Lock, and finding the queue of that name.
Requests   == {"create", "delete", "drain", "put", "get", "stats"}
AfterLock  == [create |-> "creating", delete |-> "deleting", drain |-> "draining"]
AfterRLock == [put |-> "put_find", get |-> "get_find", stats |-> "stats_next"]
AfterQLock == [put_lock |-> "put_append", get_lock |-> "get_head",
               drain_lock |-> "drain_clear"]
AfterFind  == [put_find |-> "put_new", get_find |-> "get_lock",
               draining |-> "drain_lock"]

Labels == Requests \cup {"idle", "reply", "creating", "inserting", "deleting",
  "draining", "drain_lock", "drain_clear", "drain_count", "put_find",
  "put_new", "put_lock", "put_append", "put_count", "get_find", "get_lock",
  "get_head", "get_pop", "get_count", "stats_next", "stats_row"}

Attached == {n \in Names : queues[n] # Nil}
Unreachable ==
  Queues \ ({queues[n] : n \in Names} \cup {ptr[h] : h \in Handlers})

Init ==
  /\ queues = [n \in Names |-> Nil]
  /\ heap = [q \in Queues |-> newQueue]
  /\ bmu = M!Free
  /\ qmu = [q \in Queues |-> M!Free]
  /\ drawn = {}
  /\ pc = [h \in Handlers |-> "idle"]
  /\ arg = [h \in Handlers |-> Nil]
  /\ ptr = [h \in Handlers |-> Nil]
  /\ msg = [h \in Handlers |-> Nil]
  /\ todo = [h \in Handlers |-> {}]
  /\ rows = [h \in Handlers |-> {}]
  /\ status = [h \in Handlers |-> 0]
  /\ arrived = [q \in Queues |-> <<>>]
  /\ taken = [q \in Queues |-> <<>>]

\* The map lookup, and what it would be if its result were not tested.
Unchecked(h) == TRUE
Exists(h) == queues[arg[h]] # Nil

Goto(h, label) == pc' = [pc EXCEPT ![h] = label] /\ UNCHANGED status

\* The handler writes its answer; the queue it found goes out of scope.
Answer(h, code) ==
  /\ pc' = [pc EXCEPT ![h] = "reply"]
  /\ status' = [status EXCEPT ![h] = code]
  /\ ptr' = [ptr EXCEPT ![h] = Nil]

-----------------------------------------------------------------------------
(* Requests in and answers out.                                            *)

Request(h, op, n) ==
  /\ pc[h] = "idle"
  /\ arg' = [arg EXCEPT ![h] = n]
  /\ Goto(h, op)
  /\ UNCHANGED <<queues, heap, bmu, qmu, drawn, ptr, msg, todo, rows, history>>

\* 400 for the empty name; Enqueue reads the body first, 500 if that fails.
Refuse(h, code) ==
  /\ pc[h] = "idle"
  /\ Answer(h, code)
  /\ UNCHANGED <<queues, heap, bmu, qmu, drawn, locals, history>>

Respond(h) ==
  /\ pc[h] = "reply"
  /\ pc' = [pc EXCEPT ![h] = "idle"]
  /\ arg' = [arg EXCEPT ![h] = Nil]
  /\ msg' = [msg EXCEPT ![h] = Nil]
  /\ rows' = [rows EXCEPT ![h] = {}]
  /\ status' = [status EXCEPT ![h] = 0]
  /\ UNCHANGED <<queues, heap, bmu, qmu, drawn, ptr, todo, history>>

-----------------------------------------------------------------------------
(* Taking locks; the two Lock()s go as far as the announcement.            *)

\* Faults the properties must detect: a read lock that overtakes the waiting
\* writers, a lock that waits for no one, a writer that lets readers stay.
ReaderOvertakes(h) == pc[h] \in DOMAIN AfterRLock \/ M!NoWriter(bmu)
NoWait(h) == TRUE
BrokerFree(h) == M!NoWriter(bmu)
QueueFree(h) == M!NoWriter(qmu[ptr[h]])
BrokerAnnounced(h) == h \in bmu.readers \cup {bmu.writer}
OwnsBroker(h) == h \in bmu.readers \/ M!Owns(bmu, h)
QueueAnnounced(h) == qmu[ptr[h]].writer = h
OwnsQueue(h) == M!Owns(qmu[ptr[h]], h)

LockBroker(h) ==
  /\ pc[h] \in DOMAIN AfterLock
  /\ BrokerFree(h)
  /\ bmu' = M!Lock(bmu, h)
  /\ Goto(h, AfterLock[pc[h]])
  /\ UNCHANGED <<queues, heap, qmu, drawn, ptr, locals, history>>

\* getQueue and Stats; the range loop of Stats starts with the whole map.
RLockBroker(h) ==
  /\ pc[h] \in DOMAIN AfterRLock
  /\ BrokerFree(h)
  /\ bmu' = M!RLock(bmu, h)
  /\ todo' = [todo EXCEPT ![h] = IF pc[h] = "stats" THEN Attached ELSE {}]
  /\ Goto(h, AfterRLock[pc[h]])
  /\ UNCHANGED <<queues, heap, qmu, drawn, ptr, arg, msg, rows, history>>

LockQueue(h) ==
  /\ pc[h] \in DOMAIN AfterQLock
  /\ QueueFree(h)
  /\ qmu' = [qmu EXCEPT ![ptr[h]] = M!Lock(@, h)]
  /\ Goto(h, AfterQLock[pc[h]])
  /\ UNCHANGED <<queues, heap, bmu, drawn, ptr, locals, history>>

UnlockQueue(h) == qmu' = [qmu EXCEPT ![ptr[h]] = M!Unlock(@)]

UnlockBroker(h) ==
  bmu' = IF h \in bmu.readers THEN M!RUnlock(bmu, h) ELSE M!Unlock(bmu)

-----------------------------------------------------------------------------
(* Under b.mu: the lookup of every operation.                              *)

\* ErrNotExist of DeleteQueue, DrainQueue and getQueue.
NotExist(h) ==
  /\ pc[h] \in {"deleting"} \cup DOMAIN AfterFind /\ OwnsBroker(h)
  /\ ~Exists(h)
  /\ UnlockBroker(h)
  /\ Answer(h, 400)
  /\ UNCHANGED <<queues, heap, qmu, drawn, locals, history>>

\* getQueue gives b.mu back, and the queue can be deleted under its finder;
\* DrainQueue keeps b.mu.
Find(h) ==
  /\ pc[h] \in DOMAIN AfterFind /\ OwnsBroker(h)
  /\ Exists(h)
  /\ ptr' = [ptr EXCEPT ![h] = queues[arg[h]]]
  /\ IF pc[h] = "draining" THEN UNCHANGED bmu ELSE UnlockBroker(h)
  /\ Goto(h, AfterFind[pc[h]])
  /\ UNCHANGED <<queues, heap, qmu, drawn, locals, history>>

DeleteQueue(h) ==
  /\ pc[h] = "deleting" /\ OwnsBroker(h)
  /\ Exists(h)
  /\ queues' = [queues EXCEPT ![arg[h]] = Nil]
  /\ UnlockBroker(h)
  /\ Answer(h, 200)
  /\ UNCHANGED <<heap, qmu, drawn, locals, history>>

CreateExists(h) ==
  /\ pc[h] = "creating" /\ OwnsBroker(h)
  /\ Exists(h)
  /\ UnlockBroker(h)
  /\ Answer(h, 400)
  /\ UNCHANGED <<queues, heap, qmu, drawn, locals, history>>

CreateAbsent(h) ==
  /\ pc[h] = "creating" /\ OwnsBroker(h)
  /\ ~Exists(h)
  /\ Goto(h, "inserting")
  /\ UNCHANGED <<queues, heap, bmu, qmu, drawn, ptr, locals, history>>

\* newQueue allocates an object nothing refers to.
CreateQueue(h, q) ==
  /\ pc[h] = "inserting"
  /\ q \in Unreachable
  /\ heap' = [heap EXCEPT ![q] = newQueue]
  /\ queues' = [queues EXCEPT ![arg[h]] = q]
  /\ arrived' = [arrived EXCEPT ![q] = <<>>]
  /\ taken' = [taken EXCEPT ![q] = <<>>]
  /\ UnlockBroker(h)
  /\ Answer(h, 200)
  /\ UNCHANGED <<qmu, drawn, locals>>

-----------------------------------------------------------------------------
(* Under q.mu: the assignments of DrainQueue, PutMessage and GetMessage.   *)

DrainClear(h) ==
  /\ pc[h] = "drain_clear" /\ OwnsQueue(h)
  /\ heap' = [heap EXCEPT ![ptr[h]] = Cleared(@)]
  /\ Goto(h, "drain_count")
  /\ UNCHANGED <<queues, bmu, qmu, drawn, ptr, locals, history>>

DrainCount(h) ==
  /\ pc[h] = "drain_count"
  /\ heap' = [heap EXCEPT ![ptr[h]].depth = 0]
  /\ UnlockQueue(h) /\ UnlockBroker(h)
  /\ Answer(h, 200)
  /\ UNCHANGED <<queues, drawn, locals, history>>

\* Under no lock; uuid fails when rand.Read does.
NewMessage(h, m) ==
  /\ pc[h] = "put_new"
  /\ m \notin drawn
  /\ drawn' = drawn \cup {m}
  /\ msg' = [msg EXCEPT ![h] = m]
  /\ Goto(h, "put_lock")
  /\ UNCHANGED <<queues, heap, bmu, qmu, ptr, arg, todo, rows, history>>

NewMessageFails(h) ==
  /\ pc[h] = "put_new"
  /\ Answer(h, 400)
  /\ UNCHANGED <<queues, heap, bmu, qmu, drawn, locals, history>>

PutAppend(h) ==
  /\ pc[h] = "put_append" /\ OwnsQueue(h)
  /\ heap' = [heap EXCEPT ![ptr[h]] = Appended(@, msg[h])]
  /\ arrived' = [arrived EXCEPT ![ptr[h]] = Append(@, msg[h])]
  /\ Goto(h, "put_count")
  /\ UNCHANGED <<queues, bmu, qmu, drawn, ptr, locals, taken>>

PutCount(h) ==
  /\ pc[h] = "put_count"
  /\ heap' = [heap EXCEPT ![ptr[h]].enqueued = @ + 1]
  /\ UnlockQueue(h)
  /\ Answer(h, 200)
  /\ UNCHANGED <<queues, bmu, drawn, locals, history>>

\* ErrEmptyQueue: 204.
GetEmpty(h) ==
  /\ pc[h] = "get_head" /\ OwnsQueue(h)
  /\ heap[ptr[h]].messages = <<>>
  /\ UnlockQueue(h)
  /\ Answer(h, 204)
  /\ UNCHANGED <<queues, heap, bmu, drawn, locals, history>>

GetHead(h) ==
  /\ pc[h] = "get_head" /\ OwnsQueue(h)
  /\ heap[ptr[h]].messages # <<>>
  /\ msg' = [msg EXCEPT ![h] = Head(heap[ptr[h]].messages)]
  /\ Goto(h, "get_pop")
  /\ UNCHANGED <<queues, heap, bmu, qmu, drawn, ptr, arg, todo, rows, history>>

GetPop(h) ==
  /\ pc[h] = "get_pop"
  /\ heap' = [heap EXCEPT ![ptr[h]] = Popped(@)]
  /\ taken' = [taken EXCEPT ![ptr[h]] = Append(@, msg[h])]
  /\ Goto(h, "get_count")
  /\ UNCHANGED <<queues, bmu, qmu, drawn, ptr, locals, arrived>>

GetCount(h) ==
  /\ pc[h] = "get_count"
  /\ heap' = [heap EXCEPT ![ptr[h]].dequeued = @ + 1]
  /\ UnlockQueue(h)
  /\ Answer(h, 200)
  /\ UNCHANGED <<queues, bmu, drawn, locals, history>>

-----------------------------------------------------------------------------
(* Stats keeps the read lock of b.mu and takes that of each queue in turn, *)
(* in the arbitrary order of a Go map range.                               *)

StatsNext(h, n) ==
  /\ pc[h] = "stats_next"
  /\ n \in todo[h]
  /\ M!NoWriter(qmu[queues[n]])
  /\ qmu' = [qmu EXCEPT ![queues[n]] = M!RLock(@, h)]
  /\ arg' = [arg EXCEPT ![h] = n]
  /\ ptr' = [ptr EXCEPT ![h] = queues[n]]
  /\ todo' = [todo EXCEPT ![h] = @ \ {n}]
  /\ Goto(h, "stats_row")
  /\ UNCHANGED <<queues, heap, bmu, drawn, msg, rows, history>>

StatsRow(h) ==
  /\ pc[h] = "stats_row"
  /\ LET q == heap[ptr[h]]
         stat == [name |-> arg[h], depth |-> q.depth, enqueued |-> q.enqueued,
                  dequeued |-> q.dequeued, drained |-> q.drained]
     IN  rows' = [rows EXCEPT ![h] = @ \cup {stat}]
  /\ qmu' = [qmu EXCEPT ![ptr[h]] = M!RUnlock(@, h)]
  /\ ptr' = [ptr EXCEPT ![h] = Nil]
  /\ Goto(h, "stats_next")
  /\ UNCHANGED <<queues, heap, bmu, drawn, arg, msg, todo, history>>

StatsDone(h) ==
  /\ pc[h] = "stats_next"
  /\ todo[h] = {}
  /\ UnlockBroker(h)
  /\ Answer(h, 200)
  /\ UNCHANGED <<queues, heap, qmu, drawn, locals, history>>

-----------------------------------------------------------------------------
Arrive(h) ==
  \/ \E op \in Requests, n \in Names : Request(h, op, n)
  \/ \E code \in {400, 500} : Refuse(h, code)

Acquire(h) ==
  \/ LockBroker(h) \/ RLockBroker(h) \/ LockQueue(h)
  \/ \E n \in Names : StatsNext(h, n)

Step(h) ==
  \/ NotExist(h) \/ Find(h)
  \/ CreateExists(h) \/ CreateAbsent(h) \/ \E q \in Queues : CreateQueue(h, q)
  \/ DeleteQueue(h)
  \/ DrainClear(h) \/ DrainCount(h)
  \/ (\E m \in Messages : NewMessage(h, m)) \/ NewMessageFails(h)
  \/ PutAppend(h) \/ PutCount(h)
  \/ GetEmpty(h) \/ GetHead(h) \/ GetPop(h) \/ GetCount(h)
  \/ StatsRow(h) \/ StatsDone(h)
  \/ Respond(h)

Next == \E h \in Handlers : Arrive(h) \/ Acquire(h) \/ Step(h)

Spec == Init /\ [][Next]_vars

\* A running goroutine is scheduled again, and a waiter of a Go mutex is not
\* passed over for ever: sync.Mutex turns to FIFO hand-off after 1 ms, and an
\* unlocking writer lets in the readers that waited for it.
FairSpec ==
  Spec /\ \A h \in Handlers : WF_vars(Step(h)) /\ SF_vars(Acquire(h))
=============================================================================
