---------------------------- MODULE AtomicBroker ----------------------------
(***************************************************************************)
(* What the broker promises to its clients, with no locks: every operation *)
(* takes effect at one instant between request and answer, on counters and *)
(* messages that always agree.  Only enqueue and dequeue have two instants, *)
(* the one at which they find the queue of that name and the one at which  *)
(* they use it; in between the name may have been deleted and created anew, *)
(* and they then work on the old queue ("There is no guarantee that the    *)
(* queue won't be thown away before it can be used", broker.go:110).       *)
(***************************************************************************)
EXTENDS Integers, Sequences

CONSTANTS Handlers, Names, Queues, Messages, Nil

VARIABLES queues,    \* name -> queue, Nil where absent
          store,     \* the contents and counters of each queue
          found,     \* the queue a handler has found and not used yet
          answer     \* the message a handler is about to answer with

vars == <<queues, store, found, answer>>

Empty == [enqueued |-> 0, dequeued |-> 0, drained |-> 0, messages |-> <<>>]

Init ==
  /\ queues = [n \in Names |-> Nil]
  /\ store = [q \in Queues |-> Empty]
  /\ found = [h \in Handlers |-> Nil]
  /\ answer = [h \in Handlers |-> Nil]

InUse == {queues[n] : n \in Names} \cup {found[h] : h \in Handlers}

Create(n, q) ==
  /\ queues[n] = Nil /\ q \notin InUse
  /\ queues' = [queues EXCEPT ![n] = q]
  /\ store' = [store EXCEPT ![q] = Empty]
  /\ UNCHANGED <<found, answer>>

Delete(n) ==
  /\ queues[n] # Nil
  /\ queues' = [queues EXCEPT ![n] = Nil]
  /\ UNCHANGED <<store, found, answer>>

\* Drained messages are counted, and the queue stays.
Drain(n) ==
  /\ queues[n] # Nil
  /\ store' = [store EXCEPT ![queues[n]].messages = <<>>,
                 ![queues[n]].drained = @ + Len(store[queues[n]].messages)]
  /\ UNCHANGED <<queues, found, answer>>

Find(h, n) ==
  /\ found[h] = Nil /\ queues[n] # Nil
  /\ found' = [found EXCEPT ![h] = queues[n]]
  /\ UNCHANGED <<queues, store, answer>>

\* The message could not be made, or the queue was empty.
GiveUp(h) ==
  /\ found' = [found EXCEPT ![h] = Nil]
  /\ UNCHANGED <<queues, store, answer>>

Enqueue(h, m) ==
  /\ found[h] # Nil
  /\ store' = [store EXCEPT ![found[h]].messages = Append(@, m),
                            ![found[h]].enqueued = @ + 1]
  /\ found' = [found EXCEPT ![h] = Nil]
  /\ answer' = [answer EXCEPT ![h] = m]
  /\ UNCHANGED queues

\* First in, first out, and each message to one client.
Dequeue(h) ==
  /\ found[h] # Nil /\ store[found[h]].messages # <<>>
  /\ store' = [store EXCEPT ![found[h]].messages = Tail(@),
                            ![found[h]].dequeued = @ + 1]
  /\ found' = [found EXCEPT ![h] = Nil]
  /\ answer' = [answer EXCEPT ![h] = Head(store[found[h]].messages)]
  /\ UNCHANGED queues

Respond(h) ==
  /\ answer' = [answer EXCEPT ![h] = Nil]
  /\ UNCHANGED <<queues, store, found>>

Next ==
  \/ \E n \in Names : Delete(n) \/ Drain(n) \/ \E q \in Queues : Create(n, q)
  \/ \E h \in Handlers :
       \/ \E n \in Names : Find(h, n)
       \/ \E m \in Messages : Enqueue(h, m)
       \/ Dequeue(h) \/ GiveUp(h) \/ Respond(h)

Spec == Init /\ [][Next]_vars
=============================================================================
