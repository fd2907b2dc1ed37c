------------------------------- MODULE KeyGen -------------------------------
(***************************************************************************)
(* The synthetic workload of kuard (pkg/keygen), with its MemQ client, in  *)
(* the processes that run it: the one whose form is submitted, or the Pods *)
(* of a Job that empty a queue.  A worker is a goroutine; a configuration  *)
(* is written without the mutex, so one may see halves of two.  The broker *)
(* is the queue as AtomicBroker has it: a request at once.                 *)
(* What workers log is left out (KuardPages has it).                       *)
(***************************************************************************)
EXTENDS Integers, Sequences, FiniteSets

CONSTANTS
  Pods,       \* the processes
  Handlers,   \* requests that PUT a configuration, each once
  Configs,    \* what they may put: [enable, num, time, memq, exit]
  FormStart,  \* the configuration of the flags of the process with the form,
  JobStart,   \* and of the Pods of the Job
  Items,      \* how many work items the producer enqueues
  MaxFaults,  \* bound on crashes and lost requests
  Stories,    \* which of "form", "job" and "early" are told
  None

\* time: whether TimeToRun is set.  memq: whether a queue to draw from is.
Config == [enable : BOOLEAN, num : Nat, time : BOOLEAN, memq : BOOLEAN, exit : BOOLEAN]
\* What a handler is at.
Puts == [pod : Pods, c : Config, at : {"first", "second", "restart", "gone"}]

ASSUME ConfigAssumption ==
  /\ Configs \cup {FormStart, JobStart} \subseteq Config
  /\ Items \in Nat /\ MaxFaults \in Nat
  /\ None \notin Puts \cup (1 .. Items) \cup Seq(1 .. Items)
  /\ Stories \subseteq {"form", "job", "early"}

\* The Pods of the Job are given the server and its queue to draw from
\* (job-consumers.yaml).
ASSUME JobAssumption == JobStart.memq

VARIABLES
  story,    \* "form"; "job", with its queue loaded before; "early", with not
  phase,    \* each process: "running", "down" or "exited"
  config,   \* KeyGen.config of each process
  cancel,   \* KeyGen.cancelFunc: the worker whose context it cancels, or 0
  put,      \* each handler: None or what it writes and where it is
  workers,  \* the goroutines started so far
  queue,    \* the items in the queue, or None before it is created
  produced, \* how many items were enqueued
  done,     \* how often each item was done
  faults    \* crashes and lost requests so far

kgVars == <<phase, config, cancel, put>>
queueVars == <<queue, produced>>
vars == <<story, kgVars, workers, queueVars, done, faults>>

Ids == DOMAIN workers
Worker(p, c) ==
  [pod |-> p, c |-> c, state |-> "check", item |-> None, generated |-> 0,
   expired |-> FALSE, cancelled |-> FALSE, late |-> 0]

Active(w) == workers[w].state # "finished"
In(w, state) == workers[w].state = state /\ phase[workers[w].pod] = "running"
Flags == IF story = "form" THEN FormStart ELSE JobStart

-----------------------------------------------------------------------------
\* Restart, with the configuration as it is: cancels the worker that runs and
\* starts another.  The mutant leaves it to itself.
LeaveRunning(p) == workers
Cancelled(p) ==
  [w \in Ids |-> IF w = cancel[p] THEN [workers[w] EXCEPT !.cancelled = TRUE]
                 ELSE workers[w]]

Restart(p, c) ==
  IF c.enable
  THEN /\ workers' = Append(Cancelled(p), Worker(p, c))
       /\ cancel' = [cancel EXCEPT ![p] = Len(workers) + 1]
  ELSE /\ workers' = Cancelled(p)
       /\ cancel' = [cancel EXCEPT ![p] = 0]

Init ==
  /\ story \in Stories
  /\ phase = [p \in Pods |-> "down"]
  /\ config = [p \in Pods |-> Flags]
  /\ cancel = [p \in Pods |-> 0]
  /\ put = [h \in Handlers |-> None]
  /\ workers = <<>>
  /\ produced = IF story = "job" THEN Items ELSE 0
  /\ queue = IF story = "job" THEN [k \in 1 .. Items |-> k] ELSE None
  /\ done = [k \in 1 .. Items |-> 0]
  /\ faults = 0

\* A container starts: the flags are loaded.
Start(p) ==
  /\ phase[p] = "down"
  /\ phase' = [phase EXCEPT ![p] = "running"]
  /\ config' = [config EXCEPT ![p] = Flags]
  /\ Restart(p, Flags)
  /\ UNCHANGED <<story, put, queueVars, done, faults>>

\* A process ends: its goroutines are gone, but what they have asked of the
\* broker is still on its way.
Ended(p, end) ==
  /\ phase' = [phase EXCEPT ![p] = end]
  /\ cancel' = [cancel EXCEPT ![p] = 0]
  /\ put' = [h \in Handlers |-> IF put[h] # None /\ put[h].pod = p
                                THEN [put[h] EXCEPT !.at = "gone"] ELSE put[h]]
  /\ workers' = [w \in Ids |->
       IF workers[w].pod # p THEN workers[w]
       ELSE [workers[w] EXCEPT !.item = None,
               !.state = IF @ \in {"asked", "orphan"} THEN "orphan" ELSE "finished"]]
  /\ UNCHANGED <<story, config, queueVars, done>>

\* os.Exit.  The Deployment starts the process with the form again; a Pod of
\* the Job is complete.
Exit(p) ==
  /\ Ended(p, IF story = "form" THEN "down" ELSE "exited")
  /\ UNCHANGED faults

Crash(p) ==
  /\ phase[p] = "running" /\ faults < MaxFaults
  /\ faults' = faults + 1
  /\ Ended(p, "down")

-----------------------------------------------------------------------------
\* APIPut.  LoadConfig writes the configuration field by field, here in two
\* halves, and then calls Restart.
Put(h) ==
  /\ story = "form" /\ put[h] = None
  /\ \E p \in Pods, c \in Configs :
       /\ phase[p] = "running"
       /\ put' = [put EXCEPT ![h] = [pod |-> p, c |-> c, at |-> "first"]]
  /\ UNCHANGED <<story, phase, config, cancel, workers, queueVars, done, faults>>

At(h, at) == put[h] # None /\ put[h].at = at

LoadConfig(h) ==
  /\ At(h, "first") \/ At(h, "second")
  /\ LET p == put[h].pod
         c == put[h].c
     IN IF At(h, "first")
        THEN /\ config' = [config EXCEPT ![p] =
                             [@ EXCEPT !.enable = c.enable, !.num = c.num, !.time = c.time]]
             /\ put' = [put EXCEPT ![h].at = "second"]
        ELSE /\ config' = [config EXCEPT ![p] =
                             [@ EXCEPT !.memq = c.memq, !.exit = c.exit]]
             /\ put' = [put EXCEPT ![h].at = "restart"]
  /\ UNCHANGED <<story, phase, cancel, workers, queueVars, done, faults>>

\* The mutant starts the worker with what this handler has decoded.
Decoded(h) == put[h].c
Stored(h) == config[put[h].pod]

RestartWorker(h) ==
  /\ At(h, "restart")
  /\ Restart(put[h].pod, Stored(h))
  /\ put' = [put EXCEPT ![h].at = "gone"]
  /\ UNCHANGED <<story, phase, config, queueVars, done, faults>>

-----------------------------------------------------------------------------
\* The workers.  done(false), or an empty queue, ends the process if the
\* configuration of the worker says so.
Becomes(w, state) ==
  /\ workers' = [workers EXCEPT ![w].state = state]
  /\ UNCHANGED <<phase, cancel, put, config>>

Complete(w) ==
  IF workers[w].c.exit THEN Exit(workers[w].pod)
  ELSE Becomes(w, "finished") /\ UNCHANGED <<story, queueVars, done, faults>>

\* time.After.
Expire(w) ==
  /\ Active(w) /\ workers[w].c.time /\ ~workers[w].c.memq
  /\ ~workers[w].expired /\ phase[workers[w].pod] = "running"
  /\ workers' = [workers EXCEPT ![w].expired = TRUE]
  /\ UNCHANGED <<story, kgVars, queueVars, done, faults>>

Generated(w) == workers[w].c.num > 0 /\ workers[w].generated >= workers[w].c.num

\* isDone of a workload.  When its context is cancelled and its time is over,
\* select takes either.  The mutant does not look at the context.
Unheard(w) == FALSE
CtxDone(w) == workers[w].cancelled

workloadIsDone(w) ==
  /\ In(w, "check") /\ ~workers[w].c.memq
  /\ \/ CtxDone(w) /\ Becomes(w, "finished") /\ UNCHANGED <<story, queueVars, done, faults>>
     \/ workers[w].expired /\ Complete(w)
     \/ ~CtxDone(w) /\ ~workers[w].expired /\ Generated(w) /\ Complete(w)
     \/ /\ ~CtxDone(w) /\ ~workers[w].expired /\ ~Generated(w)
        /\ Becomes(w, "generate") /\ UNCHANGED <<story, queueVars, done, faults>>

\* itemDone.  Keys are counted if there is a limit.
itemDone(w) ==
  [workers[w] EXCEPT !.state = "check", !.item = None,
     !.generated = IF workers[w].generated < workers[w].c.num THEN @ + 1 ELSE @,
     !.late = IF workers[w].cancelled THEN @ + 1 ELSE @]

generateKey(w) ==
  /\ In(w, "generate")
  /\ workers' = [workers EXCEPT ![w] = itemDone(w)]
  /\ done' = IF workers[w].item = None THEN done
             ELSE [done EXCEPT ![workers[w].item] = @ + 1]
  /\ UNCHANGED <<story, kgVars, queueVars, faults>>

\* isDone of a worker of a queue, and the request for an item.
memQWorkerIsDone(w) ==
  /\ In(w, "check") /\ workers[w].c.memq
  /\ Becomes(w, IF CtxDone(w) THEN "finished" ELSE "asked")
  /\ UNCHANGED <<story, queueVars, done, faults>>

\* The broker takes the head of the queue before it answers.  The mutant
\* leaves it until somebody tells that it is done.
Peek == queue
Pop == Tail(queue)

Dequeue(w) ==
  /\ workers[w].state \in {"asked", "orphan"}
  /\ LET orphan == workers[w].state = "orphan"
     IN  IF queue \in {None, <<>>}
         THEN /\ workers' = [workers EXCEPT ![w].state =
                   IF orphan THEN "finished" ELSE IF queue = None THEN "error" ELSE "empty"]
              /\ UNCHANGED queue
         ELSE /\ workers' = [workers EXCEPT
                   ![w].state = IF orphan THEN "finished" ELSE "answered",
                   ![w].item = IF orphan THEN None ELSE Head(queue)]
              /\ queue' = Pop
  /\ UNCHANGED <<story, kgVars, produced, done, faults>>

\* The request or its answer is lost.
Lose(w) ==
  /\ workers[w].state \in {"asked", "empty", "answered"} /\ faults < MaxFaults
  /\ phase[workers[w].pod] = "running"
  /\ workers' = [workers EXCEPT ![w].state = "error", ![w].item = None]
  /\ faults' = faults + 1
  /\ UNCHANGED <<story, kgVars, queueVars, done>>

\* The answer.  After an error or an empty queue, a second later, the worker
\* looks again; the mutants take an error for an empty queue, and give up.
NoItem(w) == In(w, "empty") \/ In(w, "error")
Empty(w) == In(w, "empty")

GiveUp(w) == IF workers[w].state = "error" THEN "finished" ELSE "check"
Again(w) == "check"

Receive(w) ==
  \/ In(w, "answered") /\ Becomes(w, "generate") /\ UNCHANGED <<story, queueVars, done, faults>>
  \/ Empty(w) /\ workers[w].c.exit /\ Exit(workers[w].pod)
  \/ /\ In(w, "error") \/ (In(w, "empty") /\ ~workers[w].c.exit)
     /\ Becomes(w, Again(w)) /\ UNCHANGED <<story, queueVars, done, faults>>

-----------------------------------------------------------------------------
\* load-queue.ps1.
CreateQueue ==
  /\ queue = None
  /\ queue' = <<>>
  /\ UNCHANGED <<story, kgVars, workers, produced, done, faults>>

Enqueue ==
  /\ queue # None /\ produced < Items
  /\ queue' = Append(queue, produced + 1)
  /\ produced' = produced + 1
  /\ UNCHANGED <<story, kgVars, workers, done, faults>>

Work(w) ==
  workloadIsDone(w) \/ generateKey(w) \/ memQWorkerIsDone(w) \/ Receive(w)

Next ==
  \/ \E p \in Pods : Start(p) \/ Crash(p)
  \/ \E h \in Handlers : Put(h) \/ LoadConfig(h) \/ RestartWorker(h)
  \/ \E w \in Ids : Work(w) \/ Expire(w) \/ Dequeue(w) \/ Lose(w)
  \/ CreateQueue \/ Enqueue

Spec == Init /\ [][Next]_vars

\* Containers are started, goroutines run, the broker answers, and the
\* producer creates its queue.
Fairness ==
  /\ \A p \in Pods : WF_vars(Start(p))
  /\ \A w \in 1 .. Cardinality(Pods) + MaxFaults :
       WF_vars(w \in Ids /\ Work(w)) /\ WF_vars(w \in Ids /\ Dequeue(w))
  /\ WF_vars(CreateQueue)

FairSpec == Spec /\ Fairness
=============================================================================
