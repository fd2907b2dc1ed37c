---------------------------- MODULE KeyGenProofs ----------------------------
(***************************************************************************)
(* However many configurations are put at once, and whatever halves of     *)
(* them are mixed: one worker is live, it runs what is stored, and those   *)
(* before it stop after the key they are at; every item is in one place,   *)
(* and a finished workload leaves nothing it counted on behind.            *)
(***************************************************************************)
EXTENDS KeyGenProperties, SequenceTheorems, FiniteSetTheorems, TLAPS

States == {"check", "generate", "asked", "orphan", "answered", "empty", "error", "finished"}
Workers ==
  [pod : Pods, c : Config, state : States, item : (1 .. Items) \cup {None},
   generated : Nat, expired : BOOLEAN, cancelled : BOOLEAN, late : Nat]

Typed ==
  /\ story \in Stories
  /\ phase \in [Pods -> {"down", "running", "exited"}]
  /\ config \in [Pods -> Config]
  /\ cancel \in [Pods -> Nat]
  /\ put \in [Handlers -> Puts \cup {None}]
  /\ workers \in Seq(Workers)

\* What cancelFunc cancels is a worker of its process.
Holds ==
  \A p \in Pods : cancel[p] # 0 =>
    /\ cancel[p] \in Ids /\ workers[cancel[p]].pod = p
    /\ ~workers[cancel[p]].cancelled

Underway(p) ==
  \E h \in Handlers : put[h] # None /\ put[h].pod = p /\ put[h].at # "gone"

\* RunsTheConfig, for each process by itself.
RunsItsConfig ==
  \A p \in Pods : phase[p] = "running" /\ ~Underway(p) =>
    IF config[p].enable
    THEN cancel[p] # 0 /\ workers[cancel[p]].c = config[p]
    ELSE cancel[p] = 0

\* Once a cancelled worker has generated a key, it is at its end.
AtItsEnd ==
  \A w \in Ids :
    \/ workers[w].late = 0
    \/ /\ workers[w].late = 1 /\ workers[w].cancelled
       /\ workers[w].state \in {"check", "finished"}

Safe == Holds /\ OneLiveWorker /\ RunsItsConfig /\ AtItsEnd
IInv == Typed /\ Safe

\* What is in the queue was enqueued: what a worker draws is an item.
Queued ==
  /\ produced \in 0 .. Items
  /\ queue \in Seq(1 .. Items) \cup {None}

-----------------------------------------------------------------------------
\* None is no configuration being put, no item and no queue.
LEMMA NoneIsNone ==
  None \notin Puts /\ None \notin 1 .. Items /\ None \notin Seq(1 .. Items)
  BY ConfigAssumption

\* Workers are numbered from one.
LEMMA Numbered ==
  ASSUME Typed PROVE Ids = 1 .. Len(workers) /\ Len(workers) \in Nat
  BY DEF Typed, Ids

\* A worker in a sequence of workers.
LEMMA OneOf ==
  ASSUME Typed, NEW w \in Ids
  PROVE  workers[w] \in Workers /\ Ids = 1 .. Len(workers) /\ Len(workers) \in Nat /\ w \in Nat \ {0}
  BY DEF Typed, Ids

\* The flags of a container are a configuration.
LEMMA Flagged == ASSUME Typed PROVE Flags \in Config
  BY ConfigAssumption DEF Flags

\* The workers after Cancelled are those before, but for the one of cancel.
LEMMA CancelledWorkers ==
  ASSUME Typed, NEW p \in Pods
  PROVE  /\ Cancelled(p) \in Seq(Workers) /\ Len(Cancelled(p)) = Len(workers)
         /\ \A w \in Ids : w # cancel[p] => Cancelled(p)[w] = workers[w]
         /\ \A w \in Ids : w = cancel[p] => Cancelled(p)[w] = [workers[w] EXCEPT !.cancelled = TRUE]
<1>1. workers \in Seq(Workers) /\ Ids = 1 .. Len(workers) /\ Len(workers) \in Nat
  BY DEF Typed, Ids
<1>2. \A w \in Ids : [workers[w] EXCEPT !.cancelled = TRUE] \in Workers
  BY OneOf DEF Workers
<1>3. \A w \in Ids : Cancelled(p)[w] \in Workers
  BY <1>1, <1>2 DEF Cancelled
<1> QED
  BY <1>1, <1>3 DEF Cancelled

-----------------------------------------------------------------------------
\* Restart leaves one live worker, with the configuration it was called with,
\* and the workers of other processes as they are.
LEMMA RestartKeeps ==
  ASSUME IInv, NEW p \in Pods, NEW c \in Config, Restart(p, c)
  PROVE  /\ workers' \in Seq(Workers) /\ cancel' \in [Pods -> Nat]
         /\ Holds' /\ OneLiveWorker' /\ AtItsEnd'
         /\ IF c.enable THEN cancel'[p] # 0 /\ workers'[cancel'[p]].c = c
            ELSE cancel'[p] = 0
         /\ \A q \in Pods \ {p} :
              /\ cancel'[q] = cancel[q]
              /\ cancel[q] # 0 => workers'[cancel[q]] = workers[cancel[q]]
<1> DEFINE n == Len(workers)
           new == Worker(p, c)
<1>1. /\ Typed /\ Safe /\ n \in Nat /\ Ids = 1 .. n
      /\ cancel \in [Pods -> Nat] /\ None \in (1 .. Items) \cup {None}
  BY DEF IInv, Typed, Ids
<1>2. /\ new \in Workers /\ new.pod = p /\ new.c = c /\ new.late = 0
      /\ ~new.cancelled
  BY DEF Worker, Workers, States
<1>3. /\ workers' \in Seq(Workers)
      /\ \A w \in Ids : w \in Ids' /\ (w # cancel[p] => workers'[w] = workers[w])
      /\ \A w \in Ids : w = cancel[p] => workers'[w] = [workers[w] EXCEPT !.cancelled = TRUE]
      /\ c.enable => Ids' = 1 .. (n + 1) /\ workers'[n + 1] = new
      /\ ~c.enable => Ids' = Ids
  <2> HIDE DEF new
  <2>1. /\ Cancelled(p) \in Seq(Workers) /\ Len(Cancelled(p)) = n
        /\ \A w \in Ids : w # cancel[p] => Cancelled(p)[w] = workers[w]
        /\ \A w \in Ids : w = cancel[p] => Cancelled(p)[w] = [workers[w] EXCEPT !.cancelled = TRUE]
    BY <1>1, CancelledWorkers
  <2>2. CASE c.enable
    <3>1. workers' = Append(Cancelled(p), new)
      BY <2>2 DEF Restart, new
    <3>2. /\ workers' \in Seq(Workers) /\ Ids' = 1 .. (n + 1)
          /\ workers'[n + 1] = new
          /\ \A w \in 1 .. n : workers'[w] = Cancelled(p)[w]
      BY <1>1, <1>2, <2>1, <3>1 DEF Ids
    <3> QED
      BY <1>1, <2>1, <2>2, <3>2
  <2>3. CASE ~c.enable
    <3>1. workers' = Cancelled(p)
      BY <2>3 DEF Restart
    <3>2. Ids' = Ids
      BY <1>1, <2>1, <3>1 DEF Ids
    <3> QED
      BY <2>1, <2>3, <3>1, <3>2
  <2> QED
    BY <2>2, <2>3
<1>4. /\ cancel' \in [Pods -> Nat]
      /\ cancel'[p] = IF c.enable THEN n + 1 ELSE 0
      /\ \A q \in Pods \ {p} : cancel'[q] = cancel[q]
  BY <1>1 DEF Restart
<1> HIDE DEF new, n
<1>5. ASSUME NEW w \in Ids, w = cancel[p]
      PROVE  /\ workers'[w].cancelled /\ workers'[w].late = workers[w].late
             /\ workers'[w].state = workers[w].state
  BY <1>1, <1>3, <1>5, OneOf DEF Workers
<1>6. ASSUME NEW q \in Pods \ {p}, cancel[q] # 0
      PROVE  cancel[q] # cancel[p] /\ cancel[q] \in Ids
  BY <1>1, <1>6 DEF Safe, Holds
<1>7. \A q \in Pods \ {p} : cancel[q] # 0 => workers'[cancel[q]] = workers[cancel[q]]
  BY <1>3, <1>6
<1>8. Holds'
  <2> SUFFICES ASSUME NEW q \in Pods, cancel'[q] # 0
               PROVE  /\ cancel'[q] \in Ids' /\ workers'[cancel'[q]].pod = q
                      /\ ~workers'[cancel'[q]].cancelled
    BY DEF Holds
  <2>1. CASE q = p
    BY <1>1, <1>2, <1>3, <1>4, <2>1
  <2>2. CASE q # p
    BY <1>1, <1>3, <1>4, <1>6, <1>7, <2>2 DEF Safe, Holds
  <2> QED
    BY <2>1, <2>2
<1>9. OneLiveWorker'
  <2> SUFFICES ASSUME NEW w \in Ids', workers'[w].state # "finished",
                      ~workers'[w].cancelled, workers'[w].state # "orphan"
               PROVE  cancel'[workers'[w].pod] = w
    BY DEF OneLiveWorker, Active
  <2>1. CASE w \in Ids
    <3>1. w # cancel[p] /\ workers'[w] = workers[w]
      BY <1>3, <1>5, <2>1
    <3>2. workers[w].pod \in Pods /\ cancel[workers[w].pod] = w
      BY <1>1, <2>1, <3>1, OneOf DEF Safe, OneLiveWorker, Active, Workers
    <3> QED
      BY <1>4, <3>1, <3>2
  <2>2. CASE w \notin Ids
    <3>1. c.enable /\ w = n + 1
      BY <1>1, <1>3, <2>2
    <3> QED
      BY <1>2, <1>3, <1>4, <3>1
  <2> QED
    BY <2>1, <2>2
<1>10. AtItsEnd'
  <2> SUFFICES ASSUME NEW w \in Ids'
               PROVE  \/ workers'[w].late = 0
                      \/ /\ workers'[w].late = 1 /\ workers'[w].cancelled
                         /\ workers'[w].state \in {"check", "finished"}
    BY DEF AtItsEnd
  <2>1. CASE w \in Ids
    <3>1. CASE w = cancel[p]
      BY <1>1, <1>5, <2>1, <3>1 DEF Safe, AtItsEnd
    <3>2. CASE w # cancel[p]
      BY <1>1, <1>3, <2>1, <3>2 DEF Safe, AtItsEnd
    <3> QED
      BY <3>1, <3>2
  <2>2. CASE w \notin Ids
    BY <1>1, <1>2, <1>3, <2>2
  <2> QED
    BY <2>1, <2>2
<1>11. IF c.enable THEN cancel'[p] # 0 /\ workers'[cancel'[p]].c = c ELSE cancel'[p] = 0
  BY <1>1, <1>2, <1>3, <1>4
<1> QED
  BY <1>3, <1>4, <1>7, <1>8, <1>9, <1>10, <1>11

\* A step of a worker keeps the invariant if it leaves what the worker is and
\* does not bring it back.
LEMMA WorkerKeeps ==
  ASSUME IInv, NEW w \in Ids, NEW x \in Workers,
         workers' = [workers EXCEPT ![w] = x],
         x.pod = workers[w].pod, x.c = workers[w].c, x.cancelled = workers[w].cancelled,
         workers[w].state # "finished", workers[w].state = "orphan" => x.state \in {"orphan", "finished"},
         \/ x.late = 0
         \/ x.late = 1 /\ x.cancelled /\ x.state \in {"check", "finished"},
         UNCHANGED <<story, kgVars>>
  PROVE  IInv'
<1>1. /\ workers' \in Seq(Workers) /\ Ids' = Ids
      /\ workers'[w] = x /\ \A v \in Ids : v # w => workers'[v] = workers[v]
  BY OneOf DEF IInv, Typed, Ids
<1>2. Typed'
  BY <1>1 DEF IInv, Typed, kgVars
<1>3. \A v \in Ids : /\ workers'[v].pod = workers[v].pod
                     /\ workers'[v].c = workers[v].c
                     /\ workers'[v].cancelled = workers[v].cancelled
  BY <1>1
<1>4. UNCHANGED <<phase, config, cancel, put>>
  BY DEF kgVars
<1>5. Holds'
  BY <1>1, <1>3, <1>4 DEF IInv, Safe, Holds
<1>6. OneLiveWorker'
  BY <1>1, <1>3, <1>4 DEF IInv, Safe, OneLiveWorker, Active
<1>7. RunsItsConfig'
  BY <1>1, <1>3, <1>4 DEF IInv, Safe, RunsItsConfig, Underway, Holds
<1>8. AtItsEnd'
  BY <1>1 DEF IInv, Safe, AtItsEnd
<1> QED
  BY <1>2, <1>5, <1>6, <1>7, <1>8 DEF IInv, Safe

\* The end of a process takes its workers with it, but what one has asked of
\* the broker stays under way.
LEMMA EndedWorkers ==
  ASSUME IInv, NEW p \in Pods, NEW end \in {"down", "exited"}, Ended(p, end)
  PROVE  /\ Ids' = Ids /\ workers' \in Seq(Workers)
         /\ \A w \in Ids : workers[w].pod # p => workers'[w] = workers[w]
         /\ \A w \in Ids : workers[w].pod = p =>
              /\ workers'[w].pod = p /\ workers'[w].late = workers[w].late
              /\ workers'[w].c = workers[w].c
              /\ workers'[w].cancelled = workers[w].cancelled
              /\ workers'[w].item = None
              /\ workers'[w].state = IF workers[w].state \in {"asked", "orphan"}
                                     THEN "orphan" ELSE "finished"
<1> USE DEF Ended
<1>1. ASSUME NEW w \in Ids
      PROVE  /\ workers'[w] \in Workers
             /\ workers[w].pod # p => workers'[w] = workers[w]
             /\ workers[w].pod = p =>
                  /\ workers'[w].pod = p /\ workers'[w].late = workers[w].late
                  /\ workers'[w].c = workers[w].c
                  /\ workers'[w].cancelled = workers[w].cancelled
                  /\ workers'[w].item = None
                  /\ workers'[w].state = IF workers[w].state \in {"asked", "orphan"}
                                         THEN "orphan" ELSE "finished"
  BY OneOf DEF IInv, Workers, States
<1>2. Ids = 1 .. Len(workers) /\ Len(workers) \in Nat
  <2> HIDE DEF Ended
  <2> QED
    BY Numbered DEF IInv
<1>3. workers' = [w \in Ids |-> workers'[w]]
  OBVIOUS
<1>4. workers' \in Seq(Workers) /\ DOMAIN workers' = Ids
  <2> HIDE DEF Ended
  <2> QED
    BY <1>1, <1>2, <1>3
<1> QED
  BY <1>1, <1>4 DEF Ids

\* The end of a process takes its workers and its handlers with it.
LEMMA EndedKeeps ==
  ASSUME IInv, NEW p \in Pods, NEW end \in {"down", "exited"}, Ended(p, end)
  PROVE  IInv'
<1> USE DEF Ended
<1>1. /\ Ids' = Ids /\ workers' \in Seq(Workers)
      /\ \A w \in Ids : workers[w].pod # p => workers'[w] = workers[w]
      /\ \A w \in Ids : workers[w].pod = p =>
           /\ workers'[w].pod = p /\ workers'[w].late = workers[w].late
           /\ workers'[w].cancelled = workers[w].cancelled
           /\ workers'[w].state = IF workers[w].state \in {"asked", "orphan"}
                                  THEN "orphan" ELSE "finished"
  <2> HIDE DEF Ended
  <2> QED
    BY EndedWorkers
<1>2. /\ cancel' \in [Pods -> Nat] /\ phase'[p] # "running" /\ cancel'[p] = 0
      /\ \A q \in Pods \ {p} : cancel'[q] = cancel[q] /\ phase'[q] = phase[q]
  BY DEF IInv, Typed
<1>3. Typed'
  <2>1. phase' \in [Pods -> {"down", "running", "exited"}]
    BY DEF IInv, Typed
  <2>2. put' \in [Handlers -> Puts \cup {None}]
    BY DEF IInv, Typed, Puts
  <2> QED
    BY <1>1, <1>2, <2>1, <2>2 DEF IInv, Typed
<1>4. Holds'
  BY <1>1, <1>2 DEF IInv, Safe, Holds
<1>5. OneLiveWorker'
  <2> SUFFICES ASSUME NEW w \in Ids, workers'[w].state # "finished",
                      ~workers'[w].cancelled, workers'[w].state # "orphan"
               PROVE  cancel'[workers'[w].pod] = w
    BY <1>1 DEF OneLiveWorker, Active
  <2>1. workers[w].pod \in Pods \ {p} /\ workers'[w] = workers[w]
    BY <1>1, OneOf DEF IInv, Workers
  <2> QED
    BY <1>2, <2>1 DEF IInv, Safe, OneLiveWorker, Active
<1>6. RunsItsConfig'
  <2> SUFFICES ASSUME NEW q \in Pods \ {p}, phase'[q] = "running", ~Underway(q)'
               PROVE  IF config[q].enable
                      THEN cancel'[q] # 0 /\ workers'[cancel'[q]].c = config[q]
                      ELSE cancel'[q] = 0
    BY <1>2 DEF RunsItsConfig
  <2>1. ~Underway(q)
    BY DEF Underway, IInv, Typed, Puts
  <2>2. cancel[q] # 0 => workers'[cancel[q]] = workers[cancel[q]]
    BY <1>1 DEF IInv, Safe, Holds
  <2>3. /\ cancel'[q] = cancel[q] /\ phase[q] = "running"
    BY <1>2
  <2>4. IF config[q].enable
        THEN cancel[q] # 0 /\ workers[cancel[q]].c = config[q]
        ELSE cancel[q] = 0
    BY <2>1, <2>3 DEF IInv, Safe, RunsItsConfig
  <2> HIDE DEF Ended
  <2> QED
    BY <2>2, <2>3, <2>4
<1>7. AtItsEnd'
  <2> SUFFICES ASSUME NEW w \in Ids
               PROVE  \/ workers'[w].late = 0
                      \/ /\ workers'[w].late = 1 /\ workers'[w].cancelled
                         /\ workers'[w].state \in {"check", "finished"}
    BY <1>1 DEF AtItsEnd
  <2>1. \/ workers[w].late = 0
        \/ /\ workers[w].late = 1 /\ workers[w].cancelled
           /\ workers[w].state \in {"check", "finished"}
    BY DEF IInv, Safe, AtItsEnd
  <2> QED
    BY <1>1, <2>1
<1> QED
  BY <1>3, <1>4, <1>5, <1>6, <1>7 DEF IInv, Safe

\* A step that restarts the worker of a process, with what is then stored.
LEMMA RestartedKeeps ==
  ASSUME IInv, NEW p \in Pods, NEW c \in Config, Restart(p, c), story' = story,
         phase' \in [Pods -> {"down", "running", "exited"}],
         config' \in [Pods -> Config], put' \in [Handlers -> Puts \cup {None}],
         config'[p] = c,
         \A q \in Pods \ {p} : /\ phase'[q] = phase[q] /\ config'[q] = config[q]
                               /\ Underway(q) => Underway(q)'
  PROVE  IInv'
<1>1. /\ workers' \in Seq(Workers) /\ cancel' \in [Pods -> Nat]
      /\ Holds' /\ OneLiveWorker' /\ AtItsEnd'
      /\ IF c.enable THEN cancel'[p] # 0 /\ workers'[cancel'[p]].c = c
         ELSE cancel'[p] = 0
      /\ \A q \in Pods \ {p} :
           /\ cancel'[q] = cancel[q]
           /\ cancel[q] # 0 => workers'[cancel[q]] = workers[cancel[q]]
  BY RestartKeeps
<1>2. Typed'
  BY <1>1 DEF IInv, Typed
<1>3. RunsItsConfig'
  <2> SUFFICES ASSUME NEW q \in Pods, phase'[q] = "running", ~Underway(q)'
               PROVE  IF config'[q].enable
                      THEN cancel'[q] # 0 /\ workers'[cancel'[q]].c = config'[q]
                      ELSE cancel'[q] = 0
    BY DEF RunsItsConfig
  <2>1. CASE q = p
    BY <1>1, <2>1
  <2>2. CASE q # p
    <3>1. phase[q] = "running" /\ ~Underway(q) /\ config'[q] = config[q]
      BY <2>2
    <3>2. IF config[q].enable THEN cancel[q] # 0 /\ workers[cancel[q]].c = config[q]
          ELSE cancel[q] = 0
      BY <3>1 DEF IInv, Safe, RunsItsConfig
    <3> QED
      BY <1>1, <2>2, <3>1, <3>2
  <2> QED
    BY <2>1, <2>2
<1> QED
  BY <1>1, <1>2, <1>3 DEF IInv, Safe

\* A step of a handler before it restarts the worker.
LEMMA HandlerKeeps ==
  ASSUME IInv, UNCHANGED <<story, phase, cancel, workers>>,
         config' \in [Pods -> Config], put' \in [Handlers -> Puts \cup {None}],
         \A q \in Pods : ~Underway(q)' => ~Underway(q) /\ config'[q] = config[q]
  PROVE  IInv'
<1>1. Typed'
  BY DEF IInv, Typed
<1>2. Holds' /\ OneLiveWorker' /\ AtItsEnd'
  BY DEF IInv, Safe, Holds, OneLiveWorker, AtItsEnd, Active, Ids
<1>3. RunsItsConfig'
  BY DEF IInv, Safe, RunsItsConfig
<1> QED
  BY <1>1, <1>2, <1>3 DEF IInv, Safe

-----------------------------------------------------------------------------
\* A container starts with the flags.
LEMMA StartKeeps == ASSUME IInv, NEW p \in Pods, Start(p) PROVE IInv'
<1>1. /\ Flags \in Config /\ Restart(p, Flags) /\ story' = story /\ put' = put
      /\ phase' = [phase EXCEPT ![p] = "running"]
      /\ config' = [config EXCEPT ![p] = Flags]
  BY Flagged DEF IInv, Start
<1>2. /\ phase' \in [Pods -> {"down", "running", "exited"}]
      /\ config' \in [Pods -> Config] /\ put' \in [Handlers -> Puts \cup {None}]
      /\ config'[p] = Flags
      /\ \A q \in Pods \ {p} : phase'[q] = phase[q] /\ config'[q] = config[q]
  BY <1>1 DEF IInv, Typed
<1>3. \A q \in Pods : Underway(q) => Underway(q)'
  BY <1>1 DEF Underway
<1> QED
  BY <1>1, <1>2, <1>3, RestartedKeeps

\* A handler begins.
LEMMA PutKeeps == ASSUME IInv, NEW h \in Handlers, Put(h) PROVE IInv'
<1>1. PICK p \in Pods, c \in Configs :
        put' = [put EXCEPT ![h] = [pod |-> p, c |-> c, at |-> "first"]]
  BY DEF Put
<1>2. put' \in [Handlers -> Puts \cup {None}] /\ put[h] = None
  BY <1>1, ConfigAssumption DEF Put, IInv, Typed, Puts
<1>3. \A q \in Pods : Underway(q) => Underway(q)'
  BY <1>1, <1>2 DEF Underway, IInv, Typed
<1>4. UNCHANGED <<story, phase, config, cancel, workers>>
  BY DEF Put
<1>5. config' \in [Pods -> Config]
  BY <1>4 DEF IInv, Typed
<1> QED
  BY <1>2, <1>3, <1>4, <1>5, HandlerKeeps

\* It writes a half of its configuration, and is still under way.
LEMMA LoadKeeps == ASSUME IInv, NEW h \in Handlers, LoadConfig(h) PROVE IInv'
<1>1. PICK p \in Pods, c \in Config : put[h] \in Puts /\ p = put[h].pod /\ c = put[h].c
  <2>1. put[h] # None
    BY DEF LoadConfig, At
  <2> QED
    BY <2>1 DEF IInv, Typed, Puts
<1>2. UNCHANGED <<story, phase, cancel, workers>>
  BY DEF LoadConfig
<1>3. PICK next \in {"second", "restart"} : put' = [put EXCEPT ![h].at = next]
  BY DEF LoadConfig
<1>4. PICK f \in Config : config' = [config EXCEPT ![p] = f]
  <2> DEFINE first == [config[p] EXCEPT !.enable = c.enable, !.num = c.num, !.time = c.time]
             second == [config[p] EXCEPT !.memq = c.memq, !.exit = c.exit]
  <2>1. config[p] \in Config
    BY <1>1 DEF IInv, Typed
  <2>2. first \in Config /\ second \in Config
    BY <1>1, <2>1 DEF Config
  <2>3. config' = [config EXCEPT ![p] = first] \/ config' = [config EXCEPT ![p] = second]
    BY <1>1 DEF LoadConfig
  <2> HIDE DEF first, second
  <2> QED
    BY <2>2, <2>3
<1>5. put' \in [Handlers -> Puts \cup {None}]
  BY <1>1, <1>3 DEF IInv, Typed, Puts
<1>6. config' \in [Pods -> Config] /\ \A q \in Pods \ {p} : config'[q] = config[q]
  BY <1>1, <1>4 DEF IInv, Typed
<1>7. put[h] # None /\ put'[h] # None /\ put'[h].pod = p /\ put'[h].at # "gone"
  BY <1>1, <1>3, NoneIsNone DEF LoadConfig, At, IInv, Typed, Puts
<1>8. Underway(p)'
  BY <1>7 DEF Underway
<1>9. \A q \in Pods \ {p} : Underway(q) => Underway(q)'
  BY <1>1, <1>3, <1>7 DEF Underway, IInv, Typed
<1> QED
  BY <1>2, <1>5, <1>6, <1>8, <1>9, HandlerKeeps

\* It restarts the worker with what is stored, its own or not.
LEMMA RestartWorkerKeeps ==
  ASSUME IInv, NEW h \in Handlers, RestartWorker(h) PROVE IInv'
<1>1. PICK p \in Pods : put[h] \in Puts /\ p = put[h].pod
  <2>1. put[h] # None
    BY DEF RestartWorker, At
  <2> QED
    BY <2>1 DEF IInv, Typed, Puts
<1>2. /\ Restart(p, config[p]) /\ UNCHANGED <<story, phase, config>>
      /\ put' = [put EXCEPT ![h].at = "gone"]
  BY <1>1 DEF RestartWorker, Stored
<1>3. config[p] \in Config /\ config'[p] = config[p]
  BY <1>1, <1>2 DEF IInv, Typed
<1>4. /\ put' \in [Handlers -> Puts \cup {None}] /\ config' \in [Pods -> Config]
      /\ phase' \in [Pods -> {"down", "running", "exited"}]
  BY <1>1, <1>2 DEF IInv, Typed, Puts
<1>5. \A q \in Pods \ {p} : Underway(q) => Underway(q)'
  BY <1>1, <1>2 DEF Underway, IInv, Typed
<1> QED
  BY <1>1, <1>2, <1>3, <1>4, <1>5, RestartedKeeps

-----------------------------------------------------------------------------
\* A worker goes from one state to another.
LEMMA BecomesKeeps ==
  ASSUME IInv, NEW w \in Ids, NEW state \in States \ {"orphan"}, Becomes(w, state),
         story' = story, workers[w].state \notin {"finished", "orphan"},
         workers[w].late = 0 \/ state \in {"check", "finished"}
  PROVE  IInv'
<1>1. workers[w] \in Workers
  BY OneOf DEF IInv
<1>2. PICK x \in Workers :
        /\ workers' = [workers EXCEPT ![w] = x]
        /\ x.pod = workers[w].pod /\ x.c = workers[w].c
        /\ x.cancelled = workers[w].cancelled /\ x.late = workers[w].late
        /\ x.state = state
  <2> DEFINE x == [workers[w] EXCEPT !.state = state]
  <2>1. /\ x \in Workers /\ x.pod = workers[w].pod /\ x.c = workers[w].c
        /\ x.cancelled = workers[w].cancelled /\ x.late = workers[w].late
        /\ x.state = state
    BY <1>1 DEF Workers
  <2>2. workers' = [workers EXCEPT ![w] = x]
    BY DEF Becomes
  <2> QED
    BY <2>1, <2>2
<1>3. UNCHANGED <<story, kgVars>>
  BY DEF Becomes, kgVars
<1>4. \/ workers[w].late = 0
      \/ workers[w].late = 1 /\ workers[w].cancelled
  BY DEF IInv, Safe, AtItsEnd
<1>5. \/ x.late = 0
      \/ x.late = 1 /\ x.cancelled /\ x.state \in {"check", "finished"}
  BY <1>2, <1>4
<1> QED
  BY <1>2, <1>3, <1>5, WorkerKeeps

\* The end of a workload, with or without the process.
LEMMA ExitKeeps == ASSUME IInv, NEW w \in Ids, Exit(workers[w].pod) PROVE IInv'
<1>1. PICK p \in Pods : p = workers[w].pod
  BY OneOf DEF IInv, Workers
<1>2. PICK end \in {"down", "exited"} : Ended(p, end)
  BY <1>1 DEF Exit
<1> QED
  BY <1>2, EndedKeeps

\* done: the process ends, or only the worker (workload.go:53).
LEMMA CompleteKeeps ==
  ASSUME IInv, NEW w \in Ids, Complete(w), workers[w].state \notin {"finished", "orphan"}
  PROVE  IInv'
<1>1. CASE workers[w].c.exit
  BY <1>1, ExitKeeps DEF Complete
<1>2. CASE ~workers[w].c.exit
  BY <1>2, BecomesKeeps DEF Complete, States
<1> QED
  BY <1>1, <1>2

\* isDone, of a workload and of a worker of a queue: one that is cancelled
\* does not go on.
LEMMA IsDoneKeeps ==
  ASSUME IInv, NEW w \in Ids, workloadIsDone(w) \/ memQWorkerIsDone(w)
  PROVE  IInv'
<1>1. workers[w].state = "check"
  BY DEF workloadIsDone, memQWorkerIsDone, In
<1>2. workers[w].cancelled \/ workers[w].late = 0
  BY DEF IInv, Safe, AtItsEnd
<1>3. CASE workloadIsDone(w)
  <2>1. CASE Becomes(w, "finished") /\ story' = story
    BY <1>1, <2>1, BecomesKeeps DEF States
  <2>2. CASE Complete(w)
    BY <1>1, <2>2, CompleteKeeps
  <2>3. CASE ~CtxDone(w) /\ Becomes(w, "generate") /\ story' = story
    BY <1>1, <1>2, <2>3, BecomesKeeps DEF States, CtxDone
  <2> QED
    BY <1>3, <2>1, <2>2, <2>3 DEF workloadIsDone
<1>4. CASE memQWorkerIsDone(w)
  <2>1. CASE CtxDone(w)
    BY <1>1, <1>4, <2>1, BecomesKeeps DEF States, memQWorkerIsDone
  <2>2. CASE ~CtxDone(w)
    BY <1>1, <1>2, <1>4, <2>2, BecomesKeeps DEF States, memQWorkerIsDone, CtxDone
  <2> QED
    BY <2>1, <2>2
<1> QED
  BY <1>3, <1>4

\* A key, the last of a worker that is cancelled.
LEMMA GenerateKeeps == ASSUME IInv, NEW w \in Ids, generateKey(w) PROVE IInv'
<1> DEFINE x == itemDone(w)
<1>1. workers[w] \in Workers /\ workers[w].state = "generate"
  BY OneOf DEF IInv, generateKey, In
<1>2. workers[w].late = 0
  BY <1>1 DEF IInv, Safe, AtItsEnd
<1>3. /\ x.pod = workers[w].pod /\ x.c = workers[w].c
      /\ x.cancelled = workers[w].cancelled /\ x.state = "check"
      /\ x.late = IF workers[w].cancelled THEN 1 ELSE 0
  BY <1>1, <1>2 DEF Workers, itemDone
<1>4. x \in Workers
  <2> DEFINE g == IF workers[w].generated < workers[w].c.num
                  THEN workers[w].generated + 1 ELSE workers[w].generated
             l == IF workers[w].cancelled THEN workers[w].late + 1 ELSE workers[w].late
  <2>1. g \in Nat /\ l \in Nat
    BY <1>1, <1>2 DEF Workers, Config
  <2>2. x = [workers[w] EXCEPT !.state = "check", !.item = None,
               !.generated = g, !.late = l]
    BY DEF itemDone
  <2> HIDE DEF g, l, x
  <2> QED
    BY <1>1, <2>1, <2>2 DEF Workers, States
<1>5. workers' = [workers EXCEPT ![w] = x] /\ UNCHANGED <<story, kgVars>>
  BY DEF generateKey
<1> HIDE DEF x
<1> QED
  BY <1>1, <1>3, <1>4, <1>5, WorkerKeeps

\* A step of a worker that has generated no key since it was cancelled.
LEMMA FreshKeeps ==
  ASSUME IInv, NEW w \in Ids, NEW item \in (1 .. Items) \cup {None},
         NEW state \in States \ {"orphan"},
         workers' = [workers EXCEPT ![w].state = state, ![w].item = item],
         workers[w].state \notin {"check", "finished"}, UNCHANGED <<story, kgVars>>,
         workers[w].state = "orphan" => state = "finished"
  PROVE  IInv'
<1> DEFINE x == [workers[w] EXCEPT !.state = state, !.item = item]
<1>1. workers[w] \in Workers /\ workers[w].late = 0
  BY OneOf DEF IInv, Safe, AtItsEnd
<1>2. /\ x \in Workers /\ x.pod = workers[w].pod /\ x.c = workers[w].c
      /\ x.cancelled = workers[w].cancelled /\ x.state = state /\ x.late = 0
  BY <1>1 DEF Workers
<1>3. workers' = [workers EXCEPT ![w] = x]
  OBVIOUS
<1> HIDE DEF x
<1> QED
  BY <1>1, <1>2, <1>3, WorkerKeeps

\* An answer of the broker, and a request or an answer that is lost.
LEMMA DequeueKeeps == ASSUME IInv, Queued, NEW w \in Ids, Dequeue(w) PROVE IInv'
<1>1. /\ workers[w].state \in {"asked", "orphan"} /\ UNCHANGED <<story, kgVars>>
      /\ workers[w] \in Workers
  BY OneOf DEF Dequeue, IInv
<1>2. CASE queue \in {None, <<>>}
  <2>1. PICK state \in States \ {"orphan"} :
          /\ workers' = [workers EXCEPT ![w].state = state]
          /\ workers[w].state = "orphan" => state = "finished"
    BY <1>1, <1>2 DEF Dequeue, States
  <2>2. workers' = [workers EXCEPT ![w].state = state, ![w].item = workers[w].item]
    <3>1. [workers[w] EXCEPT !.state = state]
            = [workers[w] EXCEPT !.state = state, !.item = workers[w].item]
      BY <1>1 DEF Workers
    <3> QED
      BY <2>1, <3>1
  <2>3. workers[w].item \in (1 .. Items) \cup {None}
    BY <1>1 DEF Workers
  <2> QED
    BY <1>1, <2>1, <2>2, <2>3, FreshKeeps
<1>3. CASE queue \notin {None, <<>>}
  <2>1. Head(queue) \in 1 .. Items
    <3>1. queue \in Seq(1 .. Items) /\ queue # <<>>
      BY <1>3 DEF Queued
    <3> HIDE DEF Queued
    <3> QED
      BY <3>1, HeadTailProperties
  <2>2. PICK state \in States \ {"orphan"}, item \in (1 .. Items) \cup {None} :
          /\ workers' = [workers EXCEPT ![w].state = state, ![w].item = item]
          /\ workers[w].state = "orphan" => state = "finished"
    <3>1. CASE workers[w].state = "orphan"
      BY <1>3, <3>1 DEF Dequeue, States
    <3>2. CASE workers[w].state = "asked"
      BY <1>3, <2>1, <3>2 DEF Dequeue, States
    <3> QED
      BY <1>1, <3>1, <3>2
  <2> QED
    BY <1>1, <2>2, FreshKeeps
<1> QED
  BY <1>2, <1>3

\* A request or an answer is lost.
LEMMA LoseKeeps == ASSUME IInv, NEW w \in Ids, Lose(w) PROVE IInv'
<1>1. /\ workers' = [workers EXCEPT ![w].state = "error", ![w].item = None]
      /\ workers[w].state \in {"asked", "empty", "answered"}
      /\ UNCHANGED <<story, kgVars>>
  BY DEF Lose
<1>2. "error" \in States \ {"orphan"} /\ None \in (1 .. Items) \cup {None}
  BY DEF States
<1>3. workers[w].state \notin {"check", "finished", "orphan"}
  BY <1>1
<1> QED
  BY <1>1, <1>2, <1>3, FreshKeeps

\* What a worker does with an answer.
LEMMA ReceiveKeeps == ASSUME IInv, NEW w \in Ids, Receive(w) PROVE IInv'
<1>1. ASSUME NEW state \in {"check", "generate"}, Becomes(w, state), story' = story,
             workers[w].state \in {"answered", "empty", "error"}
      PROVE  IInv'
  <2>1. workers[w].late = 0
    BY <1>1 DEF IInv, Safe, AtItsEnd
  <2> QED
    BY <1>1, <2>1, BecomesKeeps DEF States
<1>2. CASE Exit(workers[w].pod)
  BY <1>2, ExitKeeps
<1>3. CASE In(w, "answered") /\ Becomes(w, "generate") /\ story' = story
  BY <1>1, <1>3 DEF In
<1>4. CASE (In(w, "error") \/ In(w, "empty")) /\ Becomes(w, "check") /\ story' = story
  BY <1>1, <1>4 DEF In
<1> QED
  BY <1>2, <1>3, <1>4 DEF Receive, Empty, Again

\* time.After.
LEMMA ExpireKeeps == ASSUME IInv, NEW w \in Ids, Expire(w) PROVE IInv'
<1> DEFINE x == [workers[w] EXCEPT !.expired = TRUE]
<1>1. workers[w] \in Workers /\ workers[w].state # "finished"
  BY OneOf DEF IInv, Expire, Active
<1>2. /\ x \in Workers /\ x.pod = workers[w].pod /\ x.c = workers[w].c
      /\ x.cancelled = workers[w].cancelled /\ x.state = workers[w].state
      /\ x.late = workers[w].late
  BY <1>1 DEF Workers
<1>3. workers' = [workers EXCEPT ![w] = x] /\ UNCHANGED <<story, kgVars>>
  BY DEF Expire
<1> HIDE DEF x
<1>4. \/ x.late = 0
      \/ x.late = 1 /\ x.cancelled /\ x.state \in {"check", "finished"}
  BY <1>2 DEF IInv, Safe, AtItsEnd
<1> QED
  BY <1>1, <1>2, <1>3, <1>4, WorkerKeeps

-----------------------------------------------------------------------------
\* The queue holds items.
LEMMA QueuedStep == ASSUME Queued, [Next]_vars PROVE Queued'
<1> USE DEF Queued
<1>1. ASSUME NEW w \in Ids, Dequeue(w) PROVE Queued'
  BY <1>1 DEF Dequeue, Pop
<1>2. CASE CreateQueue
  BY <1>2 DEF CreateQueue
<1>3. CASE Enqueue
  BY <1>3, ConfigAssumption DEF Enqueue
<1>4. CASE queueVars' = queueVars
  BY <1>4 DEF queueVars
<1>5. ASSUME NEW p \in Pods, Start(p) \/ Crash(p) PROVE queueVars' = queueVars
  BY <1>5 DEF Start, Crash, Ended
<1>6. ASSUME NEW h \in Handlers, Put(h) \/ LoadConfig(h) \/ RestartWorker(h)
      PROVE  queueVars' = queueVars
  BY <1>6 DEF Put, LoadConfig, RestartWorker
<1>7. ASSUME NEW w \in Ids, Work(w) \/ Expire(w) \/ Lose(w) PROVE queueVars' = queueVars
  BY <1>7 DEF Work, workloadIsDone, generateKey, memQWorkerIsDone, Receive, Expire, Lose,
              Complete, Exit, Ended
<1> QED
  BY <1>1, <1>2, <1>3, <1>4, <1>5, <1>6, <1>7 DEF Next, vars

\* A process that has not started has no worker and its flags.
LEMMA InitIInv == ASSUME Init PROVE IInv /\ Queued
<1>1. Typed
  BY Flagged, ConfigAssumption DEF Init, Typed, Flags
<1>2. Ids = {}
  BY DEF Init, Ids
<1>3. Safe
  BY <1>2 DEF Init, Safe, Holds, OneLiveWorker, RunsItsConfig, AtItsEnd
<1>4. Queued
  BY ConfigAssumption DEF Init, Queued
<1> QED
  BY <1>1, <1>3, <1>4 DEF IInv

\* Every step keeps the invariant.
LEMMA NextIInv == ASSUME IInv, Queued, [Next]_vars PROVE IInv'
<1>1. ASSUME NEW p \in Pods, Start(p) \/ Crash(p) PROVE IInv'
  BY <1>1, StartKeeps, EndedKeeps DEF Crash
<1>2. ASSUME NEW h \in Handlers, Put(h) \/ LoadConfig(h) \/ RestartWorker(h) PROVE IInv'
  BY <1>2, PutKeeps, LoadKeeps, RestartWorkerKeeps
<1>3. ASSUME NEW w \in Ids, Work(w) PROVE IInv'
  BY <1>3, IsDoneKeeps, GenerateKeeps, ReceiveKeeps DEF Work
<1>4. ASSUME NEW w \in Ids, Expire(w) \/ Dequeue(w) \/ Lose(w) PROVE IInv'
  BY <1>4, ExpireKeeps, DequeueKeeps, LoseKeeps
<1>5. ASSUME UNCHANGED <<story, kgVars, workers>> PROVE IInv'
  BY <1>5 DEF kgVars, IInv, Typed, Safe, Holds, OneLiveWorker, RunsItsConfig, AtItsEnd,
              Active, Ids, Underway
<1>6. CASE CreateQueue \/ Enqueue \/ UNCHANGED vars
  BY <1>5, <1>6 DEF CreateQueue, Enqueue, vars
<1> QED
  BY <1>1, <1>2, <1>3, <1>4, <1>6 DEF Next

\* The invariant says the same of a process that a handler has not left.
LEMMA IInvImplies == ASSUME IInv PROVE OneLiveWorker /\ RunsTheConfig /\ StopsSoon
<1>1. RunsTheConfig
  BY DEF IInv, Safe, RunsItsConfig, Holds, RunsTheConfig, Underway
<1>2. StopsSoon
  BY DEF IInv, Safe, AtItsEnd, StopsSoon
<1> QED
  BY <1>1, <1>2 DEF IInv, Safe

\* Both invariants hold of every state.
LEMMA Inductive == Spec => [](IInv /\ Queued)
<1>1. Init => IInv /\ Queued
  BY InitIInv
<1>2. IInv /\ Queued /\ [Next]_vars => (IInv /\ Queued)'
  BY NextIInv, QueuedStep
<1> QED
  BY <1>1, <1>2, PTL DEF Spec

-----------------------------------------------------------------------------
(* Where an item is: in the queue, with one worker, done, or lost.         *)

InQueue(k) == queue # None /\ \E j \in 1 .. Len(queue) : queue[j] = k
Held(k) == \E w \in Ids : workers[w].item = k

\* No item is in two places, nor twice in one, and only a worker that was
\* answered and has not generated the key yet has one.
Placed ==
  /\ done \in [1 .. Items -> {0, 1}]
  /\ \A k \in 1 .. Items :
       /\ InQueue(k) \/ Held(k) => k <= produced /\ done[k] = 0
       /\ done[k] = 1 => k <= produced
       /\ ~(InQueue(k) /\ Held(k))
  /\ \A v, w \in Ids :
       workers[v].item = workers[w].item => v = w \/ workers[v].item = None
  /\ queue # None =>
       \A i, j \in 1 .. Len(queue) : queue[i] = queue[j] => i = j
  /\ \A w \in Ids :
       workers[w].item # None => workers[w].state \in {"answered", "generate"}

\* In a Job nobody puts configurations: a Pod that runs has one worker.
Live(w) == workers[w].state \notin {"orphan", "finished"}
Solo ==
  story # "form" =>
    /\ \A h \in Handlers : put[h] = None
    /\ \A w \in Ids : Live(w) => phase[workers[w].pod] = "running"
    /\ \A v, w \in Ids :
         Live(v) /\ Live(w) /\ workers[v].pod = workers[w].pod => v = w

\* A fault loses the item a worker has, or leaves a request under way that
\* may still take one from the queue.
Orphans == {w \in Ids : workers[w].state = "orphan"}
Counted ==
  /\ faults \in Nat
  /\ story # "form" => Cardinality(Lost) + Cardinality(Orphans) <= faults

\* A Pod of the Job leaves only when it finds the queue empty, and then
\* nobody fills it again.
Emptied ==
  story = "job" =>
    /\ queue # None /\ produced = Items
    /\ \A w \in Ids : workers[w].c = JobStart
    /\ \A w \in Ids : workers[w].state = "empty" => queue = <<>>
    /\ (\E p \in Pods : phase[p] = "exited") => queue = <<>>

\* What Lost says, of one item.
LEMMA LostMeans ==
  ASSUME Queued
  PROVE  Lost = {k \in 1 .. produced : done[k] = 0 /\ ~InQueue(k) /\ ~Held(k)}
  BY DEF Lost, InQueue, Held

\* There are finitely many of either.
LEMMA LossesFinite ==
  ASSUME Typed, Queued
  PROVE  /\ IsFiniteSet(Lost) /\ Cardinality(Lost) \in Nat
         /\ IsFiniteSet(Orphans) /\ Cardinality(Orphans) \in Nat
<1>1. IsFiniteSet(1 .. produced) /\ IsFiniteSet(Ids)
  BY Numbered, FS_Interval DEF Queued
<1>2. Lost \in SUBSET (1 .. produced) /\ Orphans \in SUBSET Ids
  BY DEF Lost, Orphans
<1> QED
  BY <1>1, <1>2, FS_Subset, FS_CardinalityType

\* How a step may change the count.
LEMMA CountedStep ==
  ASSUME Typed, Queued, Counted, story' = story,
         \/ Lost' \subseteq Lost /\ Orphans' \subseteq Orphans /\ faults' \in {faults, faults + 1}
         \/ /\ faults' = faults + 1 /\ Orphans' \subseteq Orphans
            /\ \E k : Lost' \subseteq Lost \cup {k}
         \/ /\ faults' = faults + 1 /\ Lost' \subseteq Lost
            /\ \E w : Orphans' \subseteq Orphans \cup {w}
         \/ /\ faults' = faults
            /\ \E k : Lost' \subseteq Lost \cup {k}
            /\ \E w \in Orphans : Orphans' \subseteq Orphans \ {w}
  PROVE  Counted'
<1>1. /\ IsFiniteSet(Lost) /\ IsFiniteSet(Orphans) /\ faults \in Nat
      /\ Cardinality(Lost) \in Nat /\ Cardinality(Orphans) \in Nat
      /\ story # "form" => Cardinality(Lost) + Cardinality(Orphans) <= faults
  BY LossesFinite DEF Counted
<1>2. ASSUME NEW S, NEW T, NEW x, IsFiniteSet(S), T \subseteq S \cup {x}
      PROVE  Cardinality(T) \in Nat /\ Cardinality(T) <= Cardinality(S) + 1
  <2>0. Cardinality(S) \in Nat
    BY <1>2, FS_CardinalityType
  <2>1. /\ IsFiniteSet(S \cup {x})
        /\ Cardinality(S \cup {x}) <= Cardinality(S) + 1
    BY <1>2, <2>0, FS_AddElement
  <2>2. IsFiniteSet(T) /\ Cardinality(T) <= Cardinality(S \cup {x})
    BY <1>2, <2>1, FS_Subset
  <2>3. Cardinality(T) \in Nat /\ Cardinality(S \cup {x}) \in Nat
    BY <2>1, <2>2, FS_CardinalityType
  <2> QED
    BY <2>0, <2>1, <2>2, <2>3
<1>3. ASSUME NEW S, NEW T, IsFiniteSet(S), T \subseteq S
      PROVE  Cardinality(T) \in Nat /\ Cardinality(T) <= Cardinality(S)
  BY <1>3, FS_Subset, FS_CardinalityType
<1>4. ASSUME NEW S, NEW T, NEW x \in S, IsFiniteSet(S), T \subseteq S \ {x}
      PROVE  Cardinality(T) \in Nat /\ Cardinality(T) <= Cardinality(S) - 1
  <2>1. IsFiniteSet(S \ {x}) /\ Cardinality(S \ {x}) = Cardinality(S) - 1
    BY <1>4, FS_RemoveElement
  <2> QED
    BY <1>4, <2>1, FS_Subset, FS_CardinalityType
<1>5. CASE Lost' \subseteq Lost /\ Orphans' \subseteq Orphans /\ faults' \in {faults, faults + 1}
  <2>1. /\ Cardinality(Lost)' \in Nat /\ Cardinality(Orphans)' \in Nat
        /\ Cardinality(Lost)' <= Cardinality(Lost)
        /\ Cardinality(Orphans)' <= Cardinality(Orphans)
    BY <1>1, <1>3, <1>5
  <2> QED
    BY <1>1, <1>5, <2>1 DEF Counted
<1>6. ASSUME NEW k, faults' = faults + 1, Orphans' \subseteq Orphans,
             Lost' \subseteq Lost \cup {k}
      PROVE  Counted'
  <2>1. /\ Cardinality(Lost)' \in Nat /\ Cardinality(Orphans)' \in Nat
        /\ Cardinality(Lost)' <= Cardinality(Lost) + 1
        /\ Cardinality(Orphans)' <= Cardinality(Orphans)
    BY <1>1, <1>2, <1>3, <1>6
  <2> QED
    BY <1>1, <1>6, <2>1 DEF Counted
<1>7. ASSUME NEW w, faults' = faults + 1, Lost' \subseteq Lost,
             Orphans' \subseteq Orphans \cup {w}
      PROVE  Counted'
  <2>1. /\ Cardinality(Lost)' \in Nat /\ Cardinality(Orphans)' \in Nat
        /\ Cardinality(Lost)' <= Cardinality(Lost)
        /\ Cardinality(Orphans)' <= Cardinality(Orphans) + 1
    BY <1>1, <1>2, <1>3, <1>7
  <2> QED
    BY <1>1, <1>7, <2>1 DEF Counted
<1>8. ASSUME NEW k, NEW w \in Orphans, faults' = faults,
             Lost' \subseteq Lost \cup {k}, Orphans' \subseteq Orphans \ {w}
      PROVE  Counted'
  <2>1. /\ Cardinality(Lost)' \in Nat /\ Cardinality(Orphans)' \in Nat
        /\ Cardinality(Lost)' <= Cardinality(Lost) + 1
        /\ Cardinality(Orphans)' <= Cardinality(Orphans) - 1
    BY <1>1, <1>2, <1>4, <1>8
  <2> QED
    BY <1>1, <1>8, <2>1 DEF Counted
<1> QED
  BY <1>5, <1>6, <1>7, <1>8

Accounts == Placed /\ Solo /\ Counted /\ Emptied

\* A step that does nothing to the queue and to what is done, and gives no
\* worker an item, leaves every item in one place or loses it.
LEMMA PlacedQuiet ==
  ASSUME Queued, Placed, UNCHANGED <<queueVars, done>>, Ids \subseteq Ids',
         \A w \in Ids : workers'[w].item \in {workers[w].item, None},
         \A w \in Ids' \ Ids : workers'[w].item = None,
         \A w \in Ids' : workers'[w].item # None => workers'[w].state \in {"answered", "generate"}
  PROVE  Placed'
<1>1. queue' = queue /\ produced' = produced /\ done' = done
  BY DEF queueVars
<1>2. \A k \in 1 .. Items : (Held(k)' => Held(k)) /\ (InQueue(k)' <=> InQueue(k))
  BY <1>1, NoneIsNone DEF Held, InQueue
<1>3. \A v, w \in Ids' : workers'[v].item = workers'[w].item => v = w \/ workers'[v].item = None
  BY DEF Placed
<1> QED
  BY <1>1, <1>2, <1>3 DEF Placed

\* If the workers keep their items too, none is lost.
LEMMA LosesNothing ==
  ASSUME Queued, Queued', UNCHANGED <<queueVars, done>>, Ids \subseteq Ids',
         \A w \in Ids : workers'[w].item = workers[w].item,
         \A w \in Ids' : workers'[w].state = "orphan" => w \in Ids /\ workers[w].state = "orphan"
  PROVE  Lost' \subseteq Lost /\ Orphans' \subseteq Orphans
<1>1. queue' = queue /\ produced' = produced /\ done' = done
  BY DEF queueVars
<1>2. Lost' \subseteq Lost
  BY <1>1 DEF Lost
<1>3. Orphans' \subseteq Orphans
  BY DEF Orphans
<1> QED
  BY <1>2, <1>3

\* If one worker does not keep its item, that one may be lost.
LEMMA LosesOne ==
  ASSUME UNCHANGED <<queueVars, done>>, NEW w \in Ids, Ids \subseteq Ids',
         \A v \in Ids \ {w} : workers'[v].item = workers[v].item
  PROVE  Lost' \subseteq Lost \cup {workers[w].item}
<1>1. queue' = queue /\ produced' = produced /\ done' = done
  BY DEF queueVars
<1> QED
  BY <1>1 DEF Lost

\* The step of one worker, which does not come back, is its Pod's only one.
LEMMA OneMoves ==
  ASSUME IInv, NEW w \in Ids, NEW x, workers' = [workers EXCEPT ![w] = x],
         x.pod = workers[w].pod, x.c = workers[w].c,
         Live(w) \/ x.state \in {"orphan", "finished"},
         UNCHANGED <<story, kgVars>>
  PROVE  /\ Ids' = Ids /\ workers'[w] = x
         /\ \A v \in Ids \ {w} : workers'[v] = workers[v]
         /\ Solo => Solo'
         /\ \A v \in Ids : workers'[v].c = workers[v].c
<1>1. /\ Ids' = Ids /\ workers'[w] = x
      /\ \A v \in Ids \ {w} : workers'[v] = workers[v]
  BY OneOf DEF IInv, Typed, Ids
<1>2. phase' = phase /\ put' = put
  BY DEF kgVars
<1>3. Solo => Solo'
  BY <1>1, <1>2 DEF Solo, Live
<1> QED
  BY <1>1, <1>3

\* A worker goes from one state to another, with what it has.
LEMMA BecomesAccounts ==
  ASSUME IInv, Queued, Accounts, Queued', NEW w \in Ids,
         NEW state \in States \ {"orphan", "empty"}, Becomes(w, state), Live(w),
         UNCHANGED <<story, queueVars, done, faults>>,
         workers[w].item # None => state \in {"answered", "generate"}
  PROVE  Accounts'
<1> DEFINE x == [workers[w] EXCEPT !.state = state]
<1>1. /\ x.pod = workers[w].pod /\ x.c = workers[w].c /\ x.state = state
      /\ x.item = workers[w].item
  BY OneOf DEF IInv, Workers
<1>2. workers' = [workers EXCEPT ![w] = x] /\ UNCHANGED kgVars
  BY DEF Becomes, kgVars
<1> HIDE DEF x
<1>3. /\ Ids' = Ids /\ workers'[w] = x
      /\ \A v \in Ids \ {w} : workers'[v] = workers[v]
      /\ Solo' /\ \A v \in Ids : workers'[v].c = workers[v].c
  BY <1>1, <1>2, OneMoves DEF Accounts
<1>4. Placed'
  BY <1>1, <1>3, PlacedQuiet DEF Accounts, Placed
<1>5. Counted'
  <2>1. Lost' \subseteq Lost /\ Orphans' \subseteq Orphans
    BY <1>1, <1>3, LosesNothing
  <2> QED
    BY <2>1, CountedStep DEF Accounts, IInv
<1>6. Emptied'
  BY <1>1, <1>2, <1>3 DEF Accounts, Emptied, queueVars, kgVars
<1> QED
  BY <1>3, <1>4, <1>5, <1>6 DEF Accounts

\* time.After.
LEMMA ExpireAccounts ==
  ASSUME IInv, Queued, Accounts, Queued', NEW w \in Ids, Expire(w)
  PROVE  Accounts'
<1> DEFINE x == [workers[w] EXCEPT !.expired = TRUE]
<1>1. /\ x.pod = workers[w].pod /\ x.c = workers[w].c
      /\ x.state = workers[w].state /\ x.item = workers[w].item
  BY OneOf DEF IInv, Workers
<1>2. /\ workers' = [workers EXCEPT ![w] = x]
      /\ UNCHANGED <<story, kgVars, queueVars, done, faults>>
      /\ workers[w].state # "finished"
  BY DEF Expire, Active
<1> HIDE DEF x
<1>3. /\ Ids' = Ids /\ workers'[w] = x
      /\ \A v \in Ids \ {w} : workers'[v] = workers[v]
      /\ Solo' /\ \A v \in Ids : workers'[v].c = workers[v].c
  BY <1>1, <1>2, OneMoves DEF Accounts, Live
<1>4. Placed'
  BY <1>1, <1>2, <1>3, PlacedQuiet DEF Accounts, Placed
<1>5. Counted'
  <2>1. Lost' \subseteq Lost /\ Orphans' \subseteq Orphans
    BY <1>1, <1>2, <1>3, LosesNothing
  <2> QED
    BY <1>2, <2>1, CountedStep DEF Accounts, IInv
<1>6. Emptied'
  BY <1>1, <1>2, <1>3 DEF Accounts, Emptied, queueVars, kgVars
<1> QED
  BY <1>3, <1>4, <1>5, <1>6 DEF Accounts

\* A request or an answer is lost, with the item that was in it.
LEMMA LoseAccounts ==
  ASSUME IInv, Queued, Accounts, Queued', NEW w \in Ids, Lose(w)
  PROVE  Accounts'
<1> DEFINE x == [workers[w] EXCEPT !.state = "error", !.item = None]
<1>1. /\ x.pod = workers[w].pod /\ x.c = workers[w].c
      /\ x.state = "error" /\ x.item = None
  BY OneOf DEF IInv, Workers
<1>2. /\ workers' = [workers EXCEPT ![w] = x]
      /\ UNCHANGED <<story, kgVars, queueVars, done>> /\ faults' = faults + 1
      /\ workers[w].state \in {"asked", "empty", "answered"}
  BY DEF Lose
<1> HIDE DEF x
<1>3. /\ Ids' = Ids /\ workers'[w] = x
      /\ \A v \in Ids \ {w} : workers'[v] = workers[v]
      /\ Solo' /\ \A v \in Ids : workers'[v].c = workers[v].c
  BY <1>1, <1>2, OneMoves DEF Accounts, Live
<1>4. Placed'
  BY <1>1, <1>2, <1>3, PlacedQuiet DEF Accounts, Placed
<1>5. Counted'
  <2>1. Lost' \subseteq Lost \cup {workers[w].item}
    BY <1>2, <1>3, LosesOne
  <2>2. Orphans' \subseteq Orphans
    BY <1>1, <1>3 DEF Orphans
  <2> QED
    BY <1>2, <2>1, <2>2, CountedStep DEF Accounts, IInv
<1>6. Emptied'
  BY <1>1, <1>2, <1>3 DEF Accounts, Emptied, queueVars, kgVars
<1> QED
  BY <1>3, <1>4, <1>5, <1>6 DEF Accounts

\* A key: the item of the worker, which was nowhere else, is done.
LEMMA GenerateAccounts ==
  ASSUME IInv, Queued, Accounts, Queued', NEW w \in Ids, generateKey(w)
  PROVE  Accounts'
<1> DEFINE x == itemDone(w)
           k == workers[w].item
<1>1. /\ x.pod = workers[w].pod /\ x.c = workers[w].c
      /\ x.state = "check" /\ x.item = None /\ k \in (1 .. Items) \cup {None}
  BY OneOf DEF IInv, Workers, itemDone
<1>2. /\ workers' = [workers EXCEPT ![w] = x]
      /\ UNCHANGED <<story, kgVars, queueVars, faults>>
      /\ workers[w].state = "generate"
      /\ done' = IF k = None THEN done ELSE [done EXCEPT ![k] = @ + 1]
      /\ queue' = queue /\ produced' = produced
  BY DEF generateKey, In, queueVars
<1> HIDE DEF x
<1>3. /\ Ids' = Ids /\ workers'[w] = x
      /\ \A v \in Ids \ {w} : workers'[v] = workers[v]
      /\ Solo' /\ \A v \in Ids : workers'[v].c = workers[v].c
  BY <1>1, <1>2, OneMoves DEF Accounts, Live
<1>4. /\ done' \in [1 .. Items -> {0, 1}]
      /\ \A j \in 1 .. Items : done'[j] = IF j = k THEN 1 ELSE done[j]
  <2>1. CASE k = None
    BY <1>2, <2>1, NoneIsNone DEF Accounts, Placed
  <2>2. CASE k # None
    <3>1. k \in 1 .. Items /\ Held(k) /\ done[k] = 0
      BY <1>1, <2>2 DEF Accounts, Placed, Held
    <3> QED
      BY <1>2, <2>2, <3>1 DEF Accounts, Placed
  <2> QED
    BY <2>1, <2>2
<1>5. Placed'
  <2>1. \A j \in 1 .. Items : /\ InQueue(j)' <=> InQueue(j)
                              /\ Held(j)' => Held(j) /\ j # k
    BY <1>1, <1>2, <1>3, NoneIsNone DEF InQueue, Held, Accounts, Placed
  <2>2. k \in 1 .. Items => Held(k)
    BY DEF Held
  <2>3. \A u, v \in Ids' : workers'[u].item = workers'[v].item => u = v \/ workers'[u].item = None
    BY <1>1, <1>3 DEF Accounts, Placed
  <2>4. \A v \in Ids' : workers'[v].item # None => workers'[v].state \in {"answered", "generate"}
    BY <1>1, <1>3 DEF Accounts, Placed
  <2>5. \A j \in 1 .. Items :
          /\ InQueue(j)' \/ Held(j)' => j <= produced /\ done'[j] = 0
          /\ done'[j] = 1 => j <= produced
          /\ ~(InQueue(j)' /\ Held(j)')
    BY <1>4, <2>1, <2>2 DEF Accounts, Placed
  <2> QED
    BY <1>2, <1>4, <2>3, <2>4, <2>5 DEF Accounts, Placed
<1>6. Counted'
  <2>1. Lost' \subseteq Lost
    <3> SUFFICES ASSUME NEW j \in Lost' PROVE j \in Lost
      OBVIOUS
    <3>1. j \in 1 .. produced /\ j \in 1 .. Items /\ done'[j] = 0
      <4>1. j \in 1 .. produced /\ done'[j] = 0
        BY <1>2 DEF Lost
      <4>2. produced \in 0 .. Items /\ Items \in Nat
        BY ConfigAssumption DEF Queued
      <4> QED
        BY <4>1, <4>2
    <3>2. j # k /\ done[j] = 0
      BY <1>4, <3>1 DEF Accounts, Placed
    <3> QED
      BY <1>2, <1>3, <3>1, <3>2 DEF Lost
  <2>2. Orphans' \subseteq Orphans
    BY <1>1, <1>3 DEF Orphans
  <2> QED
    BY <1>2, <2>1, <2>2, CountedStep DEF Accounts, IInv
<1>7. Emptied'
  BY <1>1, <1>2, <1>3 DEF Accounts, Emptied, kgVars
<1> QED
  BY <1>3, <1>5, <1>6, <1>7 DEF Accounts

\* The queue without its first item.
LEMMA TailOf ==
  ASSUME NEW q \in Seq(1 .. Items), q # <<>>
  PROVE  /\ Len(q) \in Nat \ {0} /\ Len(Tail(q)) = Len(q) - 1
         /\ Head(q) = q[1] /\ Head(q) \in 1 .. Items
         /\ \A i \in 1 .. Len(q) - 1 : Tail(q)[i] = q[i + 1]
<1>1. /\ Len(q) \in Nat \ {0} /\ Len(Tail(q)) = Len(q) - 1
      /\ \A i \in 1 .. Len(q) - 1 : Tail(q)[i] = q[i + 1]
  BY EmptySeq, HeadTailProperties, LenProperties
<1>2. Head(q) \in 1 .. Items
  BY HeadTailProperties
<1>3. Head(q) = q[1]
  BY <1>1
<1> QED
  BY <1>1, <1>2, <1>3

\* The broker answers that there is no item.
LEMMA NoItemAccounts ==
  ASSUME IInv, Queued, Accounts, Queued', NEW w \in Ids, Dequeue(w), queue \in {None, <<>>}
  PROVE  Accounts'
<1>1. PICK state \in {"finished", "error", "empty"} :
        /\ workers' = [workers EXCEPT ![w].state = state]
        /\ state = "empty" => queue # None
  BY DEF Dequeue
<1> DEFINE x == [workers[w] EXCEPT !.state = state]
<1>2. /\ workers[w].state \in {"asked", "orphan"}
      /\ state # "finished" => workers[w].state = "asked"
      /\ UNCHANGED <<story, kgVars, queueVars, done, faults>>
  BY <1>1, OneOf DEF Dequeue, queueVars, IInv, Typed, Workers
<1>3. workers[w].item = None
  BY <1>2 DEF Accounts, Placed
<1>4. /\ x.pod = workers[w].pod /\ x.c = workers[w].c /\ x.state = state /\ x.item = None
  BY <1>3, OneOf DEF IInv, Workers
<1>5. workers' = [workers EXCEPT ![w] = x]
  BY <1>1
<1> HIDE DEF x
<1>6. /\ Ids' = Ids /\ workers'[w] = x
      /\ \A v \in Ids \ {w} : workers'[v] = workers[v]
      /\ Solo' /\ \A v \in Ids : workers'[v].c = workers[v].c
  BY <1>2, <1>4, <1>5, OneMoves DEF Accounts, Live
<1>7. Placed'
  BY <1>2, <1>4, <1>6, PlacedQuiet DEF Accounts, Placed
<1>8. Counted'
  <2>1. Lost' \subseteq Lost /\ Orphans' \subseteq Orphans
    BY <1>2, <1>3, <1>4, <1>6, LosesNothing
  <2> QED
    BY <1>2, <2>1, CountedStep DEF Accounts, IInv
<1>9. Emptied'
  <2>1. queue' = queue /\ produced' = produced /\ phase' = phase /\ story' = story
    BY <1>2 DEF queueVars, kgVars
  <2> QED
    BY <1>1, <1>4, <1>6, <2>1 DEF Accounts, Emptied
<1> QED
  BY <1>6, <1>7, <1>8, <1>9 DEF Accounts

\* The broker takes the first item and answers, or answers nobody.
LEMMA ItemAccounts ==
  ASSUME IInv, Queued, Accounts, Queued', NEW w \in Ids, Dequeue(w), queue \notin {None, <<>>}
  PROVE  Accounts'
<1> DEFINE k == Head(queue)
           orphan == workers[w].state = "orphan"
           state == IF orphan THEN "finished" ELSE "answered"
           item == IF orphan THEN None ELSE k
           x == [workers[w] EXCEPT !.state = state, !.item = item]
<1>1. /\ workers[w].state \in {"asked", "orphan"}
      /\ workers' = [workers EXCEPT ![w] = x] /\ queue' = Tail(queue)
      /\ UNCHANGED <<story, kgVars, produced, done, faults>>
  BY DEF Dequeue, Pop
<1>2. workers[w].item = None
  BY <1>1 DEF Accounts, Placed
<1>3. /\ x.pod = workers[w].pod /\ x.c = workers[w].c /\ x.state = state /\ x.item = item
  BY OneOf DEF IInv, Workers
<1>4. /\ queue \in Seq(1 .. Items) /\ queue # <<>> /\ queue # None
      /\ queue' # None
  <2>1. queue \in Seq(1 .. Items) /\ queue # <<>> /\ queue # None
    BY DEF Queued
  <2>2. Tail(queue) \in Seq(1 .. Items)
    BY <2>1, HeadTailProperties
  <2> QED
    BY <1>1, <2>1, <2>2, NoneIsNone
<1>5. /\ Len(queue) \in Nat \ {0} /\ Len(queue') = Len(queue) - 1
      /\ k = queue[1] /\ k \in 1 .. Items
      /\ \A i \in 1 .. Len(queue) - 1 : queue'[i] = queue[i + 1]
  BY <1>1, <1>4, TailOf
<1> HIDE DEF x, k
<1>6. /\ Ids' = Ids /\ workers'[w] = x
      /\ \A v \in Ids \ {w} : workers'[v] = workers[v]
      /\ Solo' /\ \A v \in Ids : workers'[v].c = workers[v].c
  BY <1>1, <1>3, OneMoves DEF Accounts, Live
<1>7. \A i, j \in 1 .. Len(queue) : queue[i] = queue[j] => i = j
  BY <1>4 DEF Accounts, Placed
<1>8. InQueue(k) /\ k <= produced /\ done[k] = 0 /\ ~Held(k)
  <2>1. InQueue(k)
    BY <1>4, <1>5 DEF InQueue
  <2> QED
    BY <1>5, <2>1 DEF Accounts, Placed
<1>9. \A j \in 1 .. Items : InQueue(j)' <=> InQueue(j) /\ j # k
  <2> SUFFICES ASSUME NEW j \in 1 .. Items PROVE InQueue(j)' <=> InQueue(j) /\ j # k
    OBVIOUS
  <2>1. ASSUME InQueue(j)' PROVE InQueue(j) /\ j # k
    <3>1. PICK i \in 1 .. Len(queue) - 1 : queue[i + 1] = j
      BY <1>5, <2>1 DEF InQueue
    <3>2. i + 1 \in 1 .. Len(queue) /\ 1 \in 1 .. Len(queue) /\ i + 1 # 1
      BY <1>5
    <3> QED
      BY <1>4, <1>5, <1>7, <3>1, <3>2 DEF InQueue
  <2>2. ASSUME InQueue(j), j # k PROVE InQueue(j)'
    <3>1. PICK i \in 1 .. Len(queue) : queue[i] = j
      BY <2>2 DEF InQueue
    <3>2. i # 1 /\ i - 1 \in 1 .. Len(queue) - 1 /\ (i - 1) + 1 = i
      BY <1>5, <2>2, <3>1
    <3>3. queue'[i - 1] = j
      BY <1>5, <3>1, <3>2
    <3> QED
      BY <1>4, <1>5, <3>2, <3>3 DEF InQueue
  <2> QED
    BY <2>1, <2>2
<1>10. \A j \in 1 .. Items : Held(j)' <=> Held(j) \/ (~orphan /\ j = k)
  BY <1>2, <1>3, <1>6, NoneIsNone DEF Held
<1>11. Placed'
  <2>1. \A j \in 1 .. Items :
          /\ InQueue(j)' \/ Held(j)' => j <= produced /\ done[j] = 0
          /\ ~(InQueue(j)' /\ Held(j)')
    BY <1>8, <1>9, <1>10 DEF Accounts, Placed
  <2>2. \A u, v \in Ids' : workers'[u].item = workers'[v].item => u = v \/ workers'[u].item = None
    <3>1. \A v \in Ids : workers[v].item # k
      BY <1>8 DEF Held
    <3> QED
      BY <1>3, <1>6, <3>1 DEF Accounts, Placed
  <2>3. \A i, j \in 1 .. Len(queue') : queue'[i] = queue'[j] => i = j
    <3> SUFFICES ASSUME NEW i \in 1 .. Len(queue'), NEW j \in 1 .. Len(queue'),
                        queue'[i] = queue'[j]
                 PROVE  i = j
      OBVIOUS
    <3>1. /\ i + 1 \in 1 .. Len(queue) /\ j + 1 \in 1 .. Len(queue)
          /\ queue[i + 1] = queue[j + 1]
      BY <1>5
    <3>2. i + 1 = j + 1
      BY <1>7, <3>1
    <3> QED
      BY <1>5, <3>2
  <2>4. \A v \in Ids' : workers'[v].item # None => workers'[v].state \in {"answered", "generate"}
    BY <1>3, <1>6 DEF Accounts, Placed
  <2> QED
    BY <1>1, <2>1, <2>2, <2>3, <2>4 DEF Accounts, Placed
<1>12. Counted'
  <2>1. \A j \in 1 .. produced : j \in 1 .. Items
    BY ConfigAssumption DEF Queued
  <2>2. Lost = {j \in 1 .. produced : done[j] = 0 /\ ~InQueue(j) /\ ~Held(j)}
    BY LostMeans
  <2>3. Lost' = {j \in 1 .. produced : done[j] = 0 /\ ~InQueue(j)' /\ ~Held(j)'}
    BY <1>1 DEF Lost, InQueue, Held
  <2>4. CASE orphan
    <3>1. Lost' \subseteq Lost \cup {k}
      BY <1>9, <1>10, <2>1, <2>2, <2>3
    <3>2. w \in Orphans /\ Orphans' \subseteq Orphans \ {w}
      BY <1>3, <1>6, <2>4 DEF Orphans
    <3> QED
      BY <1>1, <3>1, <3>2, CountedStep DEF Accounts, IInv
  <2>5. CASE ~orphan
    <3>1. Lost' \subseteq Lost
      BY <1>9, <1>10, <2>1, <2>2, <2>3, <2>5
    <3>2. Orphans' \subseteq Orphans
      BY <1>3, <1>6, <2>5 DEF Orphans
    <3> QED
      BY <1>1, <3>1, <3>2, CountedStep DEF Accounts, IInv
  <2> QED
    BY <2>4, <2>5
<1>13. Emptied'
  <2>1. phase' = phase
    BY <1>1 DEF kgVars
  <2> QED
    BY <1>1, <1>3, <1>4, <1>6, <2>1 DEF Accounts, Emptied
<1> QED
  BY <1>6, <1>11, <1>12, <1>13 DEF Accounts

\* A process ends while none of its workers has an item or waits for one.
LEMMA ExitAccounts ==
  ASSUME IInv, Queued, Accounts, Queued', NEW w \in Ids, Exit(workers[w].pod),
         workers[w].state \in {"check", "empty"},
         story = "job" => workers[w].state = "empty"
  PROVE  Accounts'
<1>1. PICK p \in Pods : p = workers[w].pod
  BY OneOf DEF IInv, Workers
<1>2. PICK end \in {"down", "exited"} : Ended(p, end)
  BY <1>1 DEF Exit
<1>3. /\ UNCHANGED <<story, queueVars, done, faults>>
      /\ phase' = [phase EXCEPT ![p] = end]
      /\ put' = [h \in Handlers |-> IF put[h] # None /\ put[h].pod = p
                                    THEN [put[h] EXCEPT !.at = "gone"] ELSE put[h]]
  BY <1>1, <1>2 DEF Exit, Ended
<1>4. /\ Ids' = Ids
      /\ \A v \in Ids : workers[v].pod # p => workers'[v] = workers[v]
      /\ \A v \in Ids : workers[v].pod = p =>
           /\ workers'[v].pod = p /\ workers'[v].c = workers[v].c
           /\ workers'[v].item = None
           /\ workers'[v].state = IF workers[v].state \in {"asked", "orphan"}
                                  THEN "orphan" ELSE "finished"
  BY <1>2, EndedWorkers
<1>5. Placed'
  BY <1>3, <1>4, PlacedQuiet DEF Accounts, Placed
<1>6. Solo'
  <2> SUFFICES ASSUME story # "form"
               PROVE  /\ \A h \in Handlers : put'[h] = None
                      /\ \A v \in Ids : Live(v)' => phase'[workers'[v].pod] = "running"
                      /\ \A u, v \in Ids :
                           Live(u)' /\ Live(v)' /\ workers'[u].pod = workers'[v].pod => u = v
    BY <1>3, <1>4 DEF Solo
  <2>1. \A v \in Ids : Live(v)' =>
          Live(v) /\ workers'[v] = workers[v] /\ workers[v].pod # p
    BY <1>4 DEF Live
  <2>2. \A v \in Ids : workers[v].pod # p => phase'[workers[v].pod] = phase[workers[v].pod]
    BY <1>3, OneOf DEF IInv, Typed, Workers
  <2> QED
    BY <1>3, <2>1, <2>2 DEF Accounts, Solo
<1>7. Counted'
  <2>1. CASE story = "form"
    BY <1>3, <2>1 DEF Accounts, Counted
  <2>2. CASE story # "form"
    <3>1. \A v \in Ids : workers[v].pod = p => v = w \/ ~Live(v)
      BY <1>1, <2>2 DEF Accounts, Solo, Live
    <3>2. \A v \in Ids : workers[v].pod = p =>
            workers[v].item = None /\ workers[v].state # "asked"
      BY <3>1 DEF Accounts, Placed, Live
    <3>3. Lost' \subseteq Lost /\ Orphans' \subseteq Orphans
      BY <1>3, <1>4, <3>2, LosesNothing
    <3> QED
      BY <1>3, <3>3, CountedStep DEF Accounts, IInv
  <2> QED
    BY <2>1, <2>2
<1>8. Emptied'
  BY <1>3, <1>4 DEF Accounts, Emptied, queueVars
<1> QED
  BY <1>5, <1>6, <1>7, <1>8 DEF Accounts

\* A crash takes the item of the one worker of its Pod, or leaves its request
\* under way.
LEMMA CrashAccounts ==
  ASSUME IInv, Queued, Accounts, Queued', NEW p \in Pods, Crash(p)
  PROVE  Accounts'
<1>1. /\ Ended(p, "down") /\ faults' = faults + 1
      /\ UNCHANGED <<story, queueVars, done>>
      /\ phase' = [phase EXCEPT ![p] = "down"]
      /\ put' = [h \in Handlers |-> IF put[h] # None /\ put[h].pod = p
                                    THEN [put[h] EXCEPT !.at = "gone"] ELSE put[h]]
  BY DEF Crash, Ended
<1>2. /\ Ids' = Ids
      /\ \A v \in Ids : workers[v].pod # p => workers'[v] = workers[v]
      /\ \A v \in Ids : workers[v].pod = p =>
           /\ workers'[v].pod = p /\ workers'[v].c = workers[v].c
           /\ workers'[v].item = None
           /\ workers'[v].state = IF workers[v].state \in {"asked", "orphan"}
                                  THEN "orphan" ELSE "finished"
  BY <1>1, EndedWorkers
<1>3. Placed'
  BY <1>1, <1>2, PlacedQuiet DEF Accounts, Placed
<1>4. Solo'
  <2> SUFFICES ASSUME story # "form"
               PROVE  /\ \A h \in Handlers : put'[h] = None
                      /\ \A v \in Ids : Live(v)' => phase'[workers'[v].pod] = "running"
                      /\ \A u, v \in Ids :
                           Live(u)' /\ Live(v)' /\ workers'[u].pod = workers'[v].pod => u = v
    BY <1>1, <1>2 DEF Solo
  <2>1. \A v \in Ids : Live(v)' =>
          Live(v) /\ workers'[v] = workers[v] /\ workers[v].pod # p
    BY <1>2 DEF Live
  <2>2. \A v \in Ids : workers[v].pod # p => phase'[workers[v].pod] = phase[workers[v].pod]
    BY <1>1, OneOf DEF IInv, Typed, Workers
  <2> QED
    BY <1>1, <2>1, <2>2 DEF Accounts, Solo
<1>5. Counted'
  <2>1. CASE story = "form"
    BY <1>1, <2>1 DEF Accounts, Counted
  <2>2. CASE \A v \in Ids : workers[v].pod = p => ~Live(v)
    <3>1. \A v \in Ids : workers[v].pod = p =>
            workers[v].item = None /\ workers[v].state # "asked"
      BY <2>2 DEF Accounts, Placed, Live
    <3>2. Lost' \subseteq Lost /\ Orphans' \subseteq Orphans
      BY <1>1, <1>2, <3>1, LosesNothing
    <3> QED
      BY <1>1, <3>2, CountedStep DEF Accounts, IInv
  <2>3. ASSUME NEW w \in Ids, workers[w].pod = p, Live(w), story # "form"
        PROVE  Counted'
    <3>1. \A v \in Ids \ {w} : workers[v].pod = p =>
            workers[v].item = None /\ workers[v].state # "asked"
      BY <2>3 DEF Accounts, Placed, Solo, Live
    <3>2. Lost' \subseteq Lost \cup {workers[w].item}
      BY <1>1, <1>2, <3>1, LosesOne
    <3>3. CASE workers[w].state = "asked"
      <4>1. workers[w].item = None
        BY <3>3 DEF Accounts, Placed
      <4>2. Lost' \subseteq Lost
        <5>1. Lost \cup {None} = Lost \cup {None} /\ None \notin Lost'
          <6>1. Lost' \subseteq 1 .. Items
            BY ConfigAssumption DEF Lost, Queued
          <6> QED
            BY <6>1, NoneIsNone
        <5> QED
          BY <3>2, <4>1, <5>1
      <4>3. Orphans' \subseteq Orphans \cup {w}
        BY <1>2, <3>1 DEF Orphans
      <4> QED
        BY <1>1, <4>2, <4>3, CountedStep DEF Accounts, IInv
    <3>4. CASE workers[w].state # "asked"
      <4>1. Orphans' \subseteq Orphans
        BY <1>2, <3>1, <3>4 DEF Orphans
      <4> QED
        BY <1>1, <3>2, <4>1, CountedStep DEF Accounts, IInv
    <3> QED
      BY <3>3, <3>4
  <2> QED
    BY <2>1, <2>2, <2>3
<1>6. Emptied'
  BY <1>1, <1>2 DEF Accounts, Emptied, queueVars, IInv, Typed
<1> QED
  BY <1>3, <1>4, <1>5, <1>6 DEF Accounts

\* What Restart leaves of the workers, and the one it adds.
LEMMA RestartWorkers ==
  ASSUME Typed, NEW p \in Pods, NEW c \in Config, Restart(p, c)
  PROVE  /\ Ids \subseteq Ids'
         /\ \A w \in Ids :
              /\ workers'[w].pod = workers[w].pod /\ workers'[w].c = workers[w].c
              /\ workers'[w].state = workers[w].state
              /\ workers'[w].item = workers[w].item
         /\ \A w \in Ids' \ Ids : workers'[w] = Worker(p, c)
         /\ \A v, w \in Ids' \ Ids : v = w
<1> DEFINE n == Len(workers)
           new == Worker(p, c)
<1>1. n \in Nat /\ Ids = 1 .. n
  BY Numbered
<1>2. /\ Cancelled(p) \in Seq(Workers) /\ Len(Cancelled(p)) = n
      /\ \A w \in Ids : w # cancel[p] => Cancelled(p)[w] = workers[w]
      /\ \A w \in Ids : w = cancel[p] => Cancelled(p)[w] = [workers[w] EXCEPT !.cancelled = TRUE]
  BY CancelledWorkers
<1>3. \A w \in Ids :
        /\ Cancelled(p)[w].pod = workers[w].pod /\ Cancelled(p)[w].c = workers[w].c
        /\ Cancelled(p)[w].state = workers[w].state
        /\ Cancelled(p)[w].item = workers[w].item
  BY <1>2, OneOf DEF Workers
<1>4. new \in Workers
  BY NoneIsNone DEF Worker, Workers, States
<1> HIDE DEF new
<1>5. CASE c.enable
  <2>1. workers' = Append(Cancelled(p), new)
    BY <1>5 DEF Restart, new
  <2>2. /\ Ids' = 1 .. n + 1 /\ workers'[n + 1] = new
        /\ \A w \in 1 .. n : workers'[w] = Cancelled(p)[w]
    BY <1>1, <1>2, <1>4, <2>1 DEF Ids
  <2> QED
    BY <1>1, <1>3, <2>2 DEF new
<1>6. CASE ~c.enable
  <2>1. workers' = Cancelled(p)
    BY <1>6 DEF Restart
  <2>2. Ids' = Ids
    BY <1>1, <1>2, <2>1 DEF Ids
  <2> QED
    BY <1>3, <2>1, <2>2
<1> QED
  BY <1>5, <1>6

\* A container starts a worker that has nothing yet, the only one of its Pod.
LEMMA StartAccounts ==
  ASSUME IInv, Queued, Accounts, Queued', NEW p \in Pods, Start(p)
  PROVE  Accounts'
<1>1. /\ phase[p] = "down" /\ phase' = [phase EXCEPT ![p] = "running"]
      /\ Restart(p, Flags) /\ UNCHANGED <<story, put, queueVars, done, faults>>
      /\ Typed /\ Flags \in Config
  BY Flagged DEF Start, IInv
<1>2. /\ Ids \subseteq Ids'
      /\ \A w \in Ids :
           /\ workers'[w].pod = workers[w].pod /\ workers'[w].c = workers[w].c
           /\ workers'[w].state = workers[w].state
           /\ workers'[w].item = workers[w].item
      /\ \A w \in Ids' \ Ids : workers'[w] = Worker(p, Flags)
      /\ \A v, w \in Ids' \ Ids : v = w
  BY <1>1, RestartWorkers
<1>3. \A w \in Ids' \ Ids :
        /\ workers'[w].pod = p /\ workers'[w].c = Flags
        /\ workers'[w].state = "check" /\ workers'[w].item = None
  BY <1>2 DEF Worker
<1>4. Placed'
  BY <1>1, <1>2, <1>3, PlacedQuiet DEF Accounts, Placed
<1>5. Solo'
  <2> SUFFICES ASSUME story # "form"
               PROVE  /\ \A h \in Handlers : put'[h] = None
                      /\ \A v \in Ids' : Live(v)' => phase'[workers'[v].pod] = "running"
                      /\ \A u, v \in Ids' :
                           Live(u)' /\ Live(v)' /\ workers'[u].pod = workers'[v].pod => u = v
    BY <1>1 DEF Solo
  <2>1. \A v \in Ids : Live(v)' =>
          /\ Live(v) /\ workers'[v].pod = workers[v].pod
          /\ workers[v].pod \in Pods \ {p} /\ phase'[workers[v].pod] = "running"
    BY <1>1, <1>2, OneOf DEF Accounts, Solo, Live, Typed, Workers
  <2>2. phase'[p] = "running"
    BY <1>1 DEF Typed
  <2> QED
    BY <1>1, <1>2, <1>3, <2>1, <2>2 DEF Accounts, Solo
<1>6. Counted'
  <2>1. Lost' \subseteq Lost /\ Orphans' \subseteq Orphans
    BY <1>1, <1>2, <1>3, LosesNothing
  <2> QED
    BY <1>1, <2>1, CountedStep DEF Accounts, IInv
<1>7. Emptied'
  BY <1>1, <1>2, <1>3 DEF Accounts, Emptied, queueVars, Typed, Flags
<1> QED
  BY <1>4, <1>5, <1>6, <1>7 DEF Accounts

\* Handlers put configurations where no Job runs.
LEMMA HandlerAccounts ==
  ASSUME IInv, Queued, Accounts, NEW h \in Handlers,
         Put(h) \/ LoadConfig(h) \/ RestartWorker(h)
  PROVE  Accounts'
<1>1. story = "form"
  BY DEF Put, LoadConfig, RestartWorker, At, Accounts, Solo
<1>2. UNCHANGED <<story, queueVars, done, faults>>
  BY DEF Put, LoadConfig, RestartWorker
<1>3. /\ Ids \subseteq Ids'
      /\ \A w \in Ids : /\ workers'[w].state = workers[w].state
                        /\ workers'[w].item = workers[w].item
      /\ \A w \in Ids' \ Ids : workers'[w].item = None
  <2>1. CASE workers' = workers
    BY <2>1 DEF Ids
  <2>2. CASE RestartWorker(h)
    <3>1. PICK p \in Pods, c \in Config : Restart(p, c)
      <4>1. put[h] \in Puts
        BY <2>2 DEF RestartWorker, At, IInv, Typed
      <4> QED
        BY <2>2, <4>1 DEF RestartWorker, Stored, Puts, IInv, Typed
    <3>2. /\ Ids \subseteq Ids'
          /\ \A w \in Ids : /\ workers'[w].state = workers[w].state
                            /\ workers'[w].item = workers[w].item
          /\ \A w \in Ids' \ Ids : workers'[w] = Worker(p, c)
      BY <3>1, RestartWorkers DEF IInv
    <3>3. Worker(p, c).item = None
      BY DEF Worker
    <3> QED
      BY <3>2, <3>3
  <2> QED
    BY <2>1, <2>2 DEF Put, LoadConfig
<1>4. Placed'
  BY <1>2, <1>3, PlacedQuiet DEF Accounts, Placed
<1> QED
  BY <1>1, <1>2, <1>4 DEF Accounts, Solo, Counted, Emptied

\* The producer: what it enqueues was nowhere before.
LEMMA ProducerAccounts ==
  ASSUME IInv, Queued, Accounts, Queued', CreateQueue \/ Enqueue
  PROVE  Accounts'
<1>1. /\ UNCHANGED <<story, kgVars, workers, done, faults>>
      /\ UNCHANGED <<phase, put>> /\ Ids' = Ids
  BY DEF CreateQueue, Enqueue, kgVars, Ids
<1>2. Solo' /\ Orphans' \subseteq Orphans
  BY <1>1 DEF Accounts, Solo, Live, Orphans
<1>3. \A k : Held(k)' <=> Held(k)
  BY <1>1 DEF Held
<1>4. CASE CreateQueue
  <2>1. queue = None /\ queue' = <<>> /\ produced' = produced
    BY <1>4 DEF CreateQueue
  <2>2. \A k : ~InQueue(k)'
    BY <2>1 DEF InQueue
  <2>3. Placed'
    BY <1>1, <1>3, <2>1, <2>2 DEF Accounts, Placed
  <2>4. Lost' \subseteq Lost
    BY <1>1, <2>1 DEF Lost
  <2>5. Emptied'
    BY <1>1, <2>1 DEF Accounts, Emptied
  <2> QED
    BY <1>1, <1>2, <2>3, <2>4, <2>5, CountedStep DEF Accounts, IInv
<1>5. CASE Enqueue
  <2> DEFINE k == produced + 1
  <2>1. /\ queue \in Seq(1 .. Items) /\ queue # None /\ produced < Items
        /\ queue' = Append(queue, k) /\ produced' = k
        /\ produced \in Nat /\ Items \in Nat /\ k \in 1 .. Items
    BY <1>5, ConfigAssumption DEF Enqueue, Queued
  <2>2. /\ Len(queue) \in Nat /\ Len(queue') = Len(queue) + 1
        /\ queue'[Len(queue) + 1] = k
        /\ \A i \in 1 .. Len(queue) : queue'[i] = queue[i]
        /\ queue' # None
    <3>1. /\ Len(queue) \in Nat /\ Len(queue') = Len(queue) + 1
          /\ queue'[Len(queue) + 1] = k
          /\ \A i \in 1 .. Len(queue) : queue'[i] = queue[i]
          /\ queue' \in Seq(1 .. Items)
      BY <2>1, AppendProperties, LenProperties
    <3>2. queue' # None
      BY <3>1, NoneIsNone
    <3> QED
      BY <3>1, <3>2
  <2> HIDE DEF k
  <2>3. ~InQueue(k) /\ ~Held(k) /\ done[k] = 0
    BY <2>1 DEF Accounts, Placed, k
  <2>4. \A j : InQueue(j)' <=> InQueue(j) \/ j = k
    BY <2>1, <2>2 DEF InQueue
  <2>5. Placed'
    <3>1. \A j \in 1 .. Items :
            /\ InQueue(j)' \/ Held(j)' => j <= produced' /\ done[j] = 0
            /\ done[j] = 1 => j <= produced'
            /\ ~(InQueue(j)' /\ Held(j)')
      BY <1>3, <2>1, <2>3, <2>4 DEF Accounts, Placed, k
    <3>2. \A i, j \in 1 .. Len(queue') : queue'[i] = queue'[j] => i = j
      <4>1. \A i \in 1 .. Len(queue) : queue[i] # k
        BY <2>1, <2>3 DEF InQueue
      <4> QED
        BY <2>1, <2>2, <4>1 DEF Accounts, Placed
    <3> QED
      BY <1>1, <3>1, <3>2 DEF Accounts, Placed
  <2>6. Lost' \subseteq Lost
    <3> SUFFICES ASSUME NEW j \in Lost' PROVE j \in Lost
      OBVIOUS
    <3>1. /\ j \in 1 .. k /\ done[j] = 0 /\ ~InQueue(j)' /\ ~Held(j)'
      BY <1>1, <2>1, <2>2 DEF Lost, InQueue, Held
    <3>2. j \in 1 .. produced /\ ~InQueue(j) /\ ~Held(j)
      BY <1>3, <2>1, <2>4, <3>1 DEF k
    <3> QED
      BY <3>1, <3>2, LostMeans
  <2>7. story # "job"
    BY <2>1 DEF Accounts, Emptied
  <2>8. Emptied'
    BY <1>1, <2>7 DEF Emptied
  <2> QED
    BY <1>1, <1>2, <2>5, <2>6, <2>8, CountedStep DEF Accounts, IInv
<1> QED
  BY <1>4, <1>5

\* The steps of a worker on its own.
LEMMA WorkAccounts ==
  ASSUME IInv, Queued, Accounts, Queued', NEW w \in Ids, Work(w)
  PROVE  Accounts'
<1>1. ASSUME Complete(w), In(w, "check"), ~workers[w].c.memq PROVE Accounts'
  <2>1. story # "job"
    BY <1>1, JobAssumption DEF Accounts, Emptied
  <2>2. workers[w].item = None /\ Live(w)
    BY <1>1 DEF In, Accounts, Placed, Live
  <2>3. CASE workers[w].c.exit
    BY <1>1, <2>1, <2>3, ExitAccounts DEF Complete, In
  <2>4. CASE ~workers[w].c.exit
    BY <1>1, <2>2, <2>4, BecomesAccounts DEF Complete, States
  <2> QED
    BY <2>3, <2>4
<1>2. ASSUME NEW state \in {"finished", "generate", "asked"}, In(w, "check"),
             Becomes(w, state), UNCHANGED <<story, queueVars, done, faults>>
      PROVE  Accounts'
  <2>1. workers[w].item = None /\ Live(w)
    BY <1>2 DEF In, Accounts, Placed, Live
  <2> QED
    BY <1>2, <2>1, BecomesAccounts DEF States
<1>3. CASE workloadIsDone(w)
  BY <1>1, <1>2, <1>3 DEF workloadIsDone
<1>4. CASE memQWorkerIsDone(w)
  BY <1>2, <1>4 DEF memQWorkerIsDone
<1>5. CASE generateKey(w)
  BY <1>5, GenerateAccounts
<1>6. CASE Receive(w)
  <2>1. CASE In(w, "answered") /\ Becomes(w, "generate") /\ UNCHANGED <<story, queueVars, done, faults>>
    BY <2>1, BecomesAccounts DEF In, Live, States
  <2>2. CASE In(w, "empty") /\ Exit(workers[w].pod)
    BY <2>2, ExitAccounts DEF In
  <2>3. CASE /\ In(w, "error") \/ In(w, "empty")
             /\ Becomes(w, "check") /\ UNCHANGED <<story, queueVars, done, faults>>
    <3>1. workers[w].item = None /\ Live(w)
      BY <2>3 DEF In, Accounts, Placed, Live
    <3> QED
      BY <2>3, <3>1, BecomesAccounts DEF States
  <2> QED
    BY <1>6, <2>1, <2>2, <2>3 DEF Receive, Empty, Again
<1> QED
  BY <1>3, <1>4, <1>5, <1>6 DEF Work

\* Every step accounts for every item.
LEMMA NextAccounts == ASSUME IInv, Queued, Accounts, [Next]_vars PROVE Accounts'
<1>1. Queued'
  BY QueuedStep
<1>2. ASSUME NEW p \in Pods, Start(p) \/ Crash(p) PROVE Accounts'
  BY <1>1, <1>2, StartAccounts, CrashAccounts
<1>3. ASSUME NEW h \in Handlers, Put(h) \/ LoadConfig(h) \/ RestartWorker(h)
      PROVE  Accounts'
  BY <1>3, HandlerAccounts
<1>4. ASSUME NEW w \in Ids, Work(w) \/ Expire(w) \/ Dequeue(w) \/ Lose(w)
      PROVE  Accounts'
  BY <1>1, <1>4, WorkAccounts, ExpireAccounts, NoItemAccounts, ItemAccounts, LoseAccounts
<1>5. CASE CreateQueue \/ Enqueue
  BY <1>1, <1>5, ProducerAccounts
<1>6. CASE UNCHANGED vars
  <2>1. /\ story' = story /\ workers' = workers /\ done' = done
        /\ queue' = queue /\ produced' = produced /\ faults' = faults
        /\ phase' = phase /\ put' = put
    BY <1>6 DEF vars, kgVars, queueVars
  <2>2. Placed'
    BY <2>1 DEF Accounts, Placed, Ids, InQueue, Held
  <2>3. Solo'
    BY <2>1 DEF Accounts, Solo, Ids, Live
  <2>4. Counted'
    BY <2>1 DEF Accounts, Counted, Lost, Orphans, Ids
  <2>5. Emptied'
    BY <2>1 DEF Accounts, Emptied, Ids
  <2> QED BY <2>2, <2>3, <2>4, <2>5 DEF Accounts
<1> QED
  BY <1>2, <1>3, <1>4, <1>5, <1>6 DEF Next

\* Before the first step every item is in the queue or not produced.
LEMMA InitAccounts == ASSUME Init PROVE Accounts
<1>1. /\ Ids = {} /\ Queued /\ Typed
      /\ Items \in Nat
  BY InitIInv, ConfigAssumption DEF Init, Ids, IInv
<1>2. story = "job" => /\ produced = Items /\ queue = [k \in 1 .. Items |-> k]
                       /\ Len(queue) = Items /\ queue # None
  <2>1. ASSUME story = "job" PROVE queue \in Seq(1 .. Items) /\ Len(queue) = Items
    BY <1>1, <2>1 DEF Init
  <2> QED
    BY <2>1, NoneIsNone DEF Init
<1>3. story # "job" => queue = None /\ produced = 0
  BY DEF Init
<1>4. \A k \in 1 .. Items : done[k] = 0 /\ ~Held(k)
  BY <1>1 DEF Init, Held
<1>5. Placed
  <2>1. done \in [1 .. Items -> {0, 1}]
    BY DEF Init
  <2> QED
    BY <1>1, <1>2, <1>3, <1>4, <2>1 DEF Placed, InQueue
<1>6. Lost = {}
  BY <1>1, <1>2, <1>3 DEF Lost, Init
<1>7. Orphans = {}
  BY <1>1 DEF Orphans
<1>8. Counted
  BY <1>6, <1>7, FS_EmptySet DEF Counted, Init
<1>9. Solo /\ Emptied
  BY <1>1, <1>2 DEF Solo, Emptied, Init
<1> QED
  BY <1>5, <1>8, <1>9 DEF Accounts

\* Of every state.
LEMMA AccountsHold == Spec => []Accounts
<1>1. Init => Accounts
  BY InitAccounts
<1>2. IInv /\ Queued /\ Accounts /\ [Next]_vars => Accounts'
  BY NextAccounts
<1> QED
  BY <1>1, <1>2, Inductive, PTL DEF Spec

-----------------------------------------------------------------------------
\* Restarts leave no worker that nobody can cancel.
THEOREM OneWorker == Spec => []OneLiveWorker
<1>1. IInv /\ Queued => OneLiveWorker
  BY IInvImplies
<1> QED
  BY <1>1, Inductive, PTL

\* However PUTs mix, what runs is what is stored when they have ended.
THEOREM ConfigRuns == Spec => []RunsTheConfig
<1>1. IInv /\ Queued => RunsTheConfig
  BY IInvImplies
<1> QED
  BY <1>1, Inductive, PTL

\* A cancelled worker generates at most the key that it was at.
THEOREM WorkerStops == Spec => []StopsSoon
<1>1. IInv /\ Queued => StopsSoon
  BY IInvImplies
<1> QED
  BY <1>1, Inductive, PTL

\* No item is done twice, and a Job loses at most one item by fault, whether
\* the fault came before the broker took the item, after, or between.
THEOREM ItemsAccounted == Spec => []Accounted
<1>1. IInv /\ Queued /\ Accounts => Accounted
  <2> SUFFICES ASSUME IInv, Queued, Accounts PROVE Accounted
    OBVIOUS
  <2>1. \A k \in 1 .. Items : done[k] <= 1
    BY DEF Accounts, Placed
  <2>2. ASSUME story # "form" PROVE Cardinality(Lost) <= faults
    <3>1. Cardinality(Lost) \in Nat /\ Cardinality(Orphans) \in Nat /\ faults \in Nat
      BY LossesFinite DEF IInv, Accounts, Counted
    <3>2. Cardinality(Lost) + Cardinality(Orphans) <= faults
      BY <2>2 DEF Accounts, Counted
    <3> QED
      BY <3>1, <3>2
  <2> QED
    BY <2>1, <2>2 DEF Accounted
<1> QED
  BY <1>1, Inductive, AccountsHold, PTL

\* A Pod of a Job that was loaded before completes only when the queue is
\* empty, and it stays so.
THEOREM JobLeavesNothing == Spec => []NothingLeft
<1>1. Accounts => NothingLeft
  BY DEF Accounts, Emptied, NothingLeft
<1> QED
  BY <1>1, AccountsHold, PTL
=============================================================================
