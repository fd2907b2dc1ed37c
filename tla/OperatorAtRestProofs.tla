------------------------ MODULE OperatorAtRestProofs ------------------------
(***************************************************************************)
(* What the Multiplicador operator has achieved when it has nothing left   *)
(* to do, for any CRs, workers, specs and bounds, if no call of it fails.  *)
(* Every CR is pending (an event, a retry or the queue will bring a worker *)
(* to it), or a worker with a current copy is seeing to it, or everything  *)
(* it asks for is there, its route in a shared proxy too if the CRs that   *)
(* share it are peaceful; and the queue forgets nothing that is pending.   *)
(***************************************************************************)
EXTENDS OperatorProofs

(* The work queue forgets nothing. *)
\* A dirty key is in the queue or with the worker who will put it there, and
\* what is being processed is with a worker.
DirtyQueued ==
  \A c \in wq.dirty : \/ c \in wq.processing
                      \/ \E i \in DOMAIN wq.queue : wq.queue[i] = c
ProcessingHeld == \A c \in wq.processing : \E w \in Workers : key[w] = c
\* Together: the queue forgets no key.
NothingForgotten == DirtyQueued /\ ProcessingHeld

\* Add forgets nothing,
LEMMA AddsForgetsNothing ==
  ASSUME QueueInv, NothingForgotten, NEW c \in CRs, Adds(c)
  PROVE  NothingForgotten'
<1> USE DEF QueueInv, QueueTypes, NothingForgotten, DirtyQueued, ProcessingHeld, Adds
<1>1. CASE c \in wq.dirty
  BY <1>1 DEF Q!Add
<1>2. CASE c \notin wq.dirty /\ c \in wq.processing
  <2>1. wq' = [wq EXCEPT !.dirty = @ \cup {c}]
    BY <1>2 DEF Q!Add
  <2> QED BY <1>2, <2>1
<1>3. CASE c \notin wq.dirty /\ c \notin wq.processing
  <2>1. wq' = [wq EXCEPT !.dirty = @ \cup {c}, !.queue = Append(@, c)]
    BY <1>3 DEF Q!Add
  <2>2. /\ wq'.queue = Append(wq.queue, c)
        /\ wq'.dirty = wq.dirty \cup {c}
        /\ wq'.processing = wq.processing
    BY <2>1
  <2>3. /\ \A i \in DOMAIN wq.queue :
              i \in DOMAIN wq'.queue /\ wq'.queue[i] = wq.queue[i]
        /\ \E i \in DOMAIN wq'.queue : wq'.queue[i] = c
    BY <2>2
  <2>4. DirtyQueued' BY <2>2, <2>3
  <2> QED BY <2>2, <2>4
<1> QED BY <1>1, <1>2, <1>3

\* Get hands over what it takes,
LEMMA TakesForgetsNothing ==
  ASSUME QueueInv, NothingForgotten, NEW w \in Workers, key[w] = Nil, Takes(w)
  PROVE  NothingForgotten'
<1> USE DEF QueueInv, QueueTypes, NothingForgotten, DirtyQueued, ProcessingHeld, Takes
<1> DEFINE c == Head(wq.queue)
<1>1. /\ wq'.queue = Tail(wq.queue)
      /\ wq'.dirty = wq.dirty \ {c}
      /\ wq'.processing = wq.processing \cup {c}
      /\ key' = [key EXCEPT ![w] = c] /\ c = wq.queue[1]
  BY DEF Q!Get
<1>2. \A i \in DOMAIN wq.queue : i # 1 =>
        i - 1 \in DOMAIN Tail(wq.queue) /\ Tail(wq.queue)[i - 1] = wq.queue[i]
  OBVIOUS
<1>3. DirtyQueued'
  <2> SUFFICES ASSUME NEW d \in wq.dirty, d # c, d \notin wq.processing
               PROVE  \E i \in DOMAIN wq'.queue : wq'.queue[i] = d
    BY <1>1
  <2>1. PICK i \in DOMAIN wq.queue : wq.queue[i] = d OBVIOUS
  <2>2. i # 1 BY <1>1, <2>1
  <2>3. i - 1 \in DOMAIN wq'.queue /\ wq'.queue[i - 1] = d
    BY <1>1, <1>2, <2>1, <2>2
  <2> QED BY <2>3
<1>4. ProcessingHeld'
  <2> SUFFICES ASSUME NEW d \in wq'.processing
               PROVE  \E v \in Workers : key'[v] = d
    OBVIOUS
  <2>1. CASE d = c BY <1>1, <2>1
  <2>2. CASE d # c
    <3>1. PICK v \in Workers : key[v] = d BY <1>1, <2>2
    <3>2. d # Nil BY <1>1, <2>2, NilAssumption
    <3> QED BY <1>1, <3>1, <3>2
  <2> QED BY <2>1, <2>2
<1> QED BY <1>3, <1>4

\* and Done puts back what became dirty meanwhile.
LEMMA ReleaseForgetsNothing ==
  ASSUME QueueInv, NothingForgotten, NEW w \in Workers, key[w] # Nil, Release(w)
  PROVE  NothingForgotten'
<1> USE DEF QueueInv, QueueTypes, NothingForgotten, DirtyQueued, ProcessingHeld,
            Release
<1>1. /\ wq'.dirty = wq.dirty
      /\ wq'.processing = wq.processing \ {key[w]}
      /\ wq'.queue = IF key[w] \in wq.dirty THEN Append(wq.queue, key[w])
                     ELSE wq.queue
      /\ key' = [key EXCEPT ![w] = Nil]
  BY DEF Q!Done
<1>2. \A i \in DOMAIN wq.queue :
        i \in DOMAIN wq'.queue /\ wq'.queue[i] = wq.queue[i]
  BY <1>1
<1>3. key[w] \in wq.dirty => \E i \in DOMAIN wq'.queue : wq'.queue[i] = key[w]
  BY <1>1
<1>4. DirtyQueued' BY <1>1, <1>2, <1>3
<1>5. ProcessingHeld'
  <2> SUFFICES ASSUME NEW d \in wq.processing, d # key[w]
               PROVE  \E v \in Workers : key'[v] = d
    BY <1>1
  <2>1. PICK v \in Workers : key[v] = d OBVIOUS
  <2> QED BY <1>1, <2>1
<1> QED BY <1>4, <1>5

\* A key that was enqueued is in the queue or with a worker until a worker has
\* taken it anew: the work queue of the operator (main.go:78) loses no key.
\* A restart empties it, and the informers add every CR again.
THEOREM NothingForgottenInvariance == Spec => []NothingForgotten
<1>1. Init => NothingForgotten
  BY DEF Init, NothingForgotten, DirtyQueued, ProcessingHeld, Q!EmptyQueue
<1>2. TypeInv /\ QueueInv /\ NothingForgotten /\ [Next]_vars => NothingForgotten'
  <2> SUFFICES ASSUME TypeInv, QueueInv, NothingForgotten, [Next]_vars
               PROVE  NothingForgotten'
    OBVIOUS
  <2>1. CASE Idle
    BY <2>1 DEF Idle, NothingForgotten, DirtyQueued, ProcessingHeld
  <2>2. CASE Users \/ Cluster BY <2>1, <2>2, OtherShape, AddsForgetsNothing
  <2>3. CASE Restart
    BY <2>3 DEF Restart, NothingForgotten, DirtyQueued, ProcessingHeld,
                Q!EmptyQueue
  <2>4. ASSUME NEW w \in Workers, Take(w) PROVE NothingForgotten'
    <3>1. key[w] = Nil BY <2>4 DEF Take, TypeInv, WorkersTyped, Entry
    <3>2. Takes(w) BY <2>4 DEF Take, Takes
    <3> QED BY <3>1, <3>2, TakesForgetsNothing
  <2>5. ASSUME NEW w \in Workers, Reconcile(w) PROVE NothingForgotten'
    <3>1. pc[w] # "idle"
      BY <2>5, ReconcileIs, WorksInUse DEF GetCR, InUse
    <3>2. key[w] # Nil
      BY <3>1, NilAssumption DEF TypeInv, WorkersTyped, Entry
    <3> QED BY <2>1, <2>5, <3>2, ReconcileShape, ReleaseForgetsNothing
  <2>6. CASE UNCHANGED vars BY <2>1, <2>6 DEF vars, Idle
  <2> QED BY <2>2, <2>3, <2>4, <2>5, <2>6 DEF Next
<1> QED BY <1>1, <1>2, TypeInvariance, QueueInvariance, PTL DEF Spec

-----------------------------------------------------------------------------
(* What is seen to. *)
\* An event, a retry or the queue will bring the operator back to c.
Pending(c) == c \in events \cup delayed \cup wq.dirty

\* The Deployment is as the CR asks,
DeploymentRight(c) ==
  store[<<"deployment", c>>] = [owners |-> {Self(c)}, config |-> Wanted(c).mult]
\* and the Service.
ServiceRight(c) ==
  store[<<"service", c>>] = [owners |-> {Self(c)}, config |-> 8080]
\* Everything the two properties at rest ask of one CR.
Right(c) ==
  /\ Valid(c) => DeploymentRight(c) /\ ServiceRight(c)
  /\ StatusAllowed /\ StatusKept /\ Lives(c) =>
       store[CR(c)].status = Wanted(c).mult

\* The labels that come after the Service,
AfterService ==
  {"old_get", "old_write", "proxy_get", "proxy_create", "proxy_update",
   "record", "status", "fallback"}
\* and after the Deployment.
AfterDeployment ==
  AfterService \cup {"service_get", "service_create", "service_update"}

\* The worker has a current copy, and has seen to what comes before its label.
SoFar(w) ==
  /\ CR(key[w]) \in seen[w] /\ ~made[w]
  /\ Valid(key[w]) /\ pc[w] \in AfterDeployment => DeploymentRight(key[w])
  /\ Valid(key[w]) /\ pc[w] \in AfterService => ServiceRight(key[w])
  /\ pc[w] = "fallback" => ~StatusAllowed

\* A CR is being seen to, or will be, or is right.
InProgress == \A w \in Workers : InUse(w) => Pending(key[w]) \/ SoFar(w)
AtRest ==
  \A c \in CRs : (\A w \in Workers : key[w] # c) => Pending(c) \/ Right(c)
\* Only a worker in the middle of a reconciliation has made anything.
NotMade == \A w \in Workers : ~InUse(w) => ~made[w]
\* Together.
SeenTo == InProgress /\ AtRest /\ NotMade

-----------------------------------------------------------------------------
\* What concerns c is as it was, and so are the copies of its CR.  The garbage
\* collector may delete a Service that is not right, and that is no event.
Still(c) ==
  /\ store'[CR(c)] = store[CR(c)]
  /\ store'[<<"deployment", c>>] = store[<<"deployment", c>>]
  /\ Valid(c) /\ ServiceRight(c) =>
       store'[<<"service", c>>] = store[<<"service", c>>]
  /\ \A v \in Workers :
       key[v] = c /\ CR(c) \in seen[v] => CR(c) \in seen'[v]

\* A step that writes nothing leaves what concerns c alone,
LEMMA UntouchedStill ==
  ASSUME NEW c \in CRs, Untouched
  PROVE  Still(c)
  BY DEF Untouched, Still

\* a read too,
LEMMA ReadStill ==
  ASSUME Watched, NEW c \in CRs, NEW w \in Workers, NEW id, Read(w, id)
  PROVE  Still(c)
  BY DEF Watched, SeenTyped, Read, Still

\* and a write of something else.
LEMMA PutStill ==
  ASSUME Watched, NEW c \in CRs, NEW id \in Ids, NEW val, Put(id, val),
         id \notin {CR(c), <<"deployment", c>>, <<"service", c>>}
  PROVE  Still(c)
<1>1. CR(c) \in Ids /\ <<"deployment", c>> \in Ids /\ <<"service", c>> \in Ids
  BY NameOf
<1> QED BY <1>1 DEF Watched, StoreTyped, SeenTyped, Put, Still

\* A write that changes the CR or its Deployment is an event.
LEMMA PutTells ==
  ASSUME Watched, NEW c \in CRs, NEW id \in {CR(c), <<"deployment", c>>},
         NEW val, Put(id, val)
  PROVE  c \in events' \/ (val = store[id] /\ Untouched)
<1>1. id \in Ids /\ id[1] \in {"cr", "deployment"} /\ id[2] = c
  <2>1. CASE id = CR(c) BY <2>1, NameOf
  <2>2. CASE id = <<"deployment", c>> BY <2>2, NameOf
  <2> QED BY <2>1, <2>2
<1>2. CASE val = store[id]
  <2>1. store' = store BY <1>1, <1>2 DEF Watched, StoreTyped, Put
  <2>2. seen' = seen BY <1>2 DEF Watched, SeenTyped, Put
  <2>3. events' = events BY <1>2 DEF Put
  <2> QED BY <1>2, <2>1, <2>2, <2>3 DEF Untouched
<1>3. CASE val # store[id]
  BY <1>1, <1>3 DEF Put
<1> QED BY <1>2, <1>3

\* No write takes an event away.
LEMMA PutEvents ==
  ASSUME NEW id, NEW val, Put(id, val)
  PROVE  events \subseteq events'
  BY DEF Put

\* What was right stays right while nothing of it changes.
LEMMA StillRight ==
  ASSUME NEW c \in CRs, Still(c)
  PROVE  /\ Right(c) => Right(c)'
         /\ Valid(c)' <=> Valid(c)
         /\ DeploymentRight(c) => DeploymentRight(c)'
         /\ Valid(c) /\ ServiceRight(c) => ServiceRight(c)'
<1>1. /\ Valid(c)' <=> Valid(c)
      /\ Lives(c)' <=> Lives(c)
  BY DEF Still, Valid, Lives, Wanted
<1>2. /\ Self(c)' = Self(c) /\ Wanted(c)' = Wanted(c)
  BY DEF Still, Self, Wanted
<1>3. DeploymentRight(c) => DeploymentRight(c)'
  BY <1>2 DEF Still, DeploymentRight
<1>4. Valid(c) /\ ServiceRight(c) => ServiceRight(c)'
  BY <1>2 DEF Still, ServiceRight
<1>5. store'[CR(c)].status = Wanted(c)'.mult
        <=> store[CR(c)].status = Wanted(c).mult
  BY DEF Still, Wanted
<1> QED BY <1>1, <1>3, <1>4, <1>5 DEF Right

-----------------------------------------------------------------------------
\* What a step of a worker makes of its CR.
Outcome(w, c) ==
  \/ Pending(c)'
  \/ InUse(w)' /\ key'[w] = c /\ SoFar(w)'
  \/ ~InUse(w)' /\ key'[w] = Nil /\ made'[w] = FALSE /\ Right(c)'

\* The end of a reconciliation is a retry, or everything is right.
LEMMA FinishOutcome ==
  ASSUME TypeInv, NEW w \in Workers, NEW c \in CRs, c = key[w],
         NEW err, Finish(w, err), err \/ Right(c)'
  PROVE  Outcome(w, c)
<1>1. CASE err
  BY <1>1 DEF Finish, Outcome, Pending
<1>2. CASE Right(c)'
  <2>1. key'[w] = Nil /\ pc'[w] = "idle" /\ made'[w] = FALSE
    BY DEF Finish, Goto, TypeInv, WorkersTyped
  <2> QED BY <1>2, <2>1 DEF Outcome, InUse
<1> QED BY <1>1, <1>2

\* To go on to a label whose promises are kept.
LEMMA MovedOutcome ==
  ASSUME TypeInv, NEW w \in Workers, NEW c \in CRs, c = key[w],
         NEW l \in Labels \ {"idle", "get"},
         NEW x, NEW o, Moved(w, l, key[w], x, o, FALSE),
         CR(c) \in seen'[w],
         Valid(c)' /\ l \in AfterDeployment => DeploymentRight(c)',
         Valid(c)' /\ l \in AfterService => ServiceRight(c)',
         l = "fallback" => ~StatusAllowed
  PROVE  Outcome(w, c)
<1>1. key'[w] = c /\ pc'[w] = l /\ made'[w] = FALSE
  BY DEF Moved, TypeInv, WorkersTyped
<1>2. Valid(key[w])' <=> Valid(c)'
  BY <1>1 DEF Valid, Lives, Wanted
<1>3. /\ DeploymentRight(key[w])' <=> DeploymentRight(c)'
      /\ ServiceRight(key[w])' <=> ServiceRight(c)'
  BY <1>1 DEF DeploymentRight, ServiceRight, Self, Wanted
<1>4. CR(key'[w]) = CR(c) BY <1>1
<1> HIDE DEF Valid, DeploymentRight, ServiceRight
<1>5. SoFar(w)' BY <1>1, <1>2, <1>3, <1>4 DEF SoFar
<1> QED BY <1>1, <1>5 DEF Outcome, InUse

\* A step that leaves what concerns c alone and goes to l.
LEMMA StillOutcome ==
  ASSUME TypeInv, NEW w \in Workers, NEW c \in CRs, c = key[w],
         NEW l \in Labels \ {"idle", "get"},
         NEW x, NEW o, Moved(w, l, key[w], x, o, made[w]), SoFar(w), Still(c),
         Valid(c) /\ l \in AfterDeployment => DeploymentRight(c),
         Valid(c) /\ l \in AfterService => ServiceRight(c),
         l = "fallback" => ~StatusAllowed
  PROVE  Outcome(w, c)
<1>1. made[w] = FALSE BY DEF TypeInv, WorkersTyped, SoFar
<1>2. CR(c) \in seen'[w] BY DEF SoFar, Still
<1> QED BY <1>1, <1>2, StillRight, MovedOutcome

\* Without faults no call fails.
LEMMA NoFaults ==
  ASSUME TypeInv, MaxFaults = 0, NEW ok \in BOOLEAN, Call(ok)
  PROVE  ok
  BY DEF TypeInv, Counted, Call

\* A worker with a current copy wants what its CR asks for.
LEMMA CopyTells ==
  ASSUME TypeInv, Copies, NEW w \in Workers, NEW c \in CRs, c = key[w],
         InUse(w), SoFar(w)
  PROVE  /\ store[CR(c)] \in CRTypes
         /\ u[w].spec = Wanted(c) /\ Owner(w) = Self(c)
         /\ Desired("deployment", w) =
              [owners |-> {Self(c)}, config |-> Wanted(c).mult]
         /\ Desired("service", w) = [owners |-> {Self(c)}, config |-> 8080]
<1>1. CR(c) \in seen[w] BY DEF SoFar
<1>2. store[CR(c)] \in CRTypes
  BY <1>1, NameOf DEF TypeInv, Watched, StoreTyped, SeenTyped, Typed, Maybe
<1>3. Agrees(u[w], store[CR(c)]) BY <1>1 DEF Copies, CopiesFaithful, Faithful
<1>4. u[w].spec = Wanted(c) /\ Owner(w) = Self(c)
  BY <1>3 DEF Agrees, Wanted, Owner, Self
<1>5. Config("deployment", w) = Wanted(c).mult /\ Config("service", w) = 8080
  BY <1>4 DEF Config
<1> QED BY <1>2, <1>4, <1>5 DEF Desired

\* What the worker finds up to date is what it would have created.
LEMMA UpToDateIs ==
  ASSUME TypeInv, Copies, NEW w \in Workers, NEW c \in CRs, c = key[w],
         NEW kind \in Kinds, store[<<kind, c>>] # Nil, UpToDate(kind, w)
  PROVE  store[<<kind, c>>] = Desired(kind, w)
<1> DEFINE x == store[<<kind, c>>]
<1>1. x \in ChildTypes
  BY ChildId DEF TypeInv, Watched, StoreTyped, Typed, Maybe, Kinds
<1>2. PICK i \in Uids : x.owners \subseteq {<<c, i>>}
  BY DEF Copies, OneOwner
<1>3. Owner(w) \in x.owners /\ x.config = Config(kind, w)
  BY DEF UpToDate
<1>4. x.owners = {Owner(w)} BY <1>2, <1>3
<1>5. x = [owners |-> x.owners, config |-> x.config] BY <1>1 DEF ChildTypes
<1> HIDE DEF x
<1>6. x = Desired(kind, w) BY <1>3, <1>4, <1>5 DEF Desired
<1> QED BY <1>6 DEF x

\* An attempt to put the CR is an event, or changes nothing.
LEMMA TryStill ==
  ASSUME TypeInv, NEW w \in Workers, NEW c \in CRs, c = key[w],
         NEW ok, Try(w, ok)
  PROVE  Pending(c)' \/ Still(c)
<1>1. Untouched \/ \E val : Put(CR(c), val)
  BY DEF Try, PutCR
<1> QED BY <1>1, UntouchedStill, PutTells DEF Pending, TypeInv

\* A step to a label that promises no more than the present one.
LEMMA ProceedOutcome ==
  ASSUME TypeInv, NEW w \in Workers, NEW c \in CRs, c = key[w],
         NEW l \in Labels \ {"idle", "get", "fallback"}, Proceed(w, l),
         SoFar(w), Still(c),
         l \in AfterDeployment => pc[w] \in AfterDeployment,
         l \in AfterService => pc[w] \in AfterService
  PROVE  Outcome(w, c)
<1>1. Moved(w, l, key[w], u[w], obj[w], made[w])
  BY ProceedMoves DEF TypeInv
<1> QED BY <1>1, StillOutcome DEF SoFar

\* The labels of the steps below.
LEMMA AllLabels ==
  /\ Simple \subseteq Labels \ {"idle", "get"}
  /\ {"old_get", "old_write", "clean_get", "clean_write", "proxy_update"}
       \subseteq Labels \ {"idle", "get", "fallback"}
<1>1. Simple \subseteq Labels \ {"idle", "get"} BY SimpleLabels DEF Simple
<1> QED BY <1>1 DEF Labels

\* What each call makes of the CR: the annotations,
LEMMA AnnotateOutcome ==
  ASSUME TypeInv, NEW w \in Workers, NEW c \in CRs, c = key[w],
         NEW ok, Annotate(w, ok) \/ Record(w, ok), SoFar(w)
  PROVE  Outcome(w, c)
<1>1. CASE Pending(c)' BY <1>1 DEF Outcome
<1>2. CASE Still(c)
  <2>1. CASE Annotate(w, ok)
    <3>1. Proceed(w, "deployment_get") BY <2>1 DEF Annotate
    <3> QED BY <1>2, <3>1, AllLabels, ProceedOutcome
            DEF Simple, AfterDeployment, AfterService
  <2>2. CASE Record(w, ok)
    <3>1. Proceed(w, "status") /\ pc[w] = "record"
      BY <2>2 DEF Record, SoFar
    <3> QED BY <1>2, <3>1, AllLabels, ProceedOutcome
            DEF Simple, AfterDeployment, AfterService
  <2> QED BY <2>1, <2>2
<1> QED BY <1>1, <1>2, TryStill DEF Annotate, Record

\* the proxy that is left or cleaned up,
LEMMA OldOutcome ==
  ASSUME TypeInv, NEW w \in Workers, NEW c \in CRs, c = key[w],
         NEW ok, LeaveOldProxy(w, ok) \/ cleanupProxyForCR(w, ok), SoFar(w)
  PROVE  Outcome(w, c)
<1> USE DEF TypeInv
<1>1. pc[w] \in {"old_get", "old_write", "clean_get", "clean_write"}
  BY DEF LeaveOldProxy, cleanupProxyForCR, GetOld, WriteOld
<1>2. u[w].ann.proxy \in ProxyNames BY <1>1 DEF WorkersTyped, Entry
<1> DEFINE id == Proxy(u[w].ann.proxy)
<1>3. id \in Ids /\ id \notin {CR(c), <<"deployment", c>>, <<"service", c>>}
  BY <1>2, ProxyId DEF Proxy, CR
<1>4. Still(c)
  <2>1. ASSUME NEW here, NEW there, NEW next, GetOld(w, ok, here, there, next)
        PROVE  Untouched \/ Read(w, id)
    BY <2>1 DEF GetOld
  <2>2. ASSUME NEW here, NEW next, WriteOld(w, ok, here, next)
        PROVE  Put(id, Nil) \/ Put(id, obj[w]) \/ Untouched
    <3> DEFINE useless == obj[w].owners = {} /\ obj[w].routes = {}
    <3>1. CASE ok /\ useless BY <2>2, <3>1 DEF WriteOld
    <3>2. CASE ok /\ ~useless /\ Current(w, id) BY <2>2, <3>2 DEF WriteOld
    <3>3. CASE ~(ok /\ useless) /\ ~(ok /\ ~useless /\ Current(w, id))
      BY <2>2, <3>3 DEF WriteOld
    <3> QED BY <3>1, <3>2, <3>3
  <2>3. Untouched \/ Read(w, id) \/ \E val : Put(id, val)
    BY <2>1, <2>2 DEF LeaveOldProxy, cleanupProxyForCR
  <2> QED BY <1>3, <2>3, UntouchedStill, ReadStill, PutStill
<1>5. ASSUME NEW here \in {"old_get", "clean_get"},
             NEW there \in {"old_write", "clean_write"},
             NEW next \in {"proxy_get", "unfinalize"},
             GetOld(w, ok, here, there, next),
             here = "clean_get" => there = "clean_write" /\ next = "unfinalize"
      PROVE  Outcome(w, c)
  <2>1. pc[w] = here BY <1>5 DEF GetOld
  <2>2. CASE Proceed(w, next)
    BY <1>4, <1>5, <2>1, <2>2, AllLabels, ProceedOutcome
    DEF Simple, AfterDeployment, AfterService
  <2>3. CASE /\ Goto(w, there) /\ Keep /\ UNCHANGED <<u, made>>
             /\ \E new : obj' = [obj EXCEPT ![w] = new]
    <3>1. PICK new : obj' = [obj EXCEPT ![w] = new] BY <2>3
    <3>2. Moved(w, there, key[w], u[w], new, made[w])
      BY <2>3, <3>1 DEF Goto, Keep, Moved, WorkersTyped
    <3>3. there \in Labels \ {"idle", "get", "fallback"} BY AllLabels
    <3> QED BY <1>4, <1>5, <2>1, <3>2, <3>3, StillOutcome
            DEF AfterDeployment, AfterService, SoFar
  <2> QED BY <1>5, <2>2, <2>3 DEF GetOld
<1>6. ASSUME NEW here \in {"old_write", "clean_write"},
             NEW next \in {"proxy_get", "unfinalize"},
             WriteOld(w, ok, here, next),
             here = "clean_write" => next = "unfinalize"
      PROVE  Outcome(w, c)
  <2>1. pc[w] = here /\ Proceed(w, next) BY <1>6 DEF WriteOld
  <2> QED BY <1>4, <1>6, <2>1, AllLabels, ProceedOutcome
      DEF Simple, AfterDeployment, AfterService
<1> QED BY <1>5, <1>6 DEF LeaveOldProxy, cleanupProxyForCR

\* the finalizer, of a CR that is being deleted,
LEMMA UnfinalizeOutcome ==
  ASSUME TypeInv, MaxFaults = 0, NEW w \in Workers, NEW c \in CRs, c = key[w],
         NEW ok \in BOOLEAN, Unfinalize(w, ok), SoFar(w)
  PROVE  Outcome(w, c)
<1>1. ok BY NoFaults DEF Unfinalize
<1>2. Put(CR(c), Nil)
  BY <1>1 DEF Unfinalize, Current, SoFar
<1>3. store[CR(c)] # Nil BY DEF SoFar, TypeInv, Watched, SeenTyped
<1>4. c \in events' BY <1>2, <1>3, PutTells DEF TypeInv
<1> QED BY <1>4 DEF Outcome, Pending

\* the proxy,
LEMMA ProxyOutcome ==
  ASSUME TypeInv, NEW w \in Workers, NEW c \in CRs, c = key[w],
         NEW ok, GetProxy(w, ok) \/ CreateProxy(w, ok) \/ UpdateProxy(w, ok),
         SoFar(w)
  PROVE  Outcome(w, c)
<1> USE DEF TypeInv
<1>1. pc[w] \in {"proxy_get", "proxy_create", "proxy_update"} /\ InUse(w)
  BY DEF GetProxy, CreateProxy, UpdateProxy, InUse
<1>2. u[w] \in CRTypes /\ ProxyOf(w) \in ProxyNames
  BY <1>1, Busy, ProxyOfTyped DEF InUse
<1> DEFINE id == Proxy(ProxyOf(w))
<1>3. id \in Ids /\ id \notin {CR(c), <<"deployment", c>>, <<"service", c>>}
  BY <1>2, ProxyId DEF Proxy, CR
<1>4. Still(c)
  <2>1. Untouched \/ Read(w, id) \/ \E val : Put(id, val)
    BY DEF GetProxy, CreateProxy, UpdateProxy
  <2> QED BY <1>3, <2>1, UntouchedStill, ReadStill, PutStill
<1>5. CASE GetProxy(w, ok)
  <2>1. CASE Proceed(w, "proxy_create")
    BY <1>1, <1>4, <2>1, AllLabels, ProceedOutcome
    DEF Simple, AfterDeployment, AfterService
  <2>2. CASE /\ Goto(w, "proxy_update") /\ Keep /\ UNCHANGED <<u, made>>
             /\ obj' = [obj EXCEPT ![w] = store[id]]
    <3>1. Moved(w, "proxy_update", key[w], u[w], store[id], made[w])
      BY <2>2 DEF Goto, Keep, Moved, WorkersTyped
    <3>2. "proxy_update" \in Labels \ {"idle", "get"} BY AllLabels
    <3> QED BY <1>1, <1>4, <3>1, <3>2, StillOutcome
            DEF AfterDeployment, AfterService, SoFar
  <2> QED BY <1>5, <2>1, <2>2 DEF GetProxy
<1>6. ASSUME NEW finalizer, Remember(w, finalizer) PROVE Outcome(w, c)
  <2>3. PICK x : Moved(w, "record", key[w], x, obj[w], made[w])
    BY <1>1, <1>6, RememberMoves
  <2>4. "record" \in Labels \ {"idle", "get"} BY AllLabels DEF Simple
  <2> QED BY <1>1, <1>4, <2>3, <2>4, StillOutcome
          DEF AfterDeployment, AfterService, SoFar
<1>7. CASE Finish(w, TRUE) BY <1>7, FinishOutcome
<1> QED BY <1>5, <1>6, <1>7 DEF CreateProxy, UpdateProxy

\* the end of the reconciliation,
LEMMA AfterStatusOutcome ==
  ASSUME TypeInv, NEW w \in Workers, NEW c \in CRs, c = key[w],
         NEW err, AfterStatus(w, err), SoFar(w), Right(c)'
  PROVE  Outcome(w, c)
<1>1. Finish(w, err /\ u[w].spec.mult <= 0) BY DEF AfterStatus, SoFar
<1> QED BY <1>1, FinishOutcome

\* and the status, which is the last thing to be right.
LEMMA StatusOutcome ==
  ASSUME TypeInv, Copies, MaxFaults = 0, NEW w \in Workers,
         NEW c \in CRs, c = key[w], NEW ok \in BOOLEAN,
         UpdateStatus(w, ok) \/ Fallback(w, ok), SoFar(w)
  PROVE  Outcome(w, c)
<1> USE DEF TypeInv
<1>1. InUse(w) /\ pc[w] \in {"status", "fallback"} /\ pc[w] \in AfterService
      /\ pc[w] \in AfterDeployment
  BY DEF UpdateStatus, Fallback, InUse, AfterService, AfterDeployment
<1>2. Valid(c) => DeploymentRight(c) /\ ServiceRight(c)
  BY <1>1 DEF SoFar
<1>3. CASE UpdateStatus(w, ok)
  <2>1. ok BY <1>3, NoFaults DEF UpdateStatus
  <2>2. Current(w, CR(c)) BY DEF Current, SoFar
  <2>3. CASE StatusAllowed
    <3> DEFINE told == IF StatusKept THEN u[w].spec.mult ELSE store[CR(c)].status
               new == [store[CR(c)] EXCEPT !.status = told]
    <3>1. Put(CR(c), new) /\ AfterStatus(w, FALSE)
      BY <1>3, <2>1, <2>2, <2>3 DEF UpdateStatus
    <3>2. new.status = told BY <1>1, CopyTells DEF CRTypes
    <3> HIDE DEF new
    <3>3. CASE c \in events' BY <3>3 DEF Outcome, Pending
    <3>4. CASE new = store[CR(c)] /\ Untouched
      <4>1. StatusKept => store[CR(c)].status = Wanted(c).mult
        BY <1>1, <3>2, <3>4, CopyTells
      <4>2. Right(c) BY <1>2, <4>1 DEF Right
      <4>3. Right(c)' BY <3>4, <4>2, UntouchedStill, StillRight
      <4> QED BY <3>1, <4>3, AfterStatusOutcome
    <3> QED BY <3>1, <3>3, <3>4, PutTells
  <2>4. CASE ~StatusAllowed
    <3>1. Untouched /\ Proceed(w, "fallback") /\ pc[w] = "status"
      BY <1>3, <2>4 DEF UpdateStatus
    <3>2. Moved(w, "fallback", key[w], u[w], obj[w], made[w])
      BY <3>1, ProceedMoves
    <3>3. "fallback" \in Labels \ {"idle", "get"} BY AllLabels DEF Simple
    <3> QED BY <1>2, <2>4, <3>1, <3>2, <3>3, UntouchedStill, StillOutcome
  <2> QED BY <2>3, <2>4
<1>4. CASE Fallback(w, ok)
  <2>1. CASE Pending(c)' BY <2>1 DEF Outcome
  <2>2. CASE Still(c)
    <3>1. ~StatusAllowed BY <1>4 DEF Fallback, SoFar
    <3>2. Right(c) BY <1>2, <3>1 DEF Right
    <3>3. Right(c)' BY <2>2, <3>2, StillRight
    <3> QED BY <1>4, <3>3, AfterStatusOutcome DEF Fallback
  <2> QED BY <1>4, <2>1, <2>2, TryStill DEF Fallback
<1> QED BY <1>3, <1>4

\* After the Deployment, or the Service, is right.
LEMMA AfterChildOutcome ==
  ASSUME TypeInv, NEW w \in Workers, NEW c \in CRs, c = key[w],
         NEW kind \in Kinds, AfterChild(w, kind), SoFar(w),
         CR(c) \in seen'[w],
         Valid(c)' => DeploymentRight(c)',
         kind = "service" => (Valid(c)' => ServiceRight(c)')
  PROVE  Outcome(w, c)
<1>1. made[w] = FALSE BY DEF TypeInv, WorkersTyped, SoFar
<1>2. \E l \in Labels \ {"idle", "get", "fallback"} :
        /\ Proceed(w, l)
        /\ kind = "deployment" => l = "service_get"
  BY <1>1, AllLabels DEF AfterChild, Kinds, Simple
<1>3. PICK l \in Labels \ {"idle", "get", "fallback"} :
        /\ Proceed(w, l)
        /\ kind = "deployment" => l = "service_get"
  BY <1>2
<1>4. Moved(w, l, key[w], u[w], obj[w], FALSE)
  BY <1>1, <1>3, ProceedMoves DEF TypeInv
<1>5. l \in AfterService => kind = "service"
  BY <1>3 DEF AfterService, Kinds
<1> QED BY <1>4, <1>5, MovedOutcome

\* After a write of the Deployment, or of the Service.
LEMMA WrittenOutcome ==
  ASSUME TypeInv, Copies, NEW w \in Workers, NEW c \in CRs, c = key[w],
         InUse(w), SoFar(w), NEW kind \in Kinds,
         Put(<<kind, c>>, Desired(kind, w)), AfterChild(w, kind),
         kind = "service" => pc[w] \in AfterDeployment
  PROVE  Outcome(w, c)
<1> USE DEF TypeInv
<1> DEFINE id == <<kind, c>>
<1>1. /\ id \in Ids /\ CR(c) \in Ids /\ <<"deployment", c>> \in Ids
      /\ id # CR(c)
  BY ChildId, NameOf DEF CR, Kinds
<1>2. store'[id] = Desired(kind, w) /\ \A j \in Ids \ {id} : store'[j] = store[j]
  BY <1>1 DEF Put, Watched, StoreTyped
<1>3. CR(c) \in seen'[w]
  BY <1>1 DEF Put, Watched, SeenTyped, SoFar
<1>4. store'[CR(c)] = store[CR(c)] BY <1>1, <1>2
<1>5. Self(c)' = Self(c) /\ Wanted(c)' = Wanted(c) /\ (Valid(c)' <=> Valid(c))
  BY <1>4 DEF Self, Wanted, Valid, Lives
<1>6. CASE kind = "deployment"
  <2>1. store'[<<"deployment", c>>] =
          [owners |-> {Self(c)}, config |-> Wanted(c).mult]
    <3>1. id = <<"deployment", c>> /\ Desired(kind, w) = Desired("deployment", w)
      BY <1>6
    <3>2. Desired("deployment", w) =
            [owners |-> {Self(c)}, config |-> Wanted(c).mult]
      BY CopyTells
    <3> QED BY <1>2, <3>1, <3>2
  <2>2. DeploymentRight(c)' BY <1>5, <2>1 DEF DeploymentRight
  <2> QED BY <1>3, <1>6, <2>2, AfterChildOutcome
<1>7. CASE kind = "service"
  <2>1. store'[<<"service", c>>] = [owners |-> {Self(c)}, config |-> 8080]
    <3>1. id = <<"service", c>> /\ Desired(kind, w) = Desired("service", w)
      BY <1>7
    <3>2. Desired("service", w) = [owners |-> {Self(c)}, config |-> 8080]
      BY CopyTells
    <3> QED BY <1>2, <3>1, <3>2
  <2>2. ServiceRight(c)' BY <1>5, <2>1 DEF ServiceRight
  <2>3. store'[<<"deployment", c>>] = store[<<"deployment", c>>]
    BY <1>1, <1>2, <1>7
  <2>4. Valid(c)' => DeploymentRight(c)'
    BY <1>5, <1>7, <2>3 DEF DeploymentRight, SoFar
  <2> QED BY <1>3, <1>7, <2>2, <2>4, AfterChildOutcome
<1> QED BY <1>6, <1>7 DEF Kinds

\* The calls about the Deployment and the Service.
LEMMA ChildOutcome ==
  ASSUME TypeInv, Copies, MaxFaults = 0, NEW w \in Workers,
         NEW c \in CRs, c = key[w], NEW ok \in BOOLEAN, NEW kind \in Kinds,
         \/ GetChild(w, ok, kind) \/ CreateChild(w, ok, kind)
         \/ UpdateChild(w, ok, kind),
         SoFar(w)
  PROVE  Outcome(w, c)
<1> USE DEF TypeInv
<1>1. /\ InUse(w)
      /\ kind = "service" => pc[w] \in AfterDeployment
  BY AtIs DEF GetChild, CreateChild, UpdateChild, InUse, AfterDeployment, Kinds
<1>2. /\ At[kind].update \in Labels \ {"idle", "get", "fallback"}
      /\ At[kind].create \in Labels \ {"idle", "get", "fallback"}
      /\ {At[kind].update, At[kind].create} \cap AfterService = {}
      /\ kind = "deployment" =>
           {At[kind].update, At[kind].create} \cap AfterDeployment = {}
  BY AtIs, AllLabels DEF Kinds, Simple, AfterService, AfterDeployment
<1>3. CASE GetChild(w, ok, kind)
  <2>1. ASSUME NEW l \in {At[kind].update, At[kind].create}, Proceed(w, l),
               Still(c)
        PROVE  Outcome(w, c)
    BY <1>1, <1>2, <2>1, ProceedOutcome DEF Kinds
  <2>2. CASE Untouched /\ Proceed(w, At[kind].create)
    BY <2>1, <2>2, UntouchedStill
  <2>3. CASE /\ Read(w, <<kind, c>>) /\ store[<<kind, c>>] # Nil
             /\ UpToDate(kind, w) /\ AfterChild(w, kind)
    <3>1. Still(c) BY <2>3, ReadStill
    <3>2. store[<<kind, c>>] = Desired(kind, w) BY <2>3, UpToDateIs
    <3>3. ASSUME kind = "deployment" PROVE DeploymentRight(c)
      <4>1. store[<<"deployment", c>>] = Desired("deployment", w)
        BY <3>2, <3>3
      <4> QED BY <1>1, <4>1, CopyTells DEF DeploymentRight
    <3>4. ASSUME kind = "service" PROVE ServiceRight(c)
      <4>1. store[<<"service", c>>] = Desired("service", w)
        BY <3>2, <3>4
      <4> QED BY <1>1, <4>1, CopyTells DEF ServiceRight
    <3>5. Valid(c) => DeploymentRight(c) BY <1>1, <3>3 DEF Kinds, SoFar
    <3>6. CR(c) \in seen'[w] BY <3>1 DEF Still, SoFar
    <3> QED BY <2>3, <3>1, <3>4, <3>5, <3>6, StillRight, AfterChildOutcome
  <2>4. CASE Read(w, <<kind, c>>) /\ Proceed(w, At[kind].update)
    BY <2>1, <2>4, ReadStill
  <2> QED BY <1>3, <2>2, <2>3, <2>4 DEF GetChild
<1>4. CASE CreateChild(w, ok, kind)
  <2>1. CASE Finish(w, TRUE) BY <2>1, FinishOutcome
  <2>2. CASE kind = "service" /\ Put(<<kind, c>>, Desired(kind, w))
             /\ AfterChild(w, kind)
    BY <1>1, <2>2, WrittenOutcome
  <2>3. CASE /\ kind = "deployment" /\ store[<<kind, c>>] = Nil
             /\ Put(<<kind, c>>, Desired(kind, w))
    <3>1. Desired(kind, w) \in ChildTypes
      <4>1. key[w] \in CRs /\ u[w] \in CRTypes BY <1>1, Busy DEF InUse
      <4> QED BY <4>1, DesiredTyped
    <3>2. Desired(kind, w) # Nil BY <3>1, ObjectAssumption
    <3>3. c \in events' BY <2>3, <3>2, PutTells
    <3> QED BY <3>3 DEF Outcome, Pending
  <2> QED BY <1>4, <2>1, <2>2, <2>3 DEF CreateChild, Kinds
<1>5. CASE UpdateChild(w, ok, kind)
  <2>1. CASE Finish(w, TRUE) BY <2>1, FinishOutcome
  <2>2. CASE Put(<<kind, c>>, Desired(kind, w)) /\ AfterChild(w, kind)
    BY <1>1, <2>2, WrittenOutcome
  <2> QED BY <1>5, <2>1, <2>2 DEF UpdateChild
<1> QED BY <1>3, <1>4, <1>5

\* Done leaves the dirty keys,
LEMMA DoneDirty ==
  ASSUME QueueTypes, NEW c
  PROVE  Q!Done(wq, c).dirty = wq.dirty
  BY DEF QueueTypes, Q!Done

\* Add adds one,
LEMMA AddDirty ==
  ASSUME QueueTypes, NEW c \in CRs
  PROVE  Q!Add(wq, c).dirty = wq.dirty \cup {c}
  BY DEF QueueTypes, Q!Add

\* and no call forgets what is pending.
LEMMA WorksPending ==
  ASSUME TypeInv, QueueTypes, Copies, NEW w \in Workers, NEW ok \in BOOLEAN,
         GetCR(w, ok) \/ Works(w, ok), NEW d, Pending(d)
  PROVE  Pending(d)'
<1>1. delayed \subseteq delayed' BY CallOf
<1>2. wq'.dirty = wq.dirty
  <2>1. Reconcile(w) BY DEF Reconcile, Works
  <2>2. wq' = wq \/ wq' = Q!Done(wq, key[w])
    BY <2>1, ReconcileShape DEF Idle, Release
  <2> QED BY <2>2, DoneDirty
<1>3. events \subseteq events'
  <2>1. CASE GetCR(w, ok) BY <2>1, GetCRReads DEF Untouched
  <2>2. CASE Works(w, ok)
    <3>1. Reach(w) BY <2>2, WorksReaches
    <3> QED BY <3>1, PutEvents DEF Reach, Untouched, Read
  <2> QED BY <2>1, <2>2
<1> QED BY <1>1, <1>2, <1>3 DEF Pending

\* Together: whatever the call after the Get of the CR,
LEMMA WorksOutcome ==
  ASSUME TypeInv, QueueTypes, Copies, MaxFaults = 0, NEW w \in Workers,
         NEW c \in CRs, c = key[w], NEW ok \in BOOLEAN, Works(w, ok),
         Pending(c) \/ SoFar(w)
  PROVE  Outcome(w, c)
<1>1. CASE Pending(c) BY <1>1, WorksPending DEF Outcome
<1>2. CASE SoFar(w)
  <2> USE <1>2
  <2>1. CASE Annotate(w, ok) \/ Record(w, ok) BY <2>1, AnnotateOutcome
  <2>2. CASE UpdateStatus(w, ok) \/ Fallback(w, ok) BY <2>2, StatusOutcome
  <2>3. CASE LeaveOldProxy(w, ok) \/ cleanupProxyForCR(w, ok)
    BY <2>3, OldOutcome
  <2>4. CASE Unfinalize(w, ok) BY <2>4, UnfinalizeOutcome
  <2>5. CASE GetProxy(w, ok) \/ CreateProxy(w, ok) \/ UpdateProxy(w, ok)
    BY <2>5, ProxyOutcome
  <2>6. CASE ensureDeployment(w, ok) \/ ensureService(w, ok)
    BY <2>6, ChildOutcome DEF ensureDeployment, ensureService, Kinds
  <2> QED BY <2>1, <2>2, <2>3, <2>4, <2>5, <2>6 DEF Works
<1> QED BY <1>1, <1>2

\* and the Get itself.
LEMMA GetCROutcome ==
  ASSUME TypeInv, MaxFaults = 0, NEW w \in Workers, NEW c \in CRs, c = key[w],
         NEW ok \in BOOLEAN, GetCR(w, ok), made[w] = FALSE
  PROVE  Outcome(w, c)
<1>1. ok BY NoFaults DEF GetCR
<1>2. CASE Untouched /\ Finish(w, FALSE) /\ ~(ok /\ store[CR(c)] # Nil)
  <2>1. Right(c)'
    BY <1>1, <1>2 DEF Untouched, Right, Valid, Lives
  <2> QED BY <1>2, <2>1, FinishOutcome
<1>3. CASE /\ store[CR(c)] # Nil /\ seen' = [seen EXCEPT ![w] = {CR(c)}]
           /\ UNCHANGED <<store, events, delayed, wq>>
           /\ \E l \in {"unfinalize", "clean_get", "status", "annotate"},
                 x \in CRTypes :
                 /\ Moved(w, l, key[w], x, obj[w], made[w])
                 /\ Dispatched(w, store[CR(c)], l, x)
  <2>1. PICK l \in {"unfinalize", "clean_get", "status", "annotate"},
             x \in CRTypes : /\ Moved(w, l, key[w], x, obj[w], made[w])
                             /\ Dispatched(w, store[CR(c)], l, x)
    BY <1>3
  <2>2. CR(c) \in seen'[w] BY <1>3 DEF TypeInv, Watched, SeenTyped
  <2>3. l \in AfterDeployment => ~Valid(c)'
    <3> SUFFICES ASSUME l \in AfterDeployment PROVE ~Valid(c)' OBVIOUS
    <3>1. store[CR(c)].spec.mult <= 0
      BY <2>1 DEF AfterDeployment, AfterService, Dispatched
    <3>2. store[CR(c)].spec.mult \in Int
      <4>1. store[CR(c)] \in CRTypes
        BY <1>3, NameOf DEF TypeInv, Watched, StoreTyped, Typed, Maybe
      <4> QED BY <4>1, SpecsAssumption DEF CRTypes, AllSpecs
    <3>3. store' = store BY <1>3
    <3> QED BY <3>1, <3>2, <3>3 DEF Valid, Wanted
  <2>4. l \in Labels \ {"idle", "get", "fallback"} BY AllLabels DEF Simple
  <2> QED BY <2>1, <2>2, <2>3, <2>4, MovedOutcome DEF AfterDeployment
<1> QED BY <1>2, <1>3, GetCRReads

-----------------------------------------------------------------------------
\* A worker has seen to what it had while nothing of its CR changes.
LEMMA SoFarStays ==
  ASSUME NEW v \in Workers, NEW d \in CRs, d = key[v], SoFar(v), Still(d),
         pc'[v] = pc[v], key'[v] = key[v], made'[v] = made[v]
  PROVE  SoFar(v)'
<1>1. key'[v] = d /\ CR(key'[v]) = CR(d) OBVIOUS
<1>2. /\ Valid(key[v])' <=> Valid(d)'
      /\ DeploymentRight(key[v])' <=> DeploymentRight(d)'
      /\ ServiceRight(key[v])' <=> ServiceRight(d)'
  BY <1>1 DEF Valid, Lives, DeploymentRight, ServiceRight, Self, Wanted
<1>3. CR(d) \in seen'[v] BY DEF SoFar, Still
<1>4. /\ Valid(d)' /\ pc'[v] \in AfterDeployment => DeploymentRight(d)'
      /\ Valid(d)' /\ pc'[v] \in AfterService => ServiceRight(d)'
  BY StillRight DEF SoFar
<1> QED BY <1>1, <1>2, <1>3, <1>4 DEF SoFar

\* The rest of the world, while a worker sees to c.
LEMMA StepSeenTo ==
  ASSUME TypeInv, OneWorkerPerKey, SeenTo, NEW w \in Workers,
         NEW c \in CRs, c = key[w], Outcome(w, c),
         \A d \in CRs \ {c} : Still(d),
         \A d \in CRs : Pending(d) => Pending(d)',
         \A v \in Workers \ {w} :
           pc'[v] = pc[v] /\ key'[v] = key[v] /\ made'[v] = made[v],
         IF InUse(w)' THEN key'[w] = c ELSE made'[w] = FALSE
  PROVE  SeenTo'
<1>1. \A v \in Workers \ {w} : InUse(v)' <=> InUse(v)
  BY DEF InUse
<1>2. NotMade' BY <1>1 DEF SeenTo, NotMade
<1>3. InProgress'
  <2> SUFFICES ASSUME NEW v \in Workers, InUse(v)'
               PROVE  Pending(key[v])' \/ SoFar(v)'
    BY DEF InProgress
  <2>1. CASE v = w
    <3>1. key'[w] = c BY <2>1
    <3> QED BY <2>1, <3>1 DEF Outcome, Pending
  <2>2. CASE v # w
    <3>1. InUse(v) BY <1>1, <2>2
    <3>2. PICK d \in CRs : d = key[v] BY <3>1, Busy DEF TypeInv, InUse
    <3>3. d # c BY <2>2, <3>2, NilAssumption DEF OneWorkerPerKey
    <3>4. CASE Pending(d)
      <4>1. Pending(d)' /\ key'[v] = d BY <2>2, <3>2, <3>4
      <4> QED BY <4>1 DEF Pending
    <3>5. CASE SoFar(v) BY <2>2, <3>2, <3>3, <3>5, SoFarStays
    <3> QED BY <3>1, <3>2, <3>4, <3>5 DEF SeenTo, InProgress
  <2> QED BY <2>1, <2>2
<1>4. AtRest'
  <2> SUFFICES ASSUME NEW d \in CRs, \A v \in Workers : key'[v] # d
               PROVE  Pending(d)' \/ Right(d)'
    BY DEF AtRest
  <2>1. CASE d = c BY <2>1 DEF Outcome
  <2>2. CASE d # c
    <3>1. \A v \in Workers : key[v] # d BY <2>2
    <3> QED BY <2>2, <3>1, StillRight DEF SeenTo, AtRest
  <2> QED BY <2>1, <2>2
<1> QED BY <1>2, <1>3, <1>4 DEF SeenTo

\* So a call of a reconciliation keeps SeenTo,
LEMMA WorksSeenTo ==
  ASSUME TypeInv, QueueInv, Copies, MaxFaults = 0, SeenTo,
         NEW w \in Workers, NEW ok \in BOOLEAN, Works(w, ok)
  PROVE  SeenTo'
<1> USE DEF TypeInv, QueueInv
<1>1. InUse(w) /\ Reach(w) /\ Goes(w) BY WorksInUse, WorksReaches
<1>2. PICK c \in CRs : c = key[w] BY <1>1, Busy DEF InUse
<1>3. Outcome(w, c)
  BY <1>1, <1>2, WorksOutcome DEF SeenTo, InProgress
<1>4. ASSUME NEW d \in CRs, d # c PROVE Still(d)
  <2>1. ASSUME NEW kind \in Kinds
        PROVE  /\ <<kind, c>> \in Ids
               /\ <<kind, c>> \notin {CR(d), <<"deployment", d>>, <<"service", d>>}
    BY <1>4, ChildId DEF CR
  <2>2. /\ CR(c) \in Ids
        /\ CR(c) \notin {CR(d), <<"deployment", d>>, <<"service", d>>}
    BY <1>4, NameOf DEF CR
  <2>3. ASSUME NEW p \in ProxyNames
        PROVE  /\ Proxy(p) \in Ids
               /\ Proxy(p) \notin {CR(d), <<"deployment", d>>, <<"service", d>>}
    BY ProxyId DEF Proxy, CR
  <2> QED BY <1>1, <1>2, <2>1, <2>2, <2>3, UntouchedStill, ReadStill, PutStill
          DEF Reach
<1>5. \A d \in CRs : Pending(d) => Pending(d)' BY WorksPending
<1>6. \A v \in Workers \ {w} :
        pc'[v] = pc[v] /\ key'[v] = key[v] /\ made'[v] = made[v]
  BY <1>1 DEF Goes, Moved, WorkersTyped
<1>7. IF InUse(w)' THEN key'[w] = c ELSE made'[w] = FALSE
  BY <1>1, <1>2 DEF Goes, Moved, WorkersTyped, InUse
<1> QED BY <1>2, <1>3, <1>4, <1>5, <1>6, <1>7, StepSeenTo

\* and the Get of a CR.
LEMMA GetCRSeenTo ==
  ASSUME TypeInv, QueueInv, Copies, MaxFaults = 0, SeenTo,
         NEW w \in Workers, NEW ok \in BOOLEAN, GetCR(w, ok)
  PROVE  SeenTo'
<1> USE DEF TypeInv, QueueInv
<1>1. PICK c \in CRs : c = key[w] BY DEF GetCR, WorkersTyped, Entry
<1>2. made[w] = FALSE
  BY DEF GetCR, SeenTo, NotMade, InUse, WorkersTyped
<1>3. Outcome(w, c) BY <1>1, <1>2, GetCROutcome
<1>4. \A d \in CRs : Pending(d) => Pending(d)' BY WorksPending
<1>5. ASSUME NEW d \in CRs, d # c PROVE Still(d)
  <2>1. store' = store /\ \A v \in Workers \ {w} : seen'[v] = seen[v]
    BY GetCRReads DEF Untouched, Watched, SeenTyped
  <2> QED BY <1>1, <1>5, <2>1 DEF Still
<1>6. \/ Moved(w, "idle", Nil, Nil, Nil, FALSE)
      \/ \E l \in {"unfinalize", "clean_get", "status", "annotate"} : \E x :
           Moved(w, l, key[w], x, obj[w], made[w])
  BY GetCRReads, FinishMoves
<1>7. \A v \in Workers \ {w} :
        pc'[v] = pc[v] /\ key'[v] = key[v] /\ made'[v] = made[v]
  BY <1>6 DEF Moved, WorkersTyped
<1>8. IF InUse(w)' THEN key'[w] = c ELSE made'[w] = FALSE
  BY <1>1, <1>6 DEF Moved, WorkersTyped, InUse
<1> QED BY <1>1, <1>3, <1>4, <1>5, <1>7, <1>8, StepSeenTo

\* Steps that leave the workers alone.
LEMMA AloneSeenTo ==
  ASSUME TypeInv, SeenTo, UNCHANGED <<pc, key, made>>,
         \A d \in CRs : Pending(d)' \/ Still(d),
         \A d \in CRs : Pending(d) => Pending(d)'
  PROVE  SeenTo'
<1>1. \A v \in Workers : InUse(v)' <=> InUse(v) BY DEF InUse
<1>2. NotMade' BY <1>1 DEF SeenTo, NotMade
<1>3. ASSUME NEW v \in Workers, InUse(v)'
      PROVE  Pending(key[v])' \/ SoFar(v)'
  <2>1. InUse(v) BY <1>1, <1>3
  <2>2. PICK d \in CRs : d = key[v] BY <2>1, Busy DEF TypeInv, InUse
  <2>3. CASE Pending(d)'
    BY <2>2, <2>3 DEF Pending
  <2>4. CASE Still(d) /\ SoFar(v) BY <2>2, <2>4, SoFarStays
  <2> QED BY <2>1, <2>2, <2>3, <2>4 DEF SeenTo, InProgress
<1>4. ASSUME NEW d \in CRs, \A v \in Workers : key'[v] # d
      PROVE  Pending(d)' \/ Right(d)'
  BY <1>4, StillRight DEF SeenTo, AtRest
<1> QED BY <1>2, <1>3, <1>4 DEF SeenTo, InProgress, AtRest

\* A write of somebody else forgets nothing that is pending.
LEMMA PutPending ==
  ASSUME NEW id, NEW val, Put(id, val), UNCHANGED control, NEW d, Pending(d)
  PROVE  Pending(d)'
<1>1. wq' = wq /\ delayed' = delayed BY DEF control
<1> QED BY <1>1, PutEvents DEF Pending

\* Users and the garbage collector keep SeenTo: their writes are events,
LEMMA OthersSeenTo ==
  ASSUME TypeInv, SeenTo, Users \/ \E id \in Ids : CollectGarbage(id)
  PROVE  SeenTo'
<1> USE DEF TypeInv
<1>1. ASSUME NEW c \in CRs, NEW id \in {CR(c), <<"deployment", c>>},
             NEW val, Put(id, val), WorkersStay
      PROVE  SeenTo'
  <2>1. id \in Ids BY NameOf
  <2>2. ASSUME NEW d \in CRs PROVE Pending(d)' \/ Still(d)
    <3>1. CASE d = c
      BY <1>1, <3>1, PutTells, UntouchedStill DEF Pending
    <3>2. CASE d # c
      <4>1. id \notin {CR(d), <<"deployment", d>>, <<"service", d>>}
        BY <3>2 DEF CR
      <4> QED BY <1>1, <2>1, <4>1, PutStill
    <3> QED BY <3>1, <3>2
  <2>3. \A d \in CRs : Pending(d) => Pending(d)'
    BY <1>1, PutPending DEF WorkersStay
  <2> QED BY <1>1, <2>2, <2>3, AloneSeenTo DEF WorkersStay
<1>2. CASE Users BY <1>1, <1>2, UsersPut
<1>3. ASSUME NEW id \in Ids, CollectGarbage(id) PROVE SeenTo'
  <2>1. PICK val : Put(id, val) BY <1>3, GarbagePut
  <2>2. WorkersStay /\ id[1] # "cr" /\ ~ store[id].owners \subseteq Live
    BY <1>3, GarbagePut
  <2>3. \A d \in CRs : Pending(d) => Pending(d)'
    BY <2>1, <2>2, PutPending DEF WorkersStay
  <2>4. CASE id[1] = "deployment"
    <3>1. id[2] \in CRs /\ id = <<"deployment", id[2]>> BY <2>4 DEF Ids
    <3> QED BY <1>1, <2>1, <2>2, <3>1
  <2>5. CASE id[1] = "proxy"
    <3>1. ASSUME NEW d \in CRs
          PROVE  id \notin {CR(d), <<"deployment", d>>, <<"service", d>>}
      BY <2>5 DEF CR
    <3>2. \A d \in CRs : Still(d) BY <2>1, <3>1, PutStill
    <3> QED BY <2>2, <2>3, <3>2, AloneSeenTo DEF WorkersStay
  <2>6. CASE id[1] = "service"
    <3>1. PICK c \in CRs : id = <<"service", c>> BY <2>6 DEF Ids
    <3>2. ASSUME NEW d \in CRs PROVE Still(d)
      <4>1. CASE d # c
        <5>1. id \notin {CR(d), <<"deployment", d>>, <<"service", d>>}
          BY <3>1, <4>1 DEF CR
        <5> QED BY <2>1, <5>1, PutStill
      <4>2. CASE d = c
        <5>1. ~(Valid(c) /\ ServiceRight(c))
          <6> SUFFICES ASSUME Valid(c), ServiceRight(c) PROVE FALSE OBVIOUS
          <6>1. store[id].owners = {Self(c)} BY <3>1 DEF ServiceRight
          <6>2. Self(c) \in Live BY DEF Live, Self, Valid, Lives
          <6> QED BY <2>2, <6>1, <6>2
        <5>2. /\ id # CR(c) /\ id # <<"deployment", c>>
              /\ CR(c) \in Ids /\ <<"deployment", c>> \in Ids
          BY <3>1, NameOf DEF CR
        <5>3. /\ store'[CR(c)] = store[CR(c)]
              /\ store'[<<"deployment", c>>] = store[<<"deployment", c>>]
              /\ \A v \in Workers : CR(c) \in seen[v] => CR(c) \in seen'[v]
          BY <2>1, <5>2 DEF Put, Watched, StoreTyped, SeenTyped
        <5> QED BY <4>2, <5>1, <5>3 DEF Still
      <4> QED BY <4>1, <4>2
    <3> QED BY <2>2, <2>3, <3>2, AloneSeenTo DEF WorkersStay
  <2> QED BY <2>2, <2>4, <2>5, <2>6, IdShape
<1> QED BY <1>2, <1>3

\* the queue only moves what is pending,
LEMMA QueueingSeenTo ==
  ASSUME TypeInv, QueueInv, SeenTo,
         (\E c \in CRs : enqueueObj(c) \/ Retry(c)) \/ UNCHANGED vars
  PROVE  SeenTo'
<1>1. UNCHANGED <<store, seen, pc, key, made>> BY DEF enqueueObj, Retry, vars
<1>2. \A d \in CRs : Still(d) BY <1>1 DEF Still
<1>3. ASSUME NEW c \in CRs, enqueueObj(c) \/ Retry(c)
      PROVE  wq'.dirty = wq.dirty \cup {c}
  BY <1>3, AddDirty DEF enqueueObj, Retry, QueueInv
<1>4. ASSUME NEW d \in CRs, Pending(d) PROVE Pending(d)'
  BY <1>3, <1>4 DEF Pending, enqueueObj, Retry, vars
<1> QED BY <1>1, <1>2, <1>4, AloneSeenTo

\* a restart sees to every CR again,
LEMMA RestartSeenTo ==
  ASSUME TypeInv, Restart
  PROVE  SeenTo'
<1>1. InProgress' /\ NotMade' BY DEF Restart, InProgress, NotMade, InUse
<1>2. ASSUME NEW d \in CRs PROVE Pending(d)' \/ Right(d)'
  <2>1. CASE store[CR(d)] = Nil
    BY <2>1 DEF Restart, Right, Valid, Lives
  <2>2. CASE store[CR(d)] # Nil
    BY <2>2, NameOf DEF Restart, Pending
  <2> QED BY <2>1, <2>2
<1> QED BY <1>1, <1>2 DEF SeenTo, AtRest

\* and a worker that takes a key has still to read the CR.
LEMMA TakeSeenTo ==
  ASSUME TypeInv, QueueInv, SeenTo, NEW w \in Workers, Take(w),
         OneWorkerPerKey'
  PROVE  SeenTo'
<1> USE DEF TypeInv, QueueInv
<1>1. PICK h \in CRs : h = Head(wq.queue)
  BY DEF Take, QueueTypes
<1>2. /\ UNCHANGED <<store, seen, events, delayed, made>>
      /\ wq'.dirty = wq.dirty \ {h}
      /\ key' = [key EXCEPT ![w] = h] /\ pc' = [pc EXCEPT ![w] = "get"]
      /\ pc[w] = "idle"
  BY <1>1 DEF Take, Q!Get, Goto
<1>3. key[w] = Nil BY <1>2 DEF WorkersTyped, Entry
<1>4. \A d \in CRs : Still(d) BY <1>2 DEF Still
<1>5. \A d \in CRs \ {h} : Pending(d) => Pending(d)' BY <1>2 DEF Pending
<1>6. key'[w] = h /\ ~InUse(w)' BY <1>2 DEF InUse, WorkersTyped
<1>7. \A v \in Workers \ {w} :
        /\ pc'[v] = pc[v] /\ key'[v] = key[v] /\ made'[v] = made[v]
        /\ InUse(v)' <=> InUse(v)
  BY <1>2 DEF InUse, WorkersTyped
<1>8. NotMade'
  BY <1>2, <1>7 DEF SeenTo, NotMade, InUse
<1>9. ASSUME NEW v \in Workers, InUse(v)'
      PROVE  Pending(key[v])' \/ SoFar(v)'
  <2>1. v # w /\ InUse(v) BY <1>6, <1>7, <1>9
  <2>2. PICK d \in CRs : d = key[v] BY <2>1, Busy DEF InUse
  <2>3. key'[v] = d BY <1>7, <2>1, <2>2
  <2>4. d # h BY <1>6, <2>1, <2>3, NilAssumption DEF OneWorkerPerKey
  <2>5. CASE Pending(d) BY <1>5, <2>3, <2>4, <2>5 DEF Pending
  <2>6. CASE SoFar(v) BY <1>4, <1>7, <2>1, <2>2, <2>6, SoFarStays
  <2> QED BY <2>1, <2>2, <2>5, <2>6 DEF SeenTo, InProgress
<1>10. ASSUME NEW d \in CRs, \A v \in Workers : key'[v] # d
       PROVE  Pending(d)' \/ Right(d)'
  <2>1. d # h BY <1>6, <1>10
  <2>2. \A v \in Workers : key[v] # d
    BY <1>3, <1>7, <1>10, NilAssumption
  <2> QED BY <1>4, <1>5, <2>1, <2>2, StillRight DEF SeenTo, AtRest
<1> QED BY <1>8, <1>9, <1>10 DEF SeenTo, InProgress, AtRest

\* While no call of the operator fails, every CR is pending, being seen to with
\* a current copy, or right: an event, a conflict's retry or the key's dirty
\* mark outlives every interleaving of the workers (main.go:193-235).
THEOREM SeenToInvariance == ASSUME MaxFaults = 0 PROVE Spec => []SeenTo
<1>1. Init => SeenTo
  <2> SUFFICES ASSUME Init PROVE SeenTo OBVIOUS
  <2>1. \A w \in Workers : ~InUse(w) /\ ~made[w] BY DEF Init, InUse
  <2>2. \A c \in CRs : Right(c)
    BY NameOf DEF Init, Right, Valid, Lives
  <2> QED BY <2>1, <2>2 DEF SeenTo, InProgress, AtRest, NotMade
<1>2. /\ TypeInv /\ QueueInv /\ QueueInv' /\ Copies /\ SeenTo /\ [Next]_vars
      => SeenTo'
  <2> SUFFICES ASSUME TypeInv, QueueInv, QueueInv', Copies, SeenTo, [Next]_vars
               PROVE  SeenTo'
    OBVIOUS
  <2>1. ASSUME NEW w \in Workers, Reconcile(w) PROVE SeenTo'
    BY <2>1, ReconcileIs, GetCRSeenTo, WorksSeenTo
  <2>2. ASSUME NEW w \in Workers, Take(w) PROVE SeenTo'
    BY <2>2, TakeSeenTo DEF QueueInv
  <2>3. CASE Restart BY <2>3, RestartSeenTo
  <2>4. CASE Users \/ \E id \in Ids : CollectGarbage(id)
    BY <2>4, OthersSeenTo
  <2>5. CASE (\E c \in CRs : enqueueObj(c) \/ Retry(c)) \/ UNCHANGED vars
    BY <2>5, QueueingSeenTo
  <2> QED BY <2>1, <2>2, <2>3, <2>4, <2>5 DEF Next, Cluster
<1> QED BY <1>1, <1>2, TypeInvariance, QueueInvariance, CopiesInvariance, PTL
        DEF Spec

\* At rest nothing is pending and nobody works.
LEMMA NonePending ==
  ASSUME TypeInv, QueueInv, NothingForgotten, Quiet, NEW c
  PROVE  (\A w \in Workers : key[w] = Nil) /\ ~Pending(c)
<1>1. \A w \in Workers : key[w] = Nil
  BY DEF Quiet, TypeInv, WorkersTyped, Entry
<1>2. wq.processing = {}
  BY <1>1, NilAssumption
  DEF NothingForgotten, ProcessingHeld, QueueInv, QueueTypes
<1>3. wq.dirty = {}
  BY <1>2 DEF NothingForgotten, DirtyQueued, Quiet
<1> QED BY <1>1, <1>3 DEF Pending, Quiet

\* So every CR is right.
LEMMA RightAtRest ==
  ASSUME TypeInv, QueueInv, NothingForgotten, SeenTo, Quiet, NEW c \in CRs
  PROVE  Right(c)
<1>1. (\A w \in Workers : key[w] = Nil) /\ ~Pending(c) BY NonePending
<1> QED BY <1>1, NilAssumption DEF SeenTo, AtRest

\* When the operator has nothing left to do, every live CR with a positive
\* multiplicador has the Deployment and the Service it asks for, if no call
\* failed: a failed Get of the CR is taken for its absence (main.go:213), the
\* one way to forget a CR.  Conflicts and restarts forget none.
THEOREM DeployedAtRest == ASSUME MaxFaults = 0 PROVE Spec => []Deployed
<1>1. TypeInv /\ QueueInv /\ NothingForgotten /\ SeenTo => Deployed
  BY RightAtRest DEF Deployed, Right, DeploymentRight, ServiceRight
<1> QED BY <1>1, TypeInvariance, QueueInvariance, NothingForgottenInvariance,
           SeenToInvariance, PTL

\* Nor does any then lack its status, where the API server grants the operator
\* the status subresource and the CRD keeps the field (main.go:437-445).
THEOREM StatusToldAtRest ==
  ASSUME MaxFaults = 0, StatusAllowed, StatusKept
  PROVE  Spec => []StatusTold
<1>1. TypeInv /\ QueueInv /\ NothingForgotten /\ SeenTo => StatusTold
  BY RightAtRest DEF StatusTold, Right
<1> QED BY <1>1, TypeInvariance, QueueInvariance, NothingForgottenInvariance,
           SeenToInvariance, PTL

-----------------------------------------------------------------------------
(* What is served. *)
\* A valid CR with a ruta has its route: what Routed asks of one CR.
Served(c) ==
  Valid(c) /\ Wanted(c).ruta # Nil =>
    LET p == proxyName(c, Wanted(c))
    IN  Has(p, Self(c), c, Wanted(c)) /\ HasHost(p, Wanted(c))
\* The labels of a worker that has joined the proxy, or has no need to.
AfterProxy == {"record", "status", "fallback"}
\* A CR is pending, or served, or a worker has still to join its proxy.
Routing ==
  /\ \A w \in Workers : pc[w] \in AfterProxy => Pending(key[w]) \/ Served(key[w])
  /\ \A c \in CRs : (\A w \in Workers : key[w] # c) => Pending(c) \/ Served(c)

\* A step that keeps the route a CR asks for, and the CR, keeps it served.
LEMMA ServedStays ==
  ASSUME Aims, NEW c \in CRs, store'[CR(c)] = store[CR(c)], Served(c),
         \A s \in Specs[c] : \A owner : \A p \in ProxyNames :
           p = proxyName(c, s) /\ s.ruta # Nil /\ Has(p, owner, c, s)
             /\ owner = Self(c) /\ s = Wanted(c) =>
               Has(p, owner, c, s)' /\ (HasHost(p, s) => HasHost(p, s)')
  PROVE  Served(c)'
<1> SUFFICES ASSUME Valid(c)', Wanted(c)'.ruta # Nil
             PROVE  LET p == proxyName(c, Wanted(c)')
                    IN  /\ store'[Proxy(p)] # Nil
                        /\ Self(c)' \in store'[Proxy(p)].owners
                        /\ [prefix |-> Wanted(c)'.ruta, service |-> c]
                             \in store'[Proxy(p)].routes
                        /\ Wanted(c)'.host # Nil =>
                             store'[Proxy(p)].vhost = Wanted(c)'.host
  BY DEF Served, Has, HasHost, proxyName
<1>1. Valid(c) /\ Wanted(c)' = Wanted(c) /\ Self(c)' = Self(c)
  BY DEF Valid, Lives, Wanted, Self
<1>2. PICK s \in Specs[c] : s = Wanted(c)
  BY <1>1 DEF Valid, Lives, Aims, Stored, Origin, Wanted
<1>3. PICK owner : owner = Self(c) OBVIOUS
<1>4. PICK p \in ProxyNames : p = proxyName(c, s) BY SpecNames
<1>5. s.ruta # Nil /\ Has(p, owner, c, s) /\ HasHost(p, s)
  BY <1>1, <1>2, <1>3, <1>4 DEF Served
<1>6. Has(p, owner, c, s)' /\ HasHost(p, s)' BY <1>2, <1>3, <1>4, <1>5
<1> QED BY <1>1, <1>2, <1>3, <1>4, <1>6 DEF Has, HasHost

\* A call that changes a CR is an event.
LEMMA ReachTells ==
  ASSUME TypeInv, NEW w \in Workers, InUse(w), Reach(w), NEW c \in CRs
  PROVE  store'[CR(c)] = store[CR(c)] \/ c \in events'
<1> USE DEF TypeInv
<1>1. key[w] \in CRs BY Busy DEF InUse
<1>2. CASE Untouched \/ \E id \in Ids : Read(w, id)
  BY <1>2 DEF Untouched, Read
<1>3. ASSUME NEW id \in Ids, NEW val, Put(id, val)
      PROVE  store'[CR(c)] = store[CR(c)] \/ c \in events'
  <2>1. CASE id = CR(c) BY <1>3, <2>1, PutTells, NameOf DEF Untouched
  <2>2. CASE id # CR(c)
    BY <1>3, <2>2, NameOf DEF Put, Watched, StoreTyped
  <2> QED BY <2>1, <2>2
<1>4. CR(key[w]) \in Ids /\ \A kind \in Kinds : <<kind, key[w]>> \in Ids
  BY <1>1, NameOf, ChildId
<1>5. \A p \in ProxyNames : Proxy(p) \in Ids BY ProxyId
<1> QED BY <1>2, <1>3, <1>4, <1>5 DEF Reach

\* A worker past the proxy leaves it alone.
LEMMA JoinedStays ==
  ASSUME TypeInv, Copies, Aims, NEW w \in Workers, InUse(w), Reach(w),
         NEW c \in CRs, c = key[w], SoFar(w), pc[w] \in AfterProxy,
         Served(c), store'[CR(c)] = store[CR(c)]
  PROVE  Served(c)'
<1>1. ASSUME NEW s \in Specs[c], NEW owner, NEW p \in ProxyNames,
             p = proxyName(c, s), Has(p, owner, c, s), s = Wanted(c)
      PROVE  Has(p, owner, c, s)' /\ (HasHost(p, s) => HasHost(p, s)')
  <2>1. u[w].spec = Wanted(c) BY CopyTells
  <2>2. ProxyOf(w) = p BY <1>1, <2>1 DEF ProxyOf
  <2>3. store'[Proxy(p)] = store[Proxy(p)]
    BY <1>1, <2>2, ReachProxy DEF Joins, Has, AfterProxy
  <2> QED BY <1>1, <2>3 DEF Has, HasHost
<1> QED BY <1>1, ServedStays

\* A worker that joins the proxy serves its CR.
LEMMA JoiningServes ==
  ASSUME TypeInv, Copies, Aims, NEW w \in Workers, InUse(w),
         NEW c \in CRs, c = key[w], SoFar(w), store'[CR(c)] = store[CR(c)],
         NEW val, Joins(w, val), Put(Proxy(ProxyOf(w)), val)
  PROVE  Served(c)'
<1> USE DEF TypeInv
<1>1. u[w].spec = Wanted(c) /\ Owner(w) = Self(c) BY CopyTells
<1>2. PICK p \in ProxyNames : p = ProxyOf(w)
  BY Busy, ProxyOfTyped DEF InUse
<1>3. store'[Proxy(p)] = val /\ val # Nil
  BY <1>2, ProxyId, JoinedTyped DEF Put, Watched, StoreTyped
<1>4. /\ Owner(w) \in val.owners /\ Route(w) \in val.routes
      /\ u[w].spec.host # Nil => val.vhost = u[w].spec.host
  <2>1. CASE val = Fresh(w) BY <2>1 DEF Fresh
  <2>2. CASE val # Fresh(w)
    <3>1. Proxy(p) \in seen[w] BY <1>2, <2>2 DEF Joins, Current
    <3>2. store[Proxy(p)] # Nil BY <3>1 DEF Watched, SeenTyped
    <3> QED BY <1>2, <3>2, JoinKeeps
  <2> QED BY <2>1, <2>2
<1>5. Wanted(c)' = Wanted(c) /\ Self(c)' = Self(c) BY DEF Wanted, Self
<1>6. p = proxyName(c, Wanted(c)) BY <1>1, <1>2 DEF ProxyOf
<1>7. Route(w) = [prefix |-> Wanted(c).ruta, service |-> c]
  BY <1>1 DEF Route
<1> QED BY <1>1, <1>3, <1>4, <1>5, <1>6, <1>7 DEF Served, Has, HasHost, proxyName

-----------------------------------------------------------------------------
\* The rest of the world, while a worker serves c.
LEMMA StepRouting ==
  ASSUME TypeInv, OneWorkerPerKey, Routing, NEW w \in Workers,
         NEW c \in CRs, c = key[w],
         Pending(c)' \/ Served(c)' \/ (key'[w] = c /\ pc'[w] \notin AfterProxy),
         key'[w] \in {c, Nil}, pc'[w] \in AfterProxy => key'[w] = c,
         \A d \in CRs \ {c} : Pending(d)' \/ (Served(d) => Served(d)'),
         \A d \in CRs : Pending(d) => Pending(d)',
         \A v \in Workers \ {w} : pc'[v] = pc[v] /\ key'[v] = key[v]
  PROVE  Routing'
<1>1. ASSUME NEW v \in Workers, pc'[v] \in AfterProxy
      PROVE  Pending(key[v])' \/ Served(key[v])'
  <2>1. PICK d \in CRs : d = key'[v]
    <3>1. CASE v = w BY <1>1, <3>1
    <3>2. CASE v # w
      BY <1>1, <3>2, Busy DEF TypeInv, AfterProxy
    <3> QED BY <3>1, <3>2
  <2>2. Pending(d)' \/ Served(d)'
    <3>1. CASE v = w BY <1>1, <2>1, <3>1
    <3>2. CASE v # w
      <4>1. d = key[v] /\ pc[v] \in AfterProxy BY <1>1, <2>1, <3>2
      <4>2. d # c BY <3>2, <4>1, NilAssumption DEF OneWorkerPerKey
      <4>3. Pending(d) \/ Served(d) BY <4>1 DEF Routing
      <4> QED BY <4>2, <4>3
    <3> QED BY <3>1, <3>2
  <2>3. Pending(d)' => Pending(key[v])' BY <2>1 DEF Pending
  <2>4. Served(d)' => Served(key[v])'
    BY <2>1 DEF Served, Valid, Lives, Wanted, Self, Has, HasHost
  <2> QED BY <2>2, <2>3, <2>4
<1>2. ASSUME NEW d \in CRs, \A v \in Workers : key'[v] # d
      PROVE  Pending(d)' \/ Served(d)'
  <2>1. CASE d = c BY <1>2, <2>1
  <2>2. CASE d # c
    <3>1. \A v \in Workers : key[v] # d BY <1>2, <2>2
    <3> QED BY <2>2, <3>1 DEF Routing
  <2> QED BY <2>1, <2>2
<1> QED BY <1>1, <1>2 DEF Routing

\* Steps that leave the workers alone.
LEMMA AloneRouting ==
  ASSUME TypeInv, Routing, UNCHANGED <<pc, key>>,
         \A d \in CRs : Pending(d)' \/ (Served(d) => Served(d)'),
         \A d \in CRs : Pending(d) => Pending(d)'
  PROVE  Routing'
<1>1. ASSUME NEW v \in Workers, pc'[v] \in AfterProxy
      PROVE  Pending(key[v])' \/ Served(key[v])'
  <2>1. PICK d \in CRs : d = key[v]
    BY <1>1, Busy DEF TypeInv, AfterProxy
  <2>2. Pending(d)' \/ Served(d)' BY <1>1, <2>1 DEF Routing
  <2>3. Pending(d)' => Pending(key[v])' BY <2>1 DEF Pending
  <2>4. Served(d)' => Served(key[v])'
    BY <2>1 DEF Served, Valid, Lives, Wanted, Self, Has, HasHost
  <2> QED BY <2>2, <2>3, <2>4
<1>2. ASSUME NEW d \in CRs, \A v \in Workers : key'[v] # d
      PROVE  Pending(d)' \/ Served(d)'
  BY <1>2 DEF Routing
<1> QED BY <1>1, <1>2 DEF Routing

\* A CR whose finalizer is lifted is gone, and that is an event.
LEMMA LastIsTold ==
  ASSUME TypeInv, MaxFaults = 0, NEW w \in Workers, NEW c \in CRs, c = key[w],
         SoFar(w), NEW ok \in BOOLEAN, Works(w, ok), pc[w] = "unfinalize"
  PROVE  c \in events'
<1>1. Unfinalize(w, ok)
  BY AtIs DEF Works, Annotate, UpdateStatus, Fallback, LeaveOldProxy,
     cleanupProxyForCR, GetOld, WriteOld, GetProxy, CreateProxy, UpdateProxy,
     Record, ensureDeployment, ensureService, GetChild, CreateChild, UpdateChild
<1>2. ok BY <1>1, NoFaults DEF Unfinalize
<1>3. CR(c) \in seen[w] BY DEF SoFar
<1>4. Put(CR(c), Nil) BY <1>1, <1>2, <1>3 DEF Unfinalize, Current
<1>5. store[CR(c)] # Nil BY <1>3 DEF TypeInv, Watched, SeenTyped
<1> QED BY <1>4, <1>5, NameOf DEF Put

\* So the calls of a reconciliation keep the CRs served,
LEMMA WorksRouting ==
  ASSUME TypeInv, QueueInv, Copies, Aims, SeenTo, SeenTo', MaxFaults = 0,
         Peaceful, Routing, NEW w \in Workers, NEW ok \in BOOLEAN, Works(w, ok)
  PROVE  Routing'
<1> USE DEF TypeInv, QueueInv
<1>1. InUse(w) /\ Reach(w) /\ Goes(w) BY WorksInUse, WorksReaches
<1>2. PICK c \in CRs : c = key[w] BY <1>1, Busy DEF InUse
<1>3. \A d \in CRs : Pending(d) => Pending(d)' BY WorksPending
<1>4. ASSUME NEW d \in CRs, d # c PROVE Pending(d)' \/ (Served(d) => Served(d)')
  <2>1. CASE d \in events' BY <2>1 DEF Pending
  <2>2. CASE store'[CR(d)] = store[CR(d)]
    <3>1. ASSUME NEW s \in Specs[d], NEW owner, NEW p \in ProxyNames,
                 p = proxyName(d, s), s.ruta # Nil, Has(p, owner, d, s)
          PROVE  Has(p, owner, d, s)' /\ (HasHost(p, s) => HasHost(p, s)')
      BY <1>1, <1>2, <1>4, <3>1, RouteSurvives
    <3> QED BY <2>2, <3>1, ServedStays
  <2> QED BY <1>1, <2>1, <2>2, ReachTells
<1>5. \A v \in Workers \ {w} : pc'[v] = pc[v] /\ key'[v] = key[v]
  BY <1>1 DEF Goes, Moved, WorkersTyped
<1>6. /\ key'[w] \in {c, Nil}
      /\ pc'[w] \in AfterProxy => key'[w] = c
  BY <1>1, <1>2 DEF Goes, Moved, WorkersTyped, AfterProxy
<1>7. Pending(c)' \/ Served(c)' \/ (key'[w] = c /\ pc'[w] \notin AfterProxy)
  <2> SUFFICES ASSUME ~Pending(c)'
               PROVE  Served(c)' \/ (key'[w] = c /\ pc'[w] \notin AfterProxy)
    OBVIOUS
  <2>1. ~Pending(c) /\ c \notin events' /\ c \notin delayed'
    BY <1>3 DEF Pending
  <2>2. SoFar(w) BY <1>1, <1>2, <2>1 DEF SeenTo, InProgress
  <2>3. store'[CR(c)] = store[CR(c)] BY <1>1, <2>1, ReachTells
  <2>4. ASSUME pc[w] \in AfterProxy PROVE Served(c)'
    <3>1. Served(c) BY <1>2, <2>1, <2>4 DEF Routing
    <3> QED BY <1>1, <1>2, <2>2, <2>3, <2>4, <3>1, JoinedStays
  <2>5. CASE Ends(w)
    <3>1. pc[w] # "unfinalize" BY <1>2, <2>1, <2>2, LastIsTold
    <3>2. ~made[w] BY <2>2 DEF SoFar
    <3>3. pc[w] \in AfterProxy
      BY <1>2, <2>1, <2>5, <3>1, <3>2 DEF Ends, AfterProxy
    <3> QED BY <2>4, <3>3
  <2>6. ASSUME NEW l \in Labels \ {"idle", "get"}, NEW x, NEW o, NEW m,
               Moved(w, l, key[w], x, o, m), Follows(w, l, x, o, m)
        PROVE  Served(c)' \/ (key'[w] = c /\ pc'[w] \notin AfterProxy)
    <3>1. pc'[w] = l /\ key'[w] = c /\ made'[w] = m
      BY <1>2, <2>6 DEF Moved, WorkersTyped
    <3>2. CASE l \notin AfterProxy BY <3>1, <3>2
    <3>3. CASE l = "record"
      BY <1>1, <1>2, <2>2, <2>3, <2>6, <3>3, JoiningServes DEF Follows
    <3>4. CASE l = "fallback"
      BY <2>4, <2>6, <3>4 DEF Follows, AfterProxy
    <3>5. CASE l = "status"
      <4>1. ~m
        <5>1. InUse(w)' BY <3>1, <3>5 DEF InUse
        <5>2. Pending(key[w])' \/ SoFar(w)'
          BY <5>1 DEF SeenTo, InProgress
        <5>3. Pending(key[w])' => Pending(c)' BY <3>1 DEF Pending
        <5> QED BY <3>1, <5>2, <5>3 DEF SoFar
      <4>2. CASE pc[w] = "record" BY <2>4, <4>2 DEF AfterProxy
      <4>3. CASE u[w].spec.ruta = Nil
        <5>1. Wanted(c)'.ruta = Nil
          BY <1>1, <1>2, <2>2, <2>3, <4>3, CopyTells DEF Wanted
        <5> QED BY <5>1 DEF Served
      <4> QED BY <2>6, <3>5, <4>1, <4>2, <4>3 DEF Follows
    <3> QED BY <3>2, <3>3, <3>4, <3>5 DEF AfterProxy
  <2> QED BY <1>1, <2>5, <2>6 DEF Goes
<1> QED BY <1>2, <1>3, <1>4, <1>5, <1>6, <1>7, StepRouting

\* The Get of a CR,
LEMMA GetCRRouting ==
  ASSUME TypeInv, QueueInv, Copies, MaxFaults = 0, Routing,
         NEW w \in Workers, NEW ok \in BOOLEAN, GetCR(w, ok)
  PROVE  Routing'
<1> USE DEF TypeInv, QueueInv
<1>1. PICK c \in CRs : c = key[w] BY DEF GetCR, WorkersTyped, Entry
<1>2. store' = store BY GetCRReads DEF Untouched
<1>3. ok BY NoFaults DEF GetCR
<1>4. \A d \in CRs : Pending(d) => Pending(d)' BY WorksPending
<1>5. \A d \in CRs : Served(d) => Served(d)'
  BY <1>2 DEF Served, Valid, Lives, Wanted, Self, Has, HasHost
<1>6. CASE Untouched /\ Finish(w, FALSE) /\ ~(ok /\ store[CR(c)] # Nil)
  <2>1. Moved(w, "idle", Nil, Nil, Nil, FALSE) BY <1>6, FinishMoves
  <2>2. key'[w] = Nil /\ pc'[w] = "idle"
        /\ \A v \in Workers \ {w} : pc'[v] = pc[v] /\ key'[v] = key[v]
    BY <2>1 DEF Moved, WorkersTyped
  <2>3. Served(c)' BY <1>2, <1>3, <1>6 DEF Served, Valid, Lives
  <2> QED BY <1>1, <1>4, <1>5, <2>2, <2>3, StepRouting DEF AfterProxy
<1>7. CASE \E l \in {"unfinalize", "clean_get", "status", "annotate"},
              x \in CRTypes :
              /\ Moved(w, l, key[w], x, obj[w], made[w])
              /\ Dispatched(w, store[CR(c)], l, x)
              /\ store[CR(c)] # Nil
  <2>1. PICK l \in {"unfinalize", "clean_get", "status", "annotate"},
             x \in CRTypes : /\ Moved(w, l, key[w], x, obj[w], made[w])
                             /\ Dispatched(w, store[CR(c)], l, x)
                             /\ store[CR(c)] # Nil
    BY <1>7
  <2>2. /\ key'[w] = c /\ pc'[w] = l
        /\ \A v \in Workers \ {w} : pc'[v] = pc[v] /\ key'[v] = key[v]
    BY <1>1, <2>1 DEF Moved, WorkersTyped
  <2>3. l \in AfterProxy => Served(c)'
    <3> SUFFICES ASSUME l \in AfterProxy PROVE ~Valid(c)'
      BY DEF Served
    <3>1. store[CR(c)].spec.mult <= 0
      BY <2>1 DEF AfterProxy, Dispatched
    <3>2. store[CR(c)].spec.mult \in Int
      <4>1. store[CR(c)] \in CRTypes
        BY <2>1, NameOf DEF Watched, StoreTyped, Typed, Maybe
      <4> QED BY <4>1, SpecsAssumption DEF CRTypes, AllSpecs
    <3> QED BY <1>2, <3>1, <3>2 DEF Valid, Wanted
  <2> QED BY <1>1, <1>4, <1>5, <2>2, <2>3, StepRouting
<1> QED BY <1>1, <1>6, <1>7, GetCRReads

\* the users, whose writes of a CR are events, and the garbage collector,
LEMMA OthersRouting ==
  ASSUME TypeInv, Aims, Routing, Users \/ \E id \in Ids : CollectGarbage(id)
  PROVE  Routing'
<1> USE DEF TypeInv
<1>1. PICK id \in Ids : \E val : Put(id, val)
  BY UsersPut, GarbagePut
<1>2. WorkersStay BY UsersPut, GarbagePut
<1>3. \A d \in CRs : Pending(d) => Pending(d)'
  BY <1>1, <1>2, PutPending DEF WorkersStay
<1>4. ASSUME NEW d \in CRs PROVE d \in events' \/ store'[CR(d)] = store[CR(d)]
  <2>1. CASE id = CR(d) BY <1>1, <2>1, PutTells DEF Untouched
  <2>2. CASE id # CR(d)
    BY <1>1, <2>2, NameOf DEF Put, Watched, StoreTyped
  <2> QED BY <2>1, <2>2
<1>5. ASSUME NEW d \in CRs PROVE Pending(d)' \/ (Served(d) => Served(d)')
  <2>1. CASE d \in events' BY <2>1 DEF Pending
  <2>2. CASE store'[CR(d)] = store[CR(d)] /\ Users
    <3>1. \A p \in ProxyNames : store'[Proxy(p)] = store[Proxy(p)]
      BY <2>2, UsersKeep
    <3> QED BY <2>2, <3>1, ServedStays DEF Has, HasHost
  <2>3. ASSUME store'[CR(d)] = store[CR(d)],
               NEW i \in Ids, CollectGarbage(i), Served(d)
        PROVE  Served(d)'
    <3>1. CASE Valid(d)
      <4>1. store[CR(d)] # Nil BY <3>1 DEF Valid, Lives
      <4>2. Self(d)' = Self(d) BY <2>3 DEF Self
      <4>3. ASSUME NEW s \in Specs[d], NEW owner, NEW p \in ProxyNames,
                   Has(p, owner, d, s), owner = Self(d)
            PROVE  Has(p, owner, d, s)' /\ (HasHost(p, s) => HasHost(p, s)')
        <5>1. Has(p, Self(d), d, s) BY <4>3
        <5>2. Has(p, Self(d), d, s)' /\ (HasHost(p, s) => HasHost(p, s)')
          BY <2>3, <4>1, <5>1, GarbageKeepsRoute
        <5> QED BY <4>2, <4>3, <5>2 DEF Has
      <4> QED BY <2>3, <4>3, ServedStays
    <3>2. CASE ~Valid(d)
      BY <2>3, <3>2 DEF Served, Valid, Lives, Wanted
    <3> QED BY <3>1, <3>2
  <2> QED BY <1>4, <2>1, <2>2, <2>3
<1> QED BY <1>2, <1>3, <1>5, AloneRouting DEF WorkersStay

\* the queue, which only moves what is pending,
LEMMA QueueingRouting ==
  ASSUME TypeInv, QueueInv, Routing,
         (\E c \in CRs : enqueueObj(c) \/ Retry(c)) \/ UNCHANGED vars
  PROVE  Routing'
<1>1. UNCHANGED <<store, pc, key>> BY DEF enqueueObj, Retry, vars
<1>2. \A d \in CRs : Served(d) => Served(d)'
  BY <1>1 DEF Served, Valid, Lives, Wanted, Self, Has, HasHost
<1>3. ASSUME NEW c \in CRs, enqueueObj(c) \/ Retry(c)
      PROVE  wq'.dirty = wq.dirty \cup {c}
  BY <1>3, AddDirty DEF enqueueObj, Retry, QueueInv
<1>4. ASSUME NEW d \in CRs, Pending(d) PROVE Pending(d)'
  BY <1>3, <1>4 DEF Pending, enqueueObj, Retry, vars
<1> QED BY <1>1, <1>2, <1>4, AloneRouting

\* a restart, which sees to every CR again,
LEMMA RestartRouting ==
  ASSUME Restart
  PROVE  Routing'
<1>1. \A w \in Workers : pc'[w] \notin AfterProxy BY DEF Restart, AfterProxy
<1>2. ASSUME NEW d \in CRs PROVE Pending(d)' \/ Served(d)'
  <2>1. CASE store[CR(d)] = Nil
    BY <2>1 DEF Restart, Served, Valid, Lives
  <2>2. CASE store[CR(d)] # Nil
    BY <2>2, NameOf DEF Restart, Pending
  <2> QED BY <2>1, <2>2
<1> QED BY <1>1, <1>2 DEF Routing

\* and a worker that takes a key, who has still to join the proxy.
LEMMA TakeRouting ==
  ASSUME TypeInv, QueueInv, Routing, NEW w \in Workers, Take(w)
  PROVE  Routing'
<1> USE DEF TypeInv, QueueInv
<1>1. PICK h \in CRs : h = Head(wq.queue)
  BY DEF Take, QueueTypes
<1>2. /\ UNCHANGED <<store, events, delayed>>
      /\ wq'.dirty = wq.dirty \ {h}
      /\ key' = [key EXCEPT ![w] = h] /\ pc' = [pc EXCEPT ![w] = "get"]
      /\ pc[w] = "idle"
  BY <1>1 DEF Take, Q!Get, Goto
<1>3. key[w] = Nil BY <1>2 DEF WorkersTyped, Entry
<1>4. \A d \in CRs : Served(d) => Served(d)'
  BY <1>2 DEF Served, Valid, Lives, Wanted, Self, Has, HasHost
<1>5. \A d \in CRs \ {h} : Pending(d) => Pending(d)' BY <1>2 DEF Pending
<1>6. key'[w] = h /\ pc'[w] = "get" BY <1>2 DEF WorkersTyped
<1>7. \A v \in Workers \ {w} : pc'[v] = pc[v] /\ key'[v] = key[v]
  BY <1>2 DEF WorkersTyped
<1>8. 1 \in DOMAIN wq.queue /\ wq.queue[1] = h BY <1>1 DEF Take, QueueTypes
<1>9. h \notin wq.processing BY <1>8 DEF QueuedDirty
<1>10. ASSUME NEW v \in Workers, pc'[v] \in AfterProxy
       PROVE  Pending(key[v])' \/ Served(key[v])'
  <2>1. v # w BY <1>6, <1>10 DEF AfterProxy
  <2>2. PICK d \in CRs : d = key[v]
    BY <1>7, <1>10, <2>1, Busy DEF AfterProxy
  <2>3. d # h BY <1>9, <2>2, NilAssumption DEF HeldProcessing
  <2>4. Pending(d)' \/ Served(d)'
    BY <1>4, <1>5, <1>7, <1>10, <2>1, <2>2, <2>3 DEF Routing
  <2>5. d = key'[v] BY <1>7, <2>1, <2>2
  <2>6. Pending(d)' => Pending(key[v])' BY <2>5 DEF Pending
  <2>7. Served(d)' => Served(key[v])'
    BY <2>5 DEF Served, Valid, Lives, Wanted, Self, Has, HasHost
  <2> QED BY <2>4, <2>6, <2>7
<1>11. ASSUME NEW d \in CRs, \A v \in Workers : key'[v] # d
       PROVE  Pending(d)' \/ Served(d)'
  <2>1. d # h BY <1>6, <1>11
  <2>2. \A v \in Workers : key[v] # d
    BY <1>3, <1>7, <1>11, NilAssumption
  <2> QED BY <1>4, <1>5, <2>1, <2>2 DEF Routing
<1> QED BY <1>10, <1>11 DEF Routing

\* While no call fails, a valid CR with a ruta is pending, or has its route, or
\* a worker has still to join its proxy: however the workers of the CRs that
\* share the proxy interleave, none loses its route (main.go:677-769).
THEOREM RoutingInvariance ==
  ASSUME MaxFaults = 0, Peaceful
  PROVE  Spec => []Routing
<1>1. Init => Routing
  <2> SUFFICES ASSUME Init PROVE Routing OBVIOUS
  <2>1. \A w \in Workers : pc[w] \notin AfterProxy BY DEF Init, AfterProxy
  <2>2. \A c \in CRs : Served(c)
    BY NameOf DEF Init, Served, Valid, Lives
  <2> QED BY <2>1, <2>2 DEF Routing
<1>2. /\ TypeInv /\ QueueInv /\ Copies /\ Aims /\ SeenTo /\ SeenTo' /\ Routing
      /\ [Next]_vars
      => Routing'
  <2> SUFFICES ASSUME TypeInv, QueueInv, Copies, Aims, SeenTo, SeenTo', Routing,
                      [Next]_vars
               PROVE  Routing'
    OBVIOUS
  <2>1. ASSUME NEW w \in Workers, Reconcile(w) PROVE Routing'
    BY <2>1, ReconcileIs, GetCRRouting, WorksRouting
  <2>2. ASSUME NEW w \in Workers, Take(w) PROVE Routing'
    BY <2>2, TakeRouting
  <2>3. CASE Restart BY <2>3, RestartRouting
  <2>4. CASE Users \/ \E id \in Ids : CollectGarbage(id)
    BY <2>4, OthersRouting
  <2>5. CASE (\E c \in CRs : enqueueObj(c) \/ Retry(c)) \/ UNCHANGED vars
    BY <2>5, QueueingRouting
  <2> QED BY <2>1, <2>2, <2>3, <2>4, <2>5 DEF Next, Cluster
<1> QED BY <1>1, <1>2, TypeInvariance, QueueInvariance, CopiesInvariance,
           AimsInvariance, SeenToInvariance, PTL DEF Spec

\* When the operator has nothing left to do, every live CR with a positive
\* multiplicador and a ruta has its route, its owner and its host in its proxy,
\* if no call failed and the CRs that share a proxy neither claim one another's
\* ruta nor leave it (main.go:565-626, 677-769).
THEOREM RoutedAtRest ==
  ASSUME MaxFaults = 0, Peaceful
  PROVE  Spec => []Routed
<1>1. TypeInv /\ QueueInv /\ NothingForgotten /\ Routing => Routed
  <2> SUFFICES ASSUME TypeInv, QueueInv, NothingForgotten, Routing, Quiet,
                      NEW c \in CRs, Valid(c), Wanted(c).ruta # Nil
               PROVE  /\ ProxyFor(c) # Nil
                      /\ Self(c) \in ProxyFor(c).owners
                      /\ RouteFor(c) \in ProxyFor(c).routes
                      /\ Wanted(c).host # Nil =>
                           ProxyFor(c).vhost = Wanted(c).host
    BY DEF Routed
  <2>1. (\A w \in Workers : key[w] = Nil) /\ ~Pending(c) BY NonePending
  <2>2. Served(c) BY <2>1, NilAssumption DEF Routing
  <2> QED BY <2>2 DEF Served, Has, HasHost, ProxyFor, RouteFor
<1> QED BY <1>1, TypeInvariance, QueueInvariance, NothingForgottenInvariance,
           RoutingInvariance, PTL
=============================================================================
