--------------------------- MODULE OperatorProofs ---------------------------
(***************************************************************************)
(* What holds in every state of the Multiplicador operator, for any CRs,   *)
(* workers, specs and bounds.  No two workers have the same CR at once: a  *)
(* key that a worker has is being processed, and a key that is being       *)
(* processed is not in the queue.  Everything stored and in hand is typed. *)
(* A worker's copy of its CR, while it is current, has the CR's own spec,  *)
(* so no write of the operator undoes an edit.  A worker leaves only the   *)
(* proxies its CR has asked for, so CRs that keep to rutas of their own    *)
(* keep their routes in a shared proxy.                                    *)
(***************************************************************************)
EXTENDS OperatorProperties, TLAPS

(* The work queue. *)

QueueTypes ==
  /\ wq \in [queue : Seq(CRs), dirty : SUBSET CRs, processing : SUBSET CRs]
  /\ key \in [Workers -> CRs \cup {Nil}]

\* The queue holds no key twice.
QueuedOnce ==
  \A i, j \in DOMAIN wq.queue : wq.queue[i] = wq.queue[j] => i = j

\* What is in the queue is dirty, and nobody processes it.
QueuedDirty ==
  \A i \in DOMAIN wq.queue : /\ wq.queue[i] \in wq.dirty
                             /\ wq.queue[i] \notin wq.processing

\* What a worker has is being processed.
HeldProcessing == \A w \in Workers : key[w] # Nil => key[w] \in wq.processing

QueueInv ==
  QueueTypes /\ QueuedOnce /\ QueuedDirty /\ HeldProcessing /\ OneWorkerPerKey

-----------------------------------------------------------------------------
(* What a step may do to the queue and to the items of the workers.        *)

Idle == UNCHANGED <<wq, key>>
Release(w) ==
  wq' = Q!Done(wq, key[w]) /\ key' = [key EXCEPT ![w] = Nil]
Adds(c) == wq' = Q!Add(wq, c) /\ UNCHANGED key
Takes(w) == /\ wq.queue # <<>>
            /\ wq' = Q!Get(wq)
            /\ key' = [key EXCEPT ![w] = Head(wq.queue)]

\* What follows a Deployment or Service leaves the queue, or releases the key.
LEMMA AfterChildShape ==
  ASSUME NEW w \in Workers, NEW kind, AfterChild(w, kind)
  PROVE  Idle \/ Release(w)
BY DEF AfterChild, Proceed, Keep, control, Finish, Idle, Release

\* So does what follows a status.
LEMMA AfterStatusShape ==
  ASSUME NEW w \in Workers, NEW err, AfterStatus(w, err)
  PROVE  Idle \/ Release(w)
BY DEF AfterStatus, Proceed, Keep, control, Finish, Idle, Release

\* So do the calls about Deployments and Services.
LEMMA ChildShape ==
  ASSUME NEW w \in Workers, NEW ok, NEW kind,
         \/ GetChild(w, ok, kind) \/ CreateChild(w, ok, kind)
         \/ UpdateChild(w, ok, kind)
  PROVE  Idle \/ Release(w)
<1> USE DEF Proceed, Keep, control, Finish, Idle, Release
<1>1. CASE GetChild(w, ok, kind)
  BY <1>1, AfterChildShape DEF GetChild
<1>2. CASE CreateChild(w, ok, kind)
  BY <1>2, AfterChildShape DEF CreateChild
<1>3. CASE UpdateChild(w, ok, kind)
  BY <1>3, AfterChildShape DEF UpdateChild
<1> QED BY <1>1, <1>2, <1>3

\* A step of a reconciliation goes on with its item, or lets it go.
LEMMA ReconcileShape ==
  ASSUME NEW w \in Workers, Reconcile(w)
  PROVE  Idle \/ Release(w)
<1> USE DEF Proceed, Keep, control, Finish, Idle, Release
<1>1. PICK ok \in BOOLEAN :
        \/ GetCR(w, ok)        \/ Annotate(w, ok)
        \/ UpdateStatus(w, ok) \/ Fallback(w, ok)
        \/ LeaveOldProxy(w, ok) \/ cleanupProxyForCR(w, ok)
        \/ Unfinalize(w, ok)
        \/ GetProxy(w, ok)     \/ CreateProxy(w, ok)
        \/ UpdateProxy(w, ok)  \/ Record(w, ok)
        \/ ensureDeployment(w, ok) \/ ensureService(w, ok)
  BY DEF Reconcile
<1>2. CASE GetCR(w, ok)
  BY <1>2 DEF GetCR
<1>3. CASE Annotate(w, ok)
  BY <1>3 DEF Annotate
<1>4. CASE UpdateStatus(w, ok)
  BY <1>4, AfterStatusShape DEF UpdateStatus
<1>5. CASE Fallback(w, ok)
  BY <1>5, AfterStatusShape DEF Fallback
<1>6. CASE LeaveOldProxy(w, ok) \/ cleanupProxyForCR(w, ok)
  BY <1>6 DEF LeaveOldProxy, cleanupProxyForCR, GetOld, WriteOld
<1>7. CASE Unfinalize(w, ok)
  BY <1>7 DEF Unfinalize
<1>8. CASE GetProxy(w, ok)
  BY <1>8 DEF GetProxy
<1>9. CASE CreateProxy(w, ok)
  BY <1>9 DEF CreateProxy, Remember
<1>10. CASE UpdateProxy(w, ok)
  BY <1>10 DEF UpdateProxy, Remember
<1>11. CASE Record(w, ok)
  BY <1>11 DEF Record
<1>12. CASE ensureDeployment(w, ok) \/ ensureService(w, ok)
  BY <1>12, ChildShape DEF ensureDeployment, ensureService
<1> QED
  BY <1>1, <1>2, <1>3, <1>4, <1>5, <1>6, <1>7, <1>8, <1>9, <1>10, <1>11,
     <1>12

\* Users and the garbage collector leave the queue alone; events and retries
\* add a key to it.
LEMMA OtherShape ==
  ASSUME Users \/ Cluster
  PROVE  Idle \/ \E c \in CRs : Adds(c)
<1>1. ASSUME Users PROVE Idle
  BY <1>1 DEF Users, CreateCR, EditCR, DeleteCR, DeleteDeployment,
              TouchDeployment, WorkersStay, control, Idle
<1>2. ASSUME NEW id \in Ids, CollectGarbage(id) PROVE Idle
  BY <1>2 DEF CollectGarbage, WorkersStay, control, Idle
<1>3. ASSUME NEW c \in CRs, enqueueObj(c) \/ Retry(c) PROVE Adds(c)
  BY <1>3 DEF enqueueObj, Retry, Adds
<1> QED BY <1>1, <1>2, <1>3 DEF Cluster

-----------------------------------------------------------------------------
(* Each of them preserves the invariant.                                   *)

\* A key is added.
LEMMA AddsKeeps ==
  ASSUME QueueInv, NEW c \in CRs, Adds(c)
  PROVE  QueueInv'
<1> USE DEF QueueInv, Adds
<1>1. CASE c \in wq.dirty
  BY <1>1 DEF Q!Add, QueueTypes, QueuedOnce, QueuedDirty, HeldProcessing,
              OneWorkerPerKey
<1>2. CASE c \notin wq.dirty /\ c \in wq.processing
  <2>1. wq' = [wq EXCEPT !.dirty = @ \cup {c}]
    BY <1>2 DEF Q!Add
  <2> QED BY <2>1 DEF QueueTypes, QueuedOnce, QueuedDirty, HeldProcessing,
                      OneWorkerPerKey
<1>3. CASE c \notin wq.dirty /\ c \notin wq.processing
  <2>1. wq' = [wq EXCEPT !.dirty = @ \cup {c}, !.queue = Append(@, c)]
    BY <1>3 DEF Q!Add
  <2>2. /\ wq'.queue = Append(wq.queue, c)
        /\ wq'.dirty = wq.dirty \cup {c}
        /\ wq'.processing = wq.processing
        /\ QueueTypes'
    <3>1. Append(wq.queue, c) \in Seq(CRs) BY DEF QueueTypes
    <3>2. wq' = [queue |-> Append(wq.queue, c), dirty |-> wq.dirty \cup {c},
                 processing |-> wq.processing]
      BY <2>1 DEF QueueTypes
    <3> QED BY <3>1, <3>2 DEF QueueTypes
  <2>3. \A i \in DOMAIN wq.queue : wq.queue[i] # c
    BY <1>3 DEF QueuedDirty
  <2>4. QueuedOnce' /\ QueuedDirty'
    BY <1>3, <2>2, <2>3 DEF QueueTypes, QueuedOnce, QueuedDirty
  <2> QED BY <2>2, <2>4 DEF HeldProcessing, OneWorkerPerKey
<1> QED BY <1>1, <1>2, <1>3

\* A worker takes a key.
LEMMA TakesKeeps ==
  ASSUME QueueInv, NEW w \in Workers, Takes(w)
  PROVE  QueueInv'
<1> USE NilAssumption DEF QueueInv, Takes
<1> DEFINE c == Head(wq.queue)
<1>1. /\ c = wq.queue[1] /\ 1 \in DOMAIN wq.queue /\ c \in CRs
      /\ Tail(wq.queue) \in Seq(CRs)
      /\ \A i \in DOMAIN Tail(wq.queue) :
           i + 1 \in DOMAIN wq.queue /\ Tail(wq.queue)[i] = wq.queue[i + 1]
  BY DEF QueueTypes
<1>2. /\ wq'.queue = Tail(wq.queue)
      /\ wq'.dirty = wq.dirty \ {c}
      /\ wq'.processing = wq.processing \cup {c}
      /\ QueueTypes'
  BY <1>1 DEF Q!Get, QueueTypes
<1>3. QueuedOnce'
  BY <1>1, <1>2 DEF QueuedOnce, QueueTypes
<1>4. \A i \in DOMAIN Tail(wq.queue) : Tail(wq.queue)[i] # c
  BY <1>1 DEF QueuedOnce, QueueTypes
<1>5. QueuedDirty'
  BY <1>1, <1>2, <1>4 DEF QueuedDirty
<1>6. c \notin wq.processing
  BY <1>1 DEF QueuedDirty
<1>7. HeldProcessing' /\ OneWorkerPerKey'
  BY <1>1, <1>2, <1>6 DEF HeldProcessing, OneWorkerPerKey, QueueTypes
<1> QED BY <1>2, <1>3, <1>5, <1>7

\* A worker is done with its key.
LEMMA ReleaseKeeps ==
  ASSUME QueueInv, NEW w \in Workers, Release(w)
  PROVE  QueueInv'
<1> USE NilAssumption DEF QueueInv, Release
<1>1. /\ wq'.dirty = wq.dirty
      /\ wq'.processing = wq.processing \ {key[w]}
      /\ wq'.queue = IF key[w] \in wq.dirty THEN Append(wq.queue, key[w])
                     ELSE wq.queue
      /\ QueueTypes'
  <2> DEFINE left == IF key[w] \in wq.dirty THEN Append(wq.queue, key[w])
                     ELSE wq.queue
  <2>1. left \in Seq(CRs) BY DEF QueueTypes
  <2>2. wq' = [queue |-> left, dirty |-> wq.dirty,
               processing |-> wq.processing \ {key[w]}]
    BY DEF Q!Done, QueueTypes
  <2> QED BY <2>1, <2>2 DEF QueueTypes
<1>2. HeldProcessing' /\ OneWorkerPerKey'
  BY <1>1 DEF HeldProcessing, OneWorkerPerKey, QueueTypes
<1>3. CASE key[w] \in wq.dirty
  <2>1. key[w] \in wq.processing
    BY <1>3 DEF QueueTypes, HeldProcessing
  <2>2. \A i \in DOMAIN wq.queue : wq.queue[i] # key[w]
    BY <2>1 DEF QueuedDirty
  <2>3. QueuedOnce' /\ QueuedDirty'
    BY <1>1, <1>3, <2>2 DEF QueueTypes, QueuedOnce, QueuedDirty
  <2> QED BY <1>1, <1>2, <2>3
<1>4. CASE key[w] \notin wq.dirty
  BY <1>1, <1>2, <1>4 DEF QueuedOnce, QueuedDirty
<1> QED BY <1>3, <1>4

-----------------------------------------------------------------------------
\* The invariant of the work queue (client-go's, as main.go:193-226 uses it).
THEOREM QueueInvariance == Spec => []QueueInv
<1>1. Init => QueueInv
  BY DEF Init, QueueInv, QueueTypes, QueuedOnce, QueuedDirty, HeldProcessing,
         OneWorkerPerKey, Q!EmptyQueue
<1>2. QueueInv /\ [Next]_vars => QueueInv'
  <2> SUFFICES ASSUME QueueInv, [Next]_vars PROVE QueueInv' OBVIOUS
  <2>1. CASE Idle
    BY <2>1 DEF Idle, QueueInv, QueueTypes, QueuedOnce, QueuedDirty,
                HeldProcessing, OneWorkerPerKey
  <2>2. CASE Users \/ Cluster
    BY <2>1, <2>2, OtherShape, AddsKeeps
  <2>3. CASE Restart
    BY <2>3 DEF Restart, QueueInv, QueueTypes, QueuedOnce, QueuedDirty,
                HeldProcessing, OneWorkerPerKey, Q!EmptyQueue
  <2>4. ASSUME NEW w \in Workers, Take(w) PROVE QueueInv'
    BY <2>4, TakesKeeps DEF Take, Takes
  <2>5. ASSUME NEW w \in Workers, Reconcile(w) PROVE QueueInv'
    BY <2>1, <2>5, ReconcileShape, ReleaseKeeps
  <2>6. CASE UNCHANGED vars
    BY <2>1, <2>6 DEF vars, Idle
  <2> QED BY <2>2, <2>3, <2>4, <2>5, <2>6 DEF Next
<1> QED BY <1>1, <1>2, PTL DEF Spec

\* The workers of main.go:229-235 never reconcile one CR at the same time,
\* however events, retries and restarts are interleaved with their calls.
THEOREM OneWorkerHasIt == Spec => []OneWorkerPerKey
<1>1. QueueInv => OneWorkerPerKey BY DEF QueueInv
<1> QED BY <1>1, QueueInvariance, PTL
-----------------------------------------------------------------------------
(* The types. *)

\* What may be stored under an id.
Typed(id, val) ==
  /\ id[1] = "cr" => val \in Maybe(CRTypes)
  /\ id[1] \in {"deployment", "service"} => val \in Maybe(ChildTypes)
  /\ id[1] = "proxy" => val \in Maybe(ProxyTypes)

\* The API server's objects, what the workers know to be current, the events.
StoreTyped ==
  /\ store = [id \in Ids |-> store[id]]
  /\ \A id \in Ids : Typed(id, store[id])
\* A worker knows to be current only what is stored.
SeenTyped ==
  /\ seen = [w \in Workers |-> seen[w]]
  /\ \A w \in Workers : seen[w] \subseteq {id \in Ids : store[id] # Nil}
Watched == StoreTyped /\ SeenTyped /\ events \subseteq CRs

\* What a worker has in hand at the label l.
Entry(l, k, x, o, m) ==
  /\ l \in Labels
  /\ k \in IF l = "idle" THEN {Nil} ELSE CRs
  /\ x \in Maybe(CRTypes) /\ o \in Maybe(ProxyTypes) /\ m \in BOOLEAN
  /\ l \notin {"idle", "get"} => x \in CRTypes
  /\ l \in {"old_write", "clean_write", "proxy_update"} => o \in ProxyTypes
  /\ l \in {"old_get", "old_write", "clean_get", "clean_write"}
       => x.ann.proxy \in ProxyNames
\* Each worker is at a label with what it needs there.
WorkersTyped ==
  /\ pc \in [Workers -> Labels] /\ key \in [Workers -> Maybe(CRs)]
  /\ u \in [Workers -> Maybe(CRTypes)] /\ obj \in [Workers -> Maybe(ProxyTypes)]
  /\ made \in [Workers -> BOOLEAN]
  /\ \A w \in Workers : Entry(pc[w], key[w], u[w], obj[w], made[w])

\* The bounds are kept, and no CR is younger than the edits.
Counted == /\ edits \in 0 .. MaxEdits /\ faults \in 0 .. MaxFaults
           /\ born \in [CRs -> 0 .. edits]

\* The type invariant in full, which TypeOK follows from.
TypeInv == /\ Watched /\ WorkersTyped /\ Counted /\ delayed \subseteq CRs

-----------------------------------------------------------------------------
\* The ids of a CR and of its objects.
LEMMA NameOf ==
  ASSUME NEW c \in CRs
  PROVE  /\ CR(c) \in Ids /\ CR(c)[1] = "cr" /\ CR(c)[2] = c
         /\ <<"deployment", c>> \in Ids /\ <<"service", c>> \in Ids
  BY DEF CR, Ids

\* The id of a proxy.
LEMMA ProxyId ==
  ASSUME NEW p \in ProxyNames
  PROVE  Proxy(p) \in Ids /\ Proxy(p)[1] = "proxy"
  BY DEF Proxy, Ids

\* What an id is made of.
LEMMA IdShape ==
  ASSUME NEW id \in Ids
  PROVE  /\ id[1] \in {"cr", "deployment", "service", "proxy"}
         /\ id[1] # "proxy" => id[2] \in CRs
         /\ id[1] = "proxy" => id[2] \in ProxyNames
  BY DEF Ids

\* A write of what may be stored keeps the API server typed.
LEMMA PutTyped ==
  ASSUME Watched, NEW id \in Ids, NEW val, Typed(id, val), Put(id, val)
  PROVE  Watched'
<1>1. store' = [store EXCEPT ![id] = val] BY DEF Put
<1>2. /\ store' = [j \in Ids |-> store'[j]]
      /\ store'[id] = val
      /\ \A j \in Ids \ {id} : store'[j] = store[j]
  BY <1>1 DEF Watched, StoreTyped
<1>3. StoreTyped'
  BY <1>2 DEF Watched, StoreTyped, Typed
<1>4. SeenTyped'
  BY <1>2 DEF Watched, SeenTyped, Put
<1>5. events' \subseteq CRs
  BY IdShape DEF Watched, Put
<1> QED BY <1>3, <1>4, <1>5 DEF Watched

\* A read of what is stored does too,
LEMMA ReadTyped ==
  ASSUME Watched, NEW w \in Workers, NEW id \in Ids, store[id] # Nil, Read(w, id)
  PROVE  Watched'
  BY DEF Watched, StoreTyped, SeenTyped, Typed, Read

\* and a step that leaves the API server alone.
LEMMA UntouchedTyped ==
  ASSUME Watched, Untouched
  PROVE  Watched'
  BY DEF Watched, StoreTyped, SeenTyped, Typed, Untouched

\* A worker goes to l with these in hand.
Moved(w, l, k, x, o, m) ==
  /\ pc' = [pc EXCEPT ![w] = l] /\ key' = [key EXCEPT ![w] = k]
  /\ u' = [u EXCEPT ![w] = x] /\ obj' = [obj EXCEPT ![w] = o]
  /\ made' = [made EXCEPT ![w] = m]

\* A worker that has what its label needs is typed.
LEMMA MovedTyped ==
  ASSUME WorkersTyped, NEW w \in Workers, NEW l, NEW k, NEW x, NEW o, NEW m,
         Moved(w, l, k, x, o, m), Entry(l, k, x, o, m)
  PROVE  WorkersTyped'
<1>1. /\ pc' \in [Workers -> Labels] /\ key' \in [Workers -> Maybe(CRs)]
      /\ u' \in [Workers -> Maybe(CRTypes)]
      /\ obj' \in [Workers -> Maybe(ProxyTypes)]
      /\ made' \in [Workers -> BOOLEAN]
  BY DEF WorkersTyped, Moved, Entry, Maybe
<1>2. \A v \in Workers : Entry(pc'[v], key'[v], u'[v], obj'[v], made'[v])
  BY DEF WorkersTyped, Moved
<1> QED BY <1>1, <1>2 DEF WorkersTyped

\* Proceed keeps what is in hand,
LEMMA ProceedMoves ==
  ASSUME WorkersTyped, NEW w \in Workers, NEW l, Proceed(w, l)
  PROVE  Moved(w, l, key[w], u[w], obj[w], made[w])
  BY DEF WorkersTyped, Proceed, Goto, Keep, Moved

\* Finish drops it,
LEMMA FinishMoves ==
  ASSUME NEW w \in Workers, NEW err, Finish(w, err)
  PROVE  Moved(w, "idle", Nil, Nil, Nil, FALSE)
  BY DEF Finish, Goto, Moved

\* and an idle worker needs nothing.
LEMMA IdleEntry == Entry("idle", Nil, Nil, Nil, FALSE)
  BY DEF Entry, Labels, Maybe

\* What concerns the workers.
Held == WorkersTyped /\ delayed \subseteq CRs

\* To go on to a label one has what is needed for keeps them typed,
LEMMA ProceedTyped ==
  ASSUME Held, NEW w \in Workers, NEW l, Proceed(w, l),
         Entry(l, key[w], u[w], obj[w], made[w])
  PROVE  Held'
  BY ProceedMoves, MovedTyped DEF Held, Proceed, Keep, control

\* and so does the end of a reconciliation.
LEMMA FinishTyped ==
  ASSUME Held, NEW w \in Workers, pc[w] # "idle", NEW err, Finish(w, err)
  PROVE  Held'
<1>1. key[w] \in CRs BY DEF Held, WorkersTyped, Entry
<1>2. WorkersTyped' BY FinishMoves, IdleEntry, MovedTyped DEF Held
<1> QED BY <1>1, <1>2 DEF Held, Finish

\* Entry of labels that ask for no more than a CR.
Simple ==
  {"annotate", "status", "fallback", "unfinalize", "proxy_get",
   "proxy_create", "record", "deployment_get", "deployment_create",
   "deployment_update", "service_get", "service_create", "service_update"}

\* The labels of the two kinds of objects a CR owns.
LEMMA AtIs ==
  /\ At["deployment"].get = "deployment_get"
  /\ At["deployment"].create = "deployment_create"
  /\ At["deployment"].update = "deployment_update"
  /\ At["service"].get = "service_get"
  /\ At["service"].create = "service_create"
  /\ At["service"].update = "service_update"
  BY DEF At

\* They are labels.
LEMMA SimpleLabels == Simple \subseteq Labels
<1>1. "deployment" \in DOMAIN At /\ "service" \in DOMAIN At
  BY DEF At
<1>2. /\ At["deployment"]["get"] = "deployment_get"
      /\ At["deployment"]["create"] = "deployment_create"
      /\ At["deployment"]["update"] = "deployment_update"
      /\ At["service"]["get"] = "service_get"
      /\ At["service"]["create"] = "service_create"
      /\ At["service"]["update"] = "service_update"
  BY DEF At
<1> QED BY <1>1, <1>2 DEF Labels, Simple

\* A simple label needs no more than a CR,
LEMMA SimpleEntry ==
  ASSUME NEW l \in Simple, NEW k \in CRs, NEW x \in CRTypes,
         NEW o \in Maybe(ProxyTypes), NEW m \in BOOLEAN
  PROVE  Entry(l, k, x, o, m)
  BY SimpleLabels DEF Entry, Simple, Maybe

\* which a worker in the middle of a reconciliation has,
LEMMA Busy ==
  ASSUME WorkersTyped, NEW w \in Workers, pc[w] \notin {"idle", "get"}
  PROVE  /\ key[w] \in CRs /\ u[w] \in CRTypes /\ obj[w] \in Maybe(ProxyTypes)
         /\ made[w] \in BOOLEAN
  BY DEF WorkersTyped, Entry

\* so it may go to any of them.
LEMMA SimpleProceed ==
  ASSUME Held, NEW w \in Workers, pc[w] \notin {"idle", "get"},
         NEW l \in Simple, Proceed(w, l)
  PROVE  Held'
  BY Busy, SimpleEntry, ProceedTyped DEF Held

\* What a CR asks for is among what CRs may ask for.
LEMMA SpecTyped ==
  ASSUME NEW x \in CRTypes, NEW c \in CRs
  PROVE  /\ x.spec \in AllSpecs /\ x.spec.mult \in Mults
         /\ x.spec.ruta \in Rutas /\ x.spec.host \in Maybe(Hosts)
         /\ proxyName(c, x.spec) \in ProxyNames
         /\ <<c, x.uid>> \in CRs \X Uids
<1>1. /\ x.spec \in AllSpecs /\ x.spec.mult \in Mults
      /\ x.spec.ruta \in Rutas /\ x.spec.host \in Maybe(Hosts)
  BY DEF CRTypes, Mults, Rutas, AllSpecs, Hosts, Maybe
<1>2. proxyName(c, x.spec) \in ProxyNames
  BY <1>1 DEF proxyName, ProxyNames, Maybe
<1>3. x.uid \in Uids BY DEF CRTypes
<1> QED BY <1>1, <1>2, <1>3

\* What follows a Deployment or a Service,
LEMMA AfterChildTyped ==
  ASSUME Held, NEW w \in Workers, pc[w] \notin {"idle", "get"},
         NEW kind \in {"deployment", "service"}, AfterChild(w, kind)
  PROVE  Held'
<1>1. CASE kind = "deployment"
  BY <1>1, SimpleProceed DEF AfterChild, Simple
<1>2. CASE kind = "service" /\ u[w].spec.ruta = Nil
  <2>1. Finish(w, FALSE) \/ Proceed(w, "status") BY <1>2 DEF AfterChild
  <2> QED BY <2>1, FinishTyped, SimpleProceed DEF Simple
<1>3. CASE kind = "service" /\ u[w].spec.ruta # Nil
  <2>1. CASE u[w].ann.proxy \in {Nil, ProxyOf(w)}
    <3>1. Proceed(w, "proxy_get") BY <1>3, <2>1 DEF AfterChild
    <3> QED BY <3>1, SimpleProceed DEF Simple
  <2>2. CASE u[w].ann.proxy \notin {Nil, ProxyOf(w)}
    <3>1. Proceed(w, "old_get") BY <1>3, <2>2 DEF AfterChild
    <3>2. u[w].ann.proxy \in ProxyNames
      BY Busy, <2>2 DEF Held, CRTypes, Maybe
    <3>3. Entry("old_get", key[w], u[w], obj[w], made[w])
      BY Busy, <3>2 DEF Held, Entry, Labels, Maybe
    <3> QED BY <3>1, <3>3, ProceedTyped
  <2> QED BY <2>1, <2>2
<1> QED BY <1>1, <1>2, <1>3

\* and what follows the status, keeps the workers typed.
LEMMA AfterStatusTyped ==
  ASSUME Held, NEW w \in Workers, pc[w] \notin {"idle", "get"},
         NEW err, AfterStatus(w, err)
  PROVE  Held'
<1>1. CASE made[w]
  BY <1>1, SimpleProceed DEF AfterStatus, Simple
<1>2. CASE ~made[w]
  BY <1>2, FinishTyped DEF AfterStatus
<1> QED BY <1>1, <1>2

-----------------------------------------------------------------------------
\* What the API server makes of a CR that is put.
LEMMA CRPut ==
  ASSUME NEW x \in CRTypes, NEW d \in BOOLEAN, NEW m \in Maybe(Mults)
  PROVE  [x EXCEPT !.deleting = d, !.status = m] \in CRTypes
  BY DEF CRTypes, Maybe

\* An attempt of Annotate, Record or Fallback to put the CR.
LEMMA TryTyped ==
  ASSUME Watched, WorkersTyped, NEW w \in Workers,
         pc[w] \notin {"idle", "get"}, NEW ok, Try(w, ok)
  PROVE  Watched'
<1>1. key[w] \in CRs /\ u[w] \in CRTypes BY Busy
<1>2. CASE ok /\ Current(w, CR(key[w]))
  <2>1. PutCR(w) BY <1>2 DEF Try
  <2> DEFINE id == CR(key[w])
             old == store[id]
  <2>2. id \in Ids /\ id[1] = "cr" BY <1>1, NameOf
  <2>3. old # Nil BY <1>2 DEF Current, Watched, SeenTyped
  <2>4. old \in CRTypes BY <2>2, <2>3 DEF Watched, StoreTyped, Typed, Maybe
  <2>5. old.deleting \in BOOLEAN /\ old.status \in Maybe(Mults)
    BY <2>4 DEF CRTypes
  <2>6. [u[w] EXCEPT !.deleting = old.deleting, !.status = old.status] \in CRTypes
    BY <1>1, <2>5, CRPut
  <2> DEFINE new == [u[w] EXCEPT !.deleting = old.deleting, !.status = old.status]
  <2>7. \/ Put(id, Nil) \/ Put(id, new)
    BY <2>1 DEF PutCR
  <2>8. Typed(id, Nil) /\ Typed(id, new)
    BY <2>2, <2>6 DEF Typed, Maybe
  <2> HIDE DEF id, new
  <2> QED BY <2>2, <2>7, <2>8, PutTyped
<1>3. CASE ~(ok /\ Current(w, CR(key[w])))
  BY <1>3, UntouchedTyped DEF Try
<1> QED BY <1>2, <1>3

\* The kinds of the objects a CR owns.
Kinds == {"deployment", "service"}

\* Their ids.
LEMMA ChildId ==
  ASSUME NEW kind \in Kinds, NEW c \in CRs
  PROVE  /\ <<kind, c>> \in Ids /\ <<kind, c>>[1] = kind
         /\ kind # "proxy" /\ kind # "cr"
  BY DEF Ids, Kinds

\* What the worker means to create for its CR is well-typed.
LEMMA DesiredTyped ==
  ASSUME NEW w \in Workers, key[w] \in CRs, u[w] \in CRTypes,
         NEW kind \in Kinds
  PROVE  /\ Desired(kind, w) \in ChildTypes
         /\ Typed(<<kind, key[w]>>, Desired(kind, w))
<1>1. Config(kind, w) \in Mults \cup {0, 8080}
  <2>1. u[w].spec.mult \in Mults BY SpecTyped
  <2> QED BY <2>1 DEF Config
<1>2. {Owner(w)} \in SUBSET (CRs \X Uids) BY SpecTyped DEF Owner
<1>3. Desired(kind, w) \in ChildTypes
  BY <1>1, <1>2 DEF Desired, ChildTypes
<1> QED BY <1>3, ChildId DEF Typed, Maybe

\* The calls about Deployments and Services: Get,
LEMMA GetChildTyped ==
  ASSUME Watched, Held, NEW w \in Workers, NEW ok, NEW kind \in Kinds,
         GetChild(w, ok, kind)
  PROVE  Watched' /\ Held'
<1>1. pc[w] \notin {"idle", "get"} BY AtIs DEF GetChild, Kinds
<1>2. key[w] \in CRs BY <1>1, Busy DEF Held
<1>3. <<kind, key[w]>> \in Ids BY <1>2, ChildId
<1>4. At[kind].update \in Simple /\ At[kind].create \in Simple
  BY AtIs DEF Simple, Kinds
<1>5. CASE ok /\ store[<<kind, key[w]>>] # Nil
  <2>1. Watched' BY <1>3, <1>5, ReadTyped DEF GetChild
  <2>2. AfterChild(w, kind) \/ Proceed(w, At[kind].update)
    BY <1>5 DEF GetChild
  <2>3. Held' BY <1>1, <1>4, <2>2, AfterChildTyped, SimpleProceed DEF Kinds
  <2> QED BY <2>1, <2>3
<1>6. CASE ~(ok /\ store[<<kind, key[w]>>] # Nil)
  <2>1. Untouched /\ Proceed(w, At[kind].create) BY <1>6 DEF GetChild
  <2> QED BY <1>1, <1>4, <2>1, UntouchedTyped, SimpleProceed
<1> QED BY <1>5, <1>6

\* Create,
LEMMA CreateChildTyped ==
  ASSUME Watched, Held, NEW w \in Workers, NEW ok, NEW kind \in Kinds,
         CreateChild(w, ok, kind)
  PROVE  Watched' /\ Held'
<1>1. pc[w] \notin {"idle", "get"} BY AtIs DEF CreateChild, Kinds
<1>2. /\ key[w] \in CRs /\ u[w] \in CRTypes
      /\ obj[w] \in Maybe(ProxyTypes) /\ made[w] \in BOOLEAN
  BY <1>1, Busy DEF Held
<1>3. <<kind, key[w]>> \in Ids BY <1>2, ChildId
<1>4. CASE ok /\ store[<<kind, key[w]>>] = Nil
  <2>1. Watched'
    BY <1>2, <1>3, <1>4, DesiredTyped, PutTyped DEF CreateChild
  <2>2. CASE kind = "service"
    <3>1. AfterChild(w, kind) BY <1>4, <2>2 DEF CreateChild
    <3> QED BY <1>1, <2>1, <3>1, AfterChildTyped DEF Kinds
  <2>3. CASE kind # "service"
    <3>1. /\ Moved(w, "status", key[w], u[w], obj[w], TRUE)
          /\ delayed' = delayed
      BY <1>4, <2>3
      DEF CreateChild, Goto, Keep, control, Moved, Held, WorkersTyped
    <3>2. Entry("status", key[w], u[w], obj[w], TRUE)
      BY <1>2, SimpleEntry DEF Simple
    <3> QED BY <2>1, <3>1, <3>2, MovedTyped DEF Held
  <2> QED BY <2>2, <2>3
<1>5. CASE ~(ok /\ store[<<kind, key[w]>>] = Nil)
  <2>1. Untouched /\ Finish(w, TRUE) BY <1>5 DEF CreateChild
  <2> QED BY <1>1, <2>1, UntouchedTyped, FinishTyped
<1> QED BY <1>4, <1>5

\* and Update.
LEMMA UpdateChildTyped ==
  ASSUME Watched, Held, NEW w \in Workers, NEW ok, NEW kind \in Kinds,
         UpdateChild(w, ok, kind)
  PROVE  Watched' /\ Held'
<1>1. pc[w] \notin {"idle", "get"} BY AtIs DEF UpdateChild, Kinds
<1>2. key[w] \in CRs /\ u[w] \in CRTypes BY <1>1, Busy DEF Held
<1>3. <<kind, key[w]>> \in Ids BY <1>2, ChildId
<1>4. \/ Put(<<kind, key[w]>>, Desired(kind, w)) /\ AfterChild(w, kind)
      \/ Untouched /\ Finish(w, TRUE)
  BY DEF UpdateChild
<1>5. CASE Put(<<kind, key[w]>>, Desired(kind, w)) /\ AfterChild(w, kind)
  BY <1>1, <1>2, <1>3, <1>5, DesiredTyped, PutTyped, AfterChildTyped DEF Kinds
<1>6. CASE Untouched /\ Finish(w, TRUE)
  BY <1>1, <1>6, UntouchedTyped, FinishTyped
<1> QED BY <1>4, <1>5, <1>6

\* Both ways to write the status.
LEMMA StatusTyped ==
  ASSUME Watched, Held, NEW w \in Workers, NEW ok,
         UpdateStatus(w, ok) \/ Fallback(w, ok)
  PROVE  Watched' /\ Held'
<1>1. pc[w] \notin {"idle", "get"} BY DEF UpdateStatus, Fallback
<1>2. key[w] \in CRs /\ u[w] \in CRTypes BY <1>1, Busy DEF Held
<1>3. CR(key[w]) \in Ids /\ CR(key[w])[1] = "cr" BY <1>2, NameOf
<1>4. CASE UpdateStatus(w, ok)
  <2>1. CASE ok /\ StatusAllowed /\ Current(w, CR(key[w]))
    <3> DEFINE id == CR(key[w])
               old == store[id]
               told == IF StatusKept THEN u[w].spec.mult ELSE old.status
    <3>1. old \in CRTypes
      BY <1>3, <2>1 DEF Watched, StoreTyped, SeenTyped, Typed, Maybe, Current
    <3>2. told \in Maybe(Mults)
      BY <1>2, <3>1, SpecTyped DEF CRTypes, Maybe
    <3>3. [old EXCEPT !.status = told] \in CRTypes
      BY <3>1, <3>2 DEF CRTypes
    <3>4. Put(id, [old EXCEPT !.status = told])
      BY <1>4, <2>1 DEF UpdateStatus
    <3>5. AfterStatus(w, FALSE)
      BY <1>4, <2>1 DEF UpdateStatus
    <3>6. Typed(id, [old EXCEPT !.status = told])
      BY <1>3, <3>3 DEF Typed, Maybe
    <3> HIDE DEF id, old, told
    <3>7. Watched' BY <1>3, <3>4, <3>6, PutTyped DEF id
    <3> QED BY <1>1, <3>5, <3>7, AfterStatusTyped
  <2>2. CASE ~(ok /\ StatusAllowed /\ Current(w, CR(key[w])))
    <3>1. Untouched /\ Proceed(w, "fallback") BY <1>4, <2>2 DEF UpdateStatus
    <3> QED BY <1>1, <3>1, UntouchedTyped, SimpleProceed DEF Simple
  <2> QED BY <2>1, <2>2
<1>5. CASE Fallback(w, ok)
  BY <1>1, <1>5, TryTyped, AfterStatusTyped DEF Fallback, Held
<1> QED BY <1>4, <1>5

\* The proxies.
LEMMA GetOldTyped ==
  ASSUME Watched, Held, NEW w \in Workers, NEW ok, NEW here, NEW there, NEW next,
         \/ /\ here = "old_get" /\ there = "old_write" /\ next = "proxy_get"
         \/ /\ here = "clean_get" /\ there = "clean_write" /\ next = "unfinalize",
         GetOld(w, ok, here, there, next)
  PROVE  Watched' /\ Held'
<1>1. pc[w] \in {"old_get", "clean_get"} BY DEF GetOld
<1>2. /\ key[w] \in CRs /\ u[w] \in CRTypes /\ u[w].ann.proxy \in ProxyNames
      /\ made[w] \in BOOLEAN
  BY <1>1, Busy DEF Held, WorkersTyped, Entry
<1> DEFINE id == Proxy(u[w].ann.proxy)
<1>3. id \in Ids /\ id[1] = "proxy" BY <1>2, ProxyId
<1>4. CASE ok /\ store[id] # Nil
  <2> DEFINE old == store[id]
             new == [old EXCEPT !.owners = @ \ {Owner(w)},
                                !.routes = {r \in @ : r.prefix # u[w].ann.route}]
  <2>1. old \in ProxyTypes
    BY <1>3, <1>4 DEF Watched, StoreTyped, Typed, Maybe
  <2>2. new \in ProxyTypes BY <2>1 DEF ProxyTypes
  <2>3. Read(w, id) /\ obj' = [obj EXCEPT ![w] = new]
    BY <1>4 DEF GetOld
  <2> HIDE DEF new
  <2>4. /\ Moved(w, there, key[w], u[w], new, made[w])
        /\ delayed' = delayed
    BY <1>4, <2>3 DEF GetOld, Goto, Keep, control, Moved, Held, WorkersTyped
  <2>5. Entry(there, key[w], u[w], new, made[w])
    BY <1>2, <2>2 DEF Entry, Labels, Maybe
  <2>6. Held' BY <2>4, <2>5, MovedTyped DEF Held
  <2>7. Watched' BY <1>3, <1>4, <2>3, ReadTyped
  <2> QED BY <2>6, <2>7
<1>5. CASE ~(ok /\ store[id] # Nil)
  <2>1. Untouched /\ Proceed(w, next) BY <1>5 DEF GetOld
  <2> QED BY <1>1, <2>1, UntouchedTyped, SimpleProceed DEF Simple
<1> QED BY <1>4, <1>5

\* the write or the deletion of it,
LEMMA WriteOldTyped ==
  ASSUME Watched, Held, NEW w \in Workers, NEW ok, NEW here, NEW next \in Simple,
         here \in {"old_write", "clean_write"}, WriteOld(w, ok, here, next)
  PROVE  Watched' /\ Held'
<1>1. pc[w] \in {"old_write", "clean_write"} /\ Proceed(w, next)
  BY DEF WriteOld
<1>2. u[w].ann.proxy \in ProxyNames /\ obj[w] \in ProxyTypes
  BY <1>1 DEF Held, WorkersTyped, Entry
<1> DEFINE id == Proxy(u[w].ann.proxy)
<1>3. id \in Ids /\ id[1] = "proxy" BY <1>2, ProxyId
<1>4. Put(id, Nil) \/ Put(id, obj[w]) \/ Untouched
  <2> DEFINE useless == obj[w].owners = {} /\ obj[w].routes = {}
  <2>1. CASE ok /\ useless BY <2>1 DEF WriteOld
  <2>2. CASE ok /\ ~useless /\ Current(w, id) BY <2>2 DEF WriteOld
  <2>3. CASE ~(ok /\ useless) /\ ~(ok /\ ~useless /\ Current(w, id))
    BY <2>3 DEF WriteOld
  <2> QED BY <2>1, <2>2, <2>3
<1>5. Typed(id, Nil) /\ Typed(id, obj[w])
  BY <1>2, <1>3 DEF Typed, Maybe
<1>6. Watched' BY <1>3, <1>4, <1>5, PutTyped, UntouchedTyped
<1> QED BY <1>1, <1>6, SimpleProceed

\* and the removal of the finalizer.
LEMMA UnfinalizeTyped ==
  ASSUME Watched, Held, NEW w \in Workers, NEW ok, Unfinalize(w, ok)
  PROVE  Watched' /\ Held'
<1>1. pc[w] = "unfinalize" /\ Finish(w, FALSE) BY DEF Unfinalize
<1>2. CR(key[w]) \in Ids /\ Typed(CR(key[w]), Nil)
  BY <1>1, Busy, NameOf DEF Held, Typed, Maybe
<1>3. Put(CR(key[w]), Nil) \/ Untouched BY DEF Unfinalize
<1> QED BY <1>1, <1>2, <1>3, PutTyped, UntouchedTyped, FinishTyped

\* What the worker means to write into the proxy of its CR.
LEMMA ProxyOfTyped ==
  ASSUME NEW w \in Workers, key[w] \in CRs, u[w] \in CRTypes
  PROVE  /\ ProxyOf(w) \in ProxyNames
         /\ Proxy(ProxyOf(w)) \in Ids /\ Proxy(ProxyOf(w))[1] = "proxy"
         /\ Owner(w) \in CRs \X Uids
         /\ Route(w) \in [prefix : Rutas, service : CRs]
         /\ u[w].spec.host \in Maybe(Hosts)
<1>1. ProxyOf(w) \in ProxyNames BY SpecTyped DEF ProxyOf
<1>2. Owner(w) \in CRs \X Uids BY SpecTyped DEF Owner
<1>3. u[w].spec.ruta \in Rutas BY SpecTyped
<1>4. Route(w) \in [prefix : Rutas, service : CRs] BY <1>3 DEF Route
<1>5. u[w].spec.host \in Maybe(Hosts) BY SpecTyped
<1> QED BY <1>1, <1>2, <1>4, <1>5, ProxyId

\* The calls about that proxy: Get,
LEMMA GetProxyTyped ==
  ASSUME Watched, Held, NEW w \in Workers, NEW ok, GetProxy(w, ok)
  PROVE  Watched' /\ Held'
<1>1. pc[w] = "proxy_get" BY DEF GetProxy
<1>2. key[w] \in CRs /\ u[w] \in CRTypes /\ made[w] \in BOOLEAN
  BY <1>1, Busy DEF Held
<1> DEFINE id == Proxy(ProxyOf(w))
<1>3. id \in Ids /\ id[1] = "proxy" BY <1>2, ProxyOfTyped
<1>4. CASE ok /\ store[id] # Nil
  <2>1. store[id] \in ProxyTypes
    BY <1>3, <1>4 DEF Watched, StoreTyped, Typed, Maybe
  <2>2. /\ Moved(w, "proxy_update", key[w], u[w], store[id], made[w])
        /\ delayed' = delayed /\ Read(w, id)
    BY <1>4 DEF GetProxy, Goto, Keep, control, Moved, Held, WorkersTyped
  <2>3. Entry("proxy_update", key[w], u[w], store[id], made[w])
    BY <1>2, <2>1 DEF Entry, Labels, Maybe
  <2>4. Held' BY <2>2, <2>3, MovedTyped DEF Held
  <2>5. Watched' BY <1>3, <1>4, <2>2, ReadTyped
  <2> QED BY <2>4, <2>5
<1>5. CASE ~(ok /\ store[id] # Nil)
  <2>1. Untouched /\ Proceed(w, "proxy_create") BY <1>5 DEF GetProxy
  <2> QED BY <1>1, <2>1, UntouchedTyped, SimpleProceed DEF Simple
<1> QED BY <1>4, <1>5

\* The annotations and the finalizer that the worker then adds to the CR.
LEMMA Remembered ==
  ASSUME NEW x \in CRTypes, NEW p \in ProxyNames, NEW r \in Rutas,
         NEW b \in BOOLEAN
  PROVE  [x EXCEPT !.ann.proxy = p, !.ann.route = r, !.finalizer = @ \/ b]
           \in CRTypes
  BY DEF CRTypes, Maybe

\* To add them keeps the workers typed.
LEMMA RememberTyped ==
  ASSUME Held, NEW w \in Workers, pc[w] \notin {"idle", "get"},
         NEW finalizer \in BOOLEAN, Remember(w, finalizer)
  PROVE  Held'
<1>1. /\ key[w] \in CRs /\ u[w] \in CRTypes
      /\ obj[w] \in Maybe(ProxyTypes) /\ made[w] \in BOOLEAN
  BY Busy DEF Held
<1>2. u[w].spec.ruta \in Rutas BY <1>1, SpecTyped
<1>3. ProxyOf(w) \in ProxyNames BY <1>1, ProxyOfTyped
<1> DEFINE x == [u[w] EXCEPT !.ann.proxy = ProxyOf(w),
                   !.ann.route = u[w].spec.ruta, !.finalizer = @ \/ finalizer]
<1>4. x \in CRTypes BY <1>1, <1>2, <1>3, Remembered
<1>5. u' = [u EXCEPT ![w] = x] BY <1>1 DEF Remember, Held, WorkersTyped
<1> HIDE DEF x
<1>6. Moved(w, "record", key[w], x, obj[w], made[w]) /\ delayed' = delayed
  BY <1>5 DEF Remember, Goto, Keep, control, Moved, Held, WorkersTyped
<1> QED BY <1>1, <1>4, <1>6, SimpleEntry, MovedTyped DEF Held, Simple

\* Create,
LEMMA CreateProxyTyped ==
  ASSUME Watched, Held, NEW w \in Workers, NEW ok, CreateProxy(w, ok)
  PROVE  Watched' /\ Held'
<1>1. pc[w] = "proxy_create" BY DEF CreateProxy
<1>2. key[w] \in CRs /\ u[w] \in CRTypes BY <1>1, Busy DEF Held
<1> DEFINE id == Proxy(ProxyOf(w))
           new == [owners |-> {Owner(w)}, routes |-> {Route(w)},
                   vhost |-> u[w].spec.host]
<1>3. id \in Ids /\ id[1] = "proxy" BY <1>2, ProxyOfTyped
<1>4. new \in ProxyTypes BY <1>2, ProxyOfTyped DEF ProxyTypes
<1>5. Typed(id, new) BY <1>3, <1>4 DEF Typed, Maybe
<1>6. \/ Put(id, new) /\ Remember(w, FALSE)
      \/ Untouched /\ Finish(w, TRUE)
  BY DEF CreateProxy
<1> HIDE DEF id, new
<1> QED BY <1>1, <1>3, <1>5, <1>6, PutTyped, UntouchedTyped, FinishTyped,
           RememberTyped

\* and Update.
LEMMA UpdateProxyTyped ==
  ASSUME Watched, Held, NEW w \in Workers, NEW ok, UpdateProxy(w, ok)
  PROVE  Watched' /\ Held'
<1>1. pc[w] = "proxy_update" BY DEF UpdateProxy
<1>2. key[w] \in CRs /\ u[w] \in CRTypes BY <1>1, Busy DEF Held
<1>3. obj[w] \in ProxyTypes BY <1>1 DEF Held, WorkersTyped, Entry
<1> DEFINE id == Proxy(ProxyOf(w))
<1>4. id \in Ids /\ id[1] = "proxy" BY <1>2, ProxyOfTyped
<1>5. Merged(w) \in ProxyTypes
  <2>1. /\ Owner(w) \in CRs \X Uids /\ u[w].spec.host \in Maybe(Hosts)
        /\ Route(w) \in [prefix : Rutas, service : CRs]
    BY <1>2, ProxyOfTyped
  <2> QED BY <1>3, <2>1 DEF Merged, ProxyTypes, Maybe
<1>6. Typed(id, Merged(w)) BY <1>4, <1>5 DEF Typed, Maybe
<1>7. \/ Put(id, Merged(w)) /\ Remember(w, TRUE)
      \/ Untouched /\ Finish(w, TRUE)
  BY DEF UpdateProxy
<1> HIDE DEF id
<1> QED BY <1>1, <1>4, <1>6, <1>7, PutTyped, UntouchedTyped, FinishTyped,
           RememberTyped

\* The writes of the annotations.
LEMMA AnnotateTyped ==
  ASSUME Watched, Held, NEW w \in Workers, NEW ok,
         Annotate(w, ok) \/ Record(w, ok)
  PROVE  Watched' /\ Held'
<1>1. pc[w] \notin {"idle", "get"} BY DEF Annotate, Record
<1>2. Try(w, ok) BY DEF Annotate, Record
<1>3. Watched' BY <1>1, <1>2, TryTyped DEF Held
<1>4. \/ Proceed(w, "deployment_get") \/ Proceed(w, "status")
      \/ Finish(w, FALSE)
  BY DEF Annotate, Record
<1> QED BY <1>1, <1>3, <1>4, SimpleProceed, FinishTyped DEF Simple

\* The CR as reconcileOne sends it.
LEMMA Stamped ==
  ASSUME NEW x \in CRTypes, NEW m \in Mults
  PROVE  /\ [x EXCEPT !.ann.valid = "false"] \in CRTypes
         /\ [x EXCEPT !.ann.valid = "true", !.ann.mult = m] \in CRTypes
  BY DEF CRTypes, Maybe

\* What a worker makes of a CR it has read.
Dispatched(w, cr, l, x) ==
  /\ Goto(w, l) /\ u' = [u EXCEPT ![w] = x]
  /\ x.spec = cr.spec /\ x.uid = cr.uid /\ x.deleting = cr.deleting
  /\ x.ann.proxy = cr.ann.proxy
  /\ \/ cr.deleting /\ l = "unfinalize"
     \/ cr.deleting /\ l = "clean_get" /\ cr.ann.proxy # Nil
     \/ ~cr.deleting /\ cr.spec.mult <= 0 /\ l = "status"
     \/ ~cr.deleting /\ ~(cr.spec.mult <= 0) /\ l = "annotate"

\* Dispatch does that.
LEMMA DispatchShape ==
  ASSUME NEW w \in Workers, NEW cr \in CRTypes, Dispatch(w, cr)
  PROVE  \E l \in {"unfinalize", "clean_get", "status", "annotate"},
            x \in CRTypes : Dispatched(w, cr, l, x)
<1> DEFINE false == [cr EXCEPT !.ann.valid = "false"]
           true == [cr EXCEPT !.ann.valid = "true", !.ann.mult = cr.spec.mult]
<1>1. cr.deleting \in BOOLEAN BY DEF CRTypes
<1>2. /\ false \in CRTypes /\ true \in CRTypes
  <2>1. cr.spec.mult \in Mults BY DEF CRTypes, Mults
  <2> QED BY <2>1, Stamped
<1>3. /\ false.spec = cr.spec /\ false.uid = cr.uid
      /\ false.deleting = cr.deleting /\ false.ann.proxy = cr.ann.proxy
      /\ true.spec = cr.spec /\ true.uid = cr.uid
      /\ true.deleting = cr.deleting /\ true.ann.proxy = cr.ann.proxy
  BY DEF CRTypes
<1>4. CASE cr.deleting
  <2>1. u' = [u EXCEPT ![w] = cr]
    BY <1>4 DEF Dispatch
  <2>2. Goto(w, IF cr.ann.proxy = Nil THEN "unfinalize" ELSE "clean_get")
    BY <1>4 DEF Dispatch
  <2>3. CASE cr.ann.proxy = Nil
    BY <1>4, <2>1, <2>2, <2>3 DEF Dispatched
  <2>4. CASE cr.ann.proxy # Nil
    BY <1>4, <2>1, <2>2, <2>4 DEF Dispatched
  <2> QED BY <2>3, <2>4
<1>5. CASE ~cr.deleting /\ cr.spec.mult <= 0
  <2>1. u' = [u EXCEPT ![w] = false] /\ Goto(w, "status")
    BY <1>5 DEF Dispatch
  <2> HIDE DEF false
  <2> QED BY <1>2, <1>3, <1>5, <2>1 DEF Dispatched
<1>6. CASE ~cr.deleting /\ ~(cr.spec.mult <= 0)
  <2>1. u' = [u EXCEPT ![w] = true] /\ Goto(w, "annotate")
    BY <1>6 DEF Dispatch
  <2> HIDE DEF true
  <2> QED BY <1>2, <1>3, <1>6, <2>1 DEF Dispatched
<1> QED BY <1>1, <1>4, <1>5, <1>6

\* So the Get of the CR keeps everything typed.
LEMMA GetCRTyped ==
  ASSUME Watched, Held, NEW w \in Workers, NEW ok, GetCR(w, ok)
  PROVE  Watched' /\ Held'
<1>1. pc[w] = "get" BY DEF GetCR
<1>2. /\ key[w] \in CRs /\ obj[w] \in Maybe(ProxyTypes) /\ made[w] \in BOOLEAN
  BY <1>1 DEF Held, WorkersTyped, Entry
<1> DEFINE id == CR(key[w])
<1>3. id \in Ids /\ id[1] = "cr" BY <1>2, NameOf
<1>4. CASE ok /\ store[id] # Nil
  <2>1. store[id] \in CRTypes
    BY <1>3, <1>4 DEF Watched, StoreTyped, Typed, Maybe
  <2>2. /\ Dispatch(w, store[id]) /\ Keep /\ UNCHANGED <<store, events, obj, made>>
        /\ seen' = [seen EXCEPT ![w] = {id}]
    BY <1>4 DEF GetCR
  <2>3. Watched'
    BY <1>3, <1>4, <2>2 DEF Watched, StoreTyped, SeenTyped, Typed
  <2>4. PICK l \in {"unfinalize", "clean_get", "status", "annotate"},
             x \in CRTypes : Dispatched(w, store[id], l, x)
    BY <2>1, <2>2, DispatchShape
  <2>5. /\ Moved(w, l, key[w], x, obj[w], made[w]) /\ delayed' = delayed
    BY <2>2, <2>4
    DEF Dispatched, Goto, Keep, control, Moved, Held, WorkersTyped
  <2>6. Entry(l, key[w], x, obj[w], made[w])
    <3>1. CASE l = "clean_get"
      <4>1. x.ann.proxy = store[id].ann.proxy /\ store[id].ann.proxy # Nil
        BY <2>4, <3>1 DEF Dispatched
      <4>2. x.ann.proxy \in ProxyNames BY <4>1 DEF CRTypes, Maybe
      <4> QED BY <1>2, <3>1, <4>2 DEF Entry, Labels, Maybe
    <3>2. CASE l # "clean_get"
      <4>1. l \in Simple BY <2>4, <3>2 DEF Simple
      <4> QED BY <1>2, <2>4, <4>1, SimpleEntry
    <3> QED BY <3>1, <3>2
  <2> QED BY <2>3, <2>5, <2>6, MovedTyped DEF Held
<1>5. CASE ~(ok /\ store[id] # Nil)
  <2>1. Untouched /\ Finish(w, FALSE) BY <1>5 DEF GetCR
  <2> QED BY <1>1, <2>1, UntouchedTyped, FinishTyped
<1> QED BY <1>4, <1>5

\* The steps of a reconciliation after the Get of its CR.
Works(w, ok) ==
  \/ Annotate(w, ok)
  \/ UpdateStatus(w, ok) \/ Fallback(w, ok)
  \/ LeaveOldProxy(w, ok) \/ cleanupProxyForCR(w, ok) \/ Unfinalize(w, ok)
  \/ GetProxy(w, ok)     \/ CreateProxy(w, ok)
  \/ UpdateProxy(w, ok)  \/ Record(w, ok)
  \/ ensureDeployment(w, ok) \/ ensureService(w, ok)

\* A step of a reconciliation is the Get or one of them.
LEMMA ReconcileIs ==
  ASSUME NEW w \in Workers, Reconcile(w)
  PROVE  \E ok \in BOOLEAN : GetCR(w, ok) \/ Works(w, ok)
  BY DEF Reconcile, Works

\* A step of a reconciliation is one call, and none of the users' or cluster's.
LEMMA CallOf ==
  ASSUME NEW w \in Workers, NEW ok, GetCR(w, ok) \/ Works(w, ok)
  PROVE  Call(ok) /\ UNCHANGED world /\ delayed \subseteq delayed'
<1> USE DEF Try, Proceed, Keep, control, Finish, AfterChild, AfterStatus
<1>1. CASE GetCR(w, ok) BY <1>1 DEF GetCR
<1>2. CASE Annotate(w, ok) \/ Record(w, ok) \/ Fallback(w, ok)
  BY <1>2 DEF Annotate, Record, Fallback
<1>3. CASE UpdateStatus(w, ok) BY <1>3 DEF UpdateStatus
<1>4. CASE LeaveOldProxy(w, ok) \/ cleanupProxyForCR(w, ok)
  BY <1>4 DEF LeaveOldProxy, cleanupProxyForCR, GetOld, WriteOld
<1>5. CASE Unfinalize(w, ok) BY <1>5 DEF Unfinalize
<1>6. CASE GetProxy(w, ok) BY <1>6 DEF GetProxy
<1>7. CASE CreateProxy(w, ok) BY <1>7 DEF CreateProxy, Remember
<1>8. CASE UpdateProxy(w, ok) BY <1>8 DEF UpdateProxy, Remember
<1>9. CASE ensureDeployment(w, ok) \/ ensureService(w, ok)
  BY <1>9 DEF ensureDeployment, ensureService, GetChild, CreateChild, UpdateChild
<1> QED BY <1>1, <1>2, <1>3, <1>4, <1>5, <1>6, <1>7, <1>8, <1>9
       DEF Works

\* Every step of a reconciliation keeps the types.
LEMMA ReconcileTyped ==
  ASSUME TypeInv, NEW w \in Workers, Reconcile(w)
  PROVE  TypeInv'
<1>1. PICK ok \in BOOLEAN : GetCR(w, ok) \/ Works(w, ok)
  BY ReconcileIs
<1>2. Watched /\ Held BY DEF TypeInv, Held
<1>3. Watched' /\ Held'
  <2>3. CASE GetCR(w, ok) BY <1>2, <2>3, GetCRTyped
  <2>4. CASE Annotate(w, ok) \/ Record(w, ok) BY <1>2, <2>4, AnnotateTyped
  <2>5. CASE UpdateStatus(w, ok) \/ Fallback(w, ok) BY <1>2, <2>5, StatusTyped
  <2>6. CASE LeaveOldProxy(w, ok)
    BY <1>2, <2>6, GetOldTyped, WriteOldTyped DEF LeaveOldProxy, Simple
  <2>7. CASE cleanupProxyForCR(w, ok)
    BY <1>2, <2>7, GetOldTyped, WriteOldTyped DEF cleanupProxyForCR, Simple
  <2>8. CASE Unfinalize(w, ok) BY <1>2, <2>8, UnfinalizeTyped
  <2>9. CASE GetProxy(w, ok) BY <1>2, <2>9, GetProxyTyped
  <2>10. CASE CreateProxy(w, ok) BY <1>2, <2>10, CreateProxyTyped
  <2>11. CASE UpdateProxy(w, ok) BY <1>2, <2>11, UpdateProxyTyped
  <2>12. CASE ensureDeployment(w, ok)
    BY <1>2, <2>12, GetChildTyped, CreateChildTyped, UpdateChildTyped
    DEF ensureDeployment, Kinds
  <2>13. CASE ensureService(w, ok)
    BY <1>2, <2>13, GetChildTyped, CreateChildTyped, UpdateChildTyped
    DEF ensureService, Kinds
  <2> QED BY <1>1, <2>3, <2>4, <2>5, <2>6, <2>7, <2>8, <2>9, <2>10, <2>11,
             <2>12, <2>13 DEF Works
<1>4. Call(ok) /\ UNCHANGED world
  BY <1>1, CallOf
<1>5. Counted' BY <1>4, BoundsAssumption DEF TypeInv, Counted, Call, world
<1> QED BY <1>3, <1>5 DEF TypeInv, Held

-----------------------------------------------------------------------------
\* Users, and the garbage collector, write to the API server and leave the
\* workers alone.
LEMMA StayTyped ==
  ASSUME Held, WorkersStay
  PROVE  Held'
  BY DEF Held, WorkersTyped, Entry, WorkersStay, control

\* An edit is counted.
LEMMA EditCounts ==
  ASSUME Counted, Edit, UNCHANGED faults, born' = born
  PROVE  Counted'
  BY BoundsAssumption DEF Counted, Edit

\* The users keep the types,
LEMMA UsersTyped ==
  ASSUME TypeInv, Users
  PROVE  TypeInv'
<1>1. PICK c \in CRs :
        \/ \E spec \in Specs[c] : CreateCR(c, spec) \/ EditCR(c, spec)
        \/ DeleteCR(c) \/ DeleteDeployment(c) \/ TouchDeployment(c)
  BY DEF Users
<1> USE DEF TypeInv
<1>2. CR(c) \in Ids /\ CR(c)[1] = "cr" BY NameOf
<1>3. <<"deployment", c>> \in Ids BY NameOf
<1>4. WorkersStay BY <1>1 DEF CreateCR, EditCR, DeleteCR, DeleteDeployment, TouchDeployment
<1>5. Held' BY <1>4, StayTyped DEF Held
<1>6. Watched' /\ Counted'
  <2>1. ASSUME NEW spec \in Specs[c], CreateCR(c, spec)
        PROVE  Watched' /\ Counted'
    <3>1. /\ edits < MaxEdits /\ edits' = edits + 1
          /\ born' = [born EXCEPT ![c] = @ + 1] /\ faults' = faults
      BY <2>1 DEF CreateCR, Edit, WorkersStay
    <3>2. Counted' BY <3>1, BoundsAssumption DEF Counted
    <3>3. born[c] + 1 \in Uids
      BY <3>1, BoundsAssumption DEF Counted, Uids
    <3>4. spec \in AllSpecs BY DEF AllSpecs
    <3>5. NewCR(born[c] + 1, spec) \in CRTypes
      BY <3>3, <3>4 DEF NewCR, CRTypes, NoAnnotations, Maybe
    <3>6. Put(CR(c), NewCR(born[c] + 1, spec)) BY <2>1 DEF CreateCR
    <3>7. Typed(CR(c), NewCR(born[c] + 1, spec)) BY <1>2, <3>5 DEF Typed, Maybe
    <3> QED BY <1>2, <3>2, <3>6, <3>7, PutTyped
  <2>2. ASSUME NEW spec \in Specs[c], EditCR(c, spec)
        PROVE  Watched' /\ Counted'
    <3>1. Counted' BY <2>2, EditCounts DEF EditCR, WorkersStay
    <3>2. store[CR(c)] \in CRTypes
      BY <1>2, <2>2 DEF EditCR, Watched, StoreTyped, Typed, Maybe
    <3>3. [store[CR(c)] EXCEPT !.spec = spec] \in CRTypes
      BY <3>2 DEF CRTypes, AllSpecs
    <3>4. Put(CR(c), [store[CR(c)] EXCEPT !.spec = spec]) BY <2>2 DEF EditCR
    <3>5. Typed(CR(c), [store[CR(c)] EXCEPT !.spec = spec])
      BY <1>2, <3>3 DEF Typed, Maybe
    <3> QED BY <1>2, <3>1, <3>4, <3>5, PutTyped
  <2>3. CASE DeleteCR(c)
    <3>1. Counted' BY <2>3, EditCounts DEF DeleteCR, WorkersStay
    <3>2. store[CR(c)] \in CRTypes
      BY <1>2, <2>3 DEF DeleteCR, Watched, StoreTyped, Typed, Maybe
    <3>3. [store[CR(c)] EXCEPT !.deleting = TRUE] \in CRTypes
      BY <3>2 DEF CRTypes
    <3>4. \/ Put(CR(c), [store[CR(c)] EXCEPT !.deleting = TRUE])
          \/ Put(CR(c), Nil)
      BY <2>3 DEF DeleteCR
    <3>5. /\ Typed(CR(c), [store[CR(c)] EXCEPT !.deleting = TRUE])
          /\ Typed(CR(c), Nil)
      BY <1>2, <3>3 DEF Typed, Maybe
    <3> QED BY <1>2, <3>1, <3>4, <3>5, PutTyped
  <2>4. CASE DeleteDeployment(c)
    <3>1. Counted' BY <2>4, EditCounts DEF DeleteDeployment, WorkersStay
    <3>2. Put(<<"deployment", c>>, Nil) BY <2>4 DEF DeleteDeployment
    <3>3. Typed(<<"deployment", c>>, Nil) BY DEF Typed, Maybe
    <3> QED BY <1>3, <3>1, <3>2, <3>3, PutTyped
  <2>5. CASE TouchDeployment(c)
    <3> DEFINE id == <<"deployment", c>>
    <3>1. Counted' BY <2>5, EditCounts DEF TouchDeployment, WorkersStay
    <3>2. store[id] \in ChildTypes
      BY <1>3, <2>5 DEF TouchDeployment, Watched, StoreTyped, Typed, Maybe
    <3>3. [store[id] EXCEPT !.config = 0] \in ChildTypes
      BY <3>2 DEF ChildTypes
    <3>4. Put(id, [store[id] EXCEPT !.config = 0]) BY <2>5 DEF TouchDeployment
    <3>5. Typed(id, [store[id] EXCEPT !.config = 0])
      BY <3>3 DEF Typed, Maybe
    <3> QED BY <1>3, <3>1, <3>4, <3>5, PutTyped
  <2> QED BY <1>1, <2>1, <2>2, <2>3, <2>4, <2>5
<1> QED BY <1>5, <1>6 DEF Held

\* so does the garbage collector,
LEMMA GarbageTyped ==
  ASSUME TypeInv, NEW id \in Ids, CollectGarbage(id)
  PROVE  TypeInv'
<1> USE DEF TypeInv
<1> DEFINE old == store[id]
           new == [old EXCEPT !.owners = @ \cap Live]
<1>1. /\ id[1] # "cr" /\ old # Nil /\ WorkersStay /\ UNCHANGED <<born, edits>>
      /\ Put(id, Nil) \/ Put(id, new)
  BY DEF CollectGarbage
<1>2. id[1] \in {"deployment", "service", "proxy"} BY <1>1, IdShape
<1>3. Typed(id, old) BY DEF Watched, StoreTyped
<1>4. Typed(id, new)
  <2>1. CASE id[1] \in {"deployment", "service"}
    <3>1. old \in ChildTypes BY <1>1, <1>3, <2>1 DEF Typed, Maybe
    <3>2. new \in ChildTypes BY <3>1 DEF ChildTypes
    <3> QED BY <2>1, <3>2 DEF Typed, Maybe
  <2>2. CASE id[1] = "proxy"
    <3>1. old \in ProxyTypes BY <1>1, <1>3, <2>2 DEF Typed, Maybe
    <3>2. new \in ProxyTypes BY <3>1 DEF ProxyTypes
    <3> QED BY <2>2, <3>2 DEF Typed, Maybe
  <2> QED BY <1>2, <2>1, <2>2
<1>5. Typed(id, Nil) BY DEF Typed, Maybe
<1> HIDE DEF new
<1>6. Watched' BY <1>1, <1>4, <1>5, PutTyped
<1>7. Held' BY <1>1, StayTyped DEF Held
<1>8. Counted' BY <1>1 DEF Counted, WorkersStay
<1> QED BY <1>6, <1>7, <1>8 DEF Held

\* the queue,
LEMMA QueueingTyped ==
  ASSUME TypeInv, NEW c \in CRs, enqueueObj(c) \/ Retry(c)
  PROVE  TypeInv'
<1>1. Watched'
  BY DEF TypeInv, Watched, StoreTyped, SeenTyped, Typed, enqueueObj, Retry
<1>2. WorkersTyped' /\ delayed' \subseteq CRs
  BY DEF TypeInv, WorkersTyped, Entry, enqueueObj, Retry
<1>3. Counted' BY DEF TypeInv, Counted, enqueueObj, Retry, world
<1> QED BY <1>1, <1>2, <1>3 DEF TypeInv

\* a restart,
LEMMA RestartTyped ==
  ASSUME TypeInv, Restart
  PROVE  TypeInv'
<1>1. Watched'
  <2>1. store' = store /\ seen' = [w \in Workers |-> {}]
    BY DEF Restart
  <2>2. events' \subseteq CRs BY IdShape DEF Restart
  <2>3. SeenTyped' BY <2>1 DEF SeenTyped
  <2>4. StoreTyped' BY <2>1 DEF TypeInv, Watched, StoreTyped, Typed
  <2> QED BY <2>2, <2>3, <2>4 DEF Watched
<1>2. WorkersTyped'
  <2>1. "idle" \in Labels BY IdleEntry DEF Entry
  <2> QED BY <2>1, IdleEntry DEF WorkersTyped, Restart, Maybe
<1>3. Counted' BY DEF TypeInv, Counted, Restart
<1> QED BY <1>1, <1>2, <1>3 DEF TypeInv, Restart

\* and a worker that takes a key: the queue holds keys of CRs.
LEMMA TakeTyped ==
  ASSUME TypeInv, QueueInv, NEW w \in Workers, Take(w)
  PROVE  TypeInv'
<1>1. Head(wq.queue) \in CRs BY DEF Take, QueueInv, QueueTypes
<1>2. Watched'
  BY DEF TypeInv, Watched, StoreTyped, SeenTyped, Typed, Take
<1>3. Moved(w, "get", Head(wq.queue), u[w], obj[w], made[w])
  BY DEF Take, Goto, Moved, TypeInv, WorkersTyped
<1>4. Entry("get", Head(wq.queue), u[w], obj[w], made[w])
  BY <1>1 DEF TypeInv, WorkersTyped, Entry, Labels
<1>5. WorkersTyped' BY <1>3, <1>4, MovedTyped DEF TypeInv
<1>6. Counted' BY DEF TypeInv, Counted, Take, world
<1> QED BY <1>2, <1>5, <1>6 DEF TypeInv, Take

\* The operator keeps the types of its objects and counts, and a worker in the
\* middle of reconcileOne (main.go:243) has what the rest of it uses: a CR it
\* has read, the proxy it means to write, the annotation that led it there.
THEOREM TypeInvariance == Spec => []TypeInv
<1>1. Init => TypeInv
  <2> SUFFICES ASSUME Init PROVE TypeInv OBVIOUS
  <2>1. Watched
    BY DEF Init, Watched, StoreTyped, SeenTyped, Typed, Maybe
  <2>2. WorkersTyped
    <3>1. "idle" \in Labels BY IdleEntry DEF Entry
    <3> QED BY <3>1, IdleEntry DEF Init, WorkersTyped, Maybe
  <2>3. Counted BY BoundsAssumption DEF Init, Counted
  <2> QED BY <2>1, <2>2, <2>3 DEF Init, TypeInv
<1>2. TypeInv /\ QueueInv /\ [Next]_vars => TypeInv'
  <2> SUFFICES ASSUME TypeInv, QueueInv, [Next]_vars PROVE TypeInv' OBVIOUS
  <2>1. CASE Users BY <2>1, UsersTyped
  <2>2. CASE Cluster BY <2>2, GarbageTyped, QueueingTyped DEF Cluster
  <2>3. CASE Restart BY <2>3, RestartTyped
  <2>4. ASSUME NEW w \in Workers, Take(w) \/ Reconcile(w) PROVE TypeInv'
    BY <2>4, TakeTyped, ReconcileTyped
  <2>5. CASE UNCHANGED vars
    <3>1. Watched'
      BY <2>5 DEF TypeInv, Watched, StoreTyped, SeenTyped, Typed, vars
    <3>2. WorkersTyped' BY <2>5 DEF TypeInv, WorkersTyped, Entry, vars
    <3> QED BY <2>5, <3>1, <3>2 DEF TypeInv, Counted, vars
  <2> QED BY <2>1, <2>2, <2>3, <2>4, <2>5 DEF Next
<1> QED BY <1>1, <1>2, QueueInvariance, PTL DEF Spec

\* The types the runs check, whatever the CRs, specs, workers and bounds: what
\* reconcileOne and the functions it calls (main.go:243-903) write is well-typed.
THEOREM OperatorTyped == Spec => []TypeOK
<1>1. TypeInv /\ QueueInv => TypeOK
  <2> SUFFICES ASSUME TypeInv, QueueInv PROVE TypeOK OBVIOUS
  <2>1. ASSUME NEW c \in CRs
        PROVE  /\ store[CR(c)] \in Maybe(CRTypes)
               /\ store[<<"deployment", c>>] \in Maybe(ChildTypes)
               /\ store[<<"service", c>>] \in Maybe(ChildTypes)
    BY NameOf DEF TypeInv, Watched, StoreTyped, Typed
  <2>2. ASSUME NEW p \in ProxyNames
        PROVE  store[Proxy(p)] \in Maybe(ProxyTypes)
    BY ProxyId DEF TypeInv, Watched, StoreTyped, Typed
  <2>3. ASSUME NEW w \in Workers
        PROVE  /\ pc[w] \in Labels
               /\ key[w] \in IF pc[w] = "idle" THEN {Nil} ELSE CRs
               /\ u[w] \in Maybe(CRTypes) /\ obj[w] \in Maybe(ProxyTypes)
               /\ seen[w] \subseteq Ids
    BY DEF TypeInv, WorkersTyped, Entry, Watched, SeenTyped
  <2>4. events \subseteq CRs /\ delayed \subseteq CRs
        /\ made \in [Workers -> BOOLEAN]
    BY DEF TypeInv, Watched, WorkersTyped
  <2>5. wq.dirty \subseteq CRs /\ wq.processing \subseteq CRs
    BY DEF QueueInv, QueueTypes
  <2> QED BY <2>1, <2>2, <2>3, <2>4, <2>5 DEF TypeOK
<1> QED BY <1>1, TypeInvariance, QueueInvariance, PTL

-----------------------------------------------------------------------------
(* The copies of the CRs. *)

\* While a worker's copy of its CR is current, it differs from the CR in what
\* the worker means to write: the annotations and the finalizer.
Agrees(x, y) == x.spec = y.spec /\ x.uid = y.uid /\ x.deleting = y.deleting
\* The worker is between the Get of its CR and the end of its reconciliation.
InUse(w) == pc[w] \notin {"idle", "get"}
\* The worker's copy is such a one, if it is current,
Faithful(w) ==
  InUse(w) /\ CR(key[w]) \in seen[w] => Agrees(u[w], store[CR(key[w])])
\* and so are all workers' copies.
CopiesFaithful == \A w \in Workers : Faithful(w)

\* A Deployment or a Service has one owner, an incarnation of its CR.
OneOwner ==
  \A kind \in Kinds, c \in CRs : store[<<kind, c>>] # Nil =>
    \E i \in Uids : store[<<kind, c>>].owners \subseteq {<<c, i>>}

\* What holds of the copies and the owners together.
Copies == CopiesFaithful /\ OneOwner

-----------------------------------------------------------------------------
\* The proxy of a CR that is the first to ask for it.
Fresh(w) ==
  [owners |-> {Owner(w)}, routes |-> {Route(w)}, vhost |-> u[w].spec.host]
\* A worker joins the proxy of its CR, as the first or with a current copy.
Joins(w, val) ==
  \/ store[Proxy(ProxyOf(w))] = Nil /\ val = Fresh(w)
  \/ /\ pc[w] = "proxy_update" /\ Current(w, Proxy(ProxyOf(w)))
     /\ val = Merged(w)
OldLabels == {"old_get", "old_write"}
CleanLabels == {"clean_get", "clean_write"}

\* What a step of a reconciliation may do to the API server.
Reach(w) ==
  \/ Untouched
  \/ \E id \in Ids : id[1] # "cr" /\ Read(w, id)
  \/ \E p \in ProxyNames : \E val :
       /\ Put(Proxy(p), val)
       /\ \/ p = u[w].ann.proxy /\ pc[w] \in {"old_write", "clean_write"}
          \/ p = ProxyOf(w) /\ Joins(w, val)
  \/ \E kind \in Kinds : Put(<<kind, key[w]>>, Desired(kind, w))
  \/ Put(CR(key[w]), Nil)
  \/ \E val : /\ Current(w, CR(key[w])) /\ Put(CR(key[w]), val)
             /\ val.spec = store[CR(key[w])].spec
             /\ val.uid = store[CR(key[w])].uid
             /\ val.deleting = store[CR(key[w])].deleting
             /\ val.ann \in {u[w].ann, store[CR(key[w])].ann}

\* What has led it to the label l: the proxy it leaves is recorded and not the
\* one it asks for, the one it updates is the one it has read, and so on.
Follows(w, l, x, o, m) ==
  /\ \/ x.ann.proxy = u[w].ann.proxy /\ x.ann.route = u[w].ann.route
     \/ x.ann.proxy = ProxyOf(w) /\ x.ann.route = u[w].spec.ruta
  /\ l \in OldLabels =>
       /\ x = u[w]
       /\ pc[w] \in OldLabels \/ u[w].ann.proxy \notin {Nil, ProxyOf(w)}
  /\ l \in CleanLabels => x = u[w] /\ pc[w] \in CleanLabels
  /\ l = "proxy_update" => o = store[Proxy(ProxyOf(w))] /\ store' = store
  /\ l = "record" => \E val : Joins(w, val) /\ Put(Proxy(ProxyOf(w)), val)
  /\ l = "status" => m \/ pc[w] = "record" \/ u[w].spec.ruta = Nil
  /\ l = "fallback" => pc[w] = "status"

\* Where a reconciliation ends, unless it is to be retried.
Ends(w) ==
  \/ pc[w] \in {"status", "fallback", "unfinalize"}
  \/ made[w] \/ key[w] \in delayed'

\* Where it may go: it keeps its copy, except for what it means to write.
Goes(w) ==
  \/ Moved(w, "idle", Nil, Nil, Nil, FALSE) /\ Ends(w)
  \/ \E l \in Labels \ {"idle", "get"} : \E x, o, m :
        Moved(w, l, key[w], x, o, m) /\ Agrees(x, u[w]) /\ Follows(w, l, x, o, m)

\* The end of a reconciliation leaves no copy.
LEMMA FinishGoes ==
  ASSUME NEW w \in Workers, NEW err, Finish(w, err),
         \/ err = TRUE \/ made[w]
         \/ pc[w] \in {"status", "fallback", "unfinalize"}
  PROVE  Goes(w)
<1>1. err = TRUE => key[w] \in delayed' BY DEF Finish
<1> QED BY <1>1, FinishMoves DEF Goes, Ends

\* To go on keeps the copy,
LEMMA ProceedGoes ==
  ASSUME WorkersTyped, NEW w \in Workers, NEW l \in Labels \ {"idle", "get"},
         Proceed(w, l), Follows(w, l, u[w], obj[w], made[w])
  PROVE  Goes(w)
  BY ProceedMoves DEF Goes, Agrees

\* The labels that nothing in particular leads to.
Plain == Simple \ {"record", "status", "fallback"}

\* to a simple label too.
LEMMA SimpleGoes ==
  ASSUME WorkersTyped, NEW w \in Workers, NEW l \in Simple, Proceed(w, l),
         \/ l \in Plain
         \/ l = "status" /\ (pc[w] = "record" \/ u[w].spec.ruta = Nil)
         \/ l = "fallback" /\ pc[w] = "status"
  PROVE  Goes(w)
<1>1. l \in Labels \ {"idle", "get"} BY SimpleLabels DEF Simple
<1>2. Follows(w, l, u[w], obj[w], made[w])
  BY DEF Follows, Plain, Simple, OldLabels, CleanLabels
<1> QED BY <1>1, <1>2, ProceedGoes

\* So does what follows a Deployment or a Service,
LEMMA AfterChildGoes ==
  ASSUME WorkersTyped, NEW w \in Workers, NEW kind \in Kinds,
         AfterChild(w, kind)
  PROVE  Goes(w)
<1>1. CASE Finish(w, FALSE) /\ made[w] BY <1>1, FinishGoes
<1>2. CASE Proceed(w, "status") /\ u[w].spec.ruta = Nil
  BY <1>2, SimpleGoes DEF Simple
<1>3. ASSUME NEW l \in {"service_get", "proxy_get"}, Proceed(w, l)
      PROVE  Goes(w)
  BY <1>3, SimpleGoes DEF Simple, Plain
<1>4. CASE Proceed(w, "old_get") /\ u[w].ann.proxy \notin {Nil, ProxyOf(w)}
  <2>1. "old_get" \in Labels \ {"idle", "get"} BY DEF Labels
  <2>2. Follows(w, "old_get", u[w], obj[w], made[w])
    BY <1>4 DEF Follows, OldLabels, CleanLabels
  <2> QED BY <1>4, <2>1, <2>2, ProceedGoes
<1> QED BY <1>1, <1>2, <1>3, <1>4 DEF AfterChild, Kinds

\* and what follows the status.
LEMMA AfterStatusGoes ==
  ASSUME WorkersTyped, NEW w \in Workers, NEW err, AfterStatus(w, err),
         pc[w] \in {"status", "fallback"}
  PROVE  Goes(w)
  BY FinishGoes, SimpleGoes DEF AfterStatus, Simple, Plain

\* An attempt to put the CR writes the spec the worker read.
LEMMA TryReaches ==
  ASSUME TypeInv, Copies, NEW w \in Workers, InUse(w), NEW ok, Try(w, ok)
  PROVE  Reach(w)
<1> DEFINE id == CR(key[w])
<1>1. CASE ok /\ Current(w, id)
  <2>1. u[w] \in CRTypes BY Busy DEF TypeInv, InUse
  <2> DEFINE new == [u[w] EXCEPT !.deleting = store[id].deleting,
                                 !.status = store[id].status]
  <2>2. /\ new.spec = u[w].spec /\ new.ann = u[w].ann /\ new.uid = u[w].uid
        /\ new.deleting = store[id].deleting
    BY <2>1 DEF CRTypes
  <2>3. u[w].spec = store[id].spec /\ u[w].uid = store[id].uid
    BY <1>1 DEF Current, Copies, CopiesFaithful, Faithful, Agrees
  <2>4. Put(id, Nil) \/ Put(id, new) BY <1>1 DEF Try, PutCR
  <2>5. Current(w, id) BY <1>1
  <2> HIDE DEF new
  <2> QED BY <2>2, <2>3, <2>4, <2>5 DEF Reach
<1>2. CASE ~(ok /\ Current(w, id))
  BY <1>2 DEF Try, Reach
<1> QED BY <1>1, <1>2

\* What the calls of a reconciliation reach: Deployments and Services,
LEMMA ChildReaches ==
  ASSUME TypeInv, NEW w \in Workers, NEW ok, NEW kind \in Kinds,
         \/ GetChild(w, ok, kind) \/ CreateChild(w, ok, kind)
         \/ UpdateChild(w, ok, kind)
  PROVE  Reach(w) /\ Goes(w)
<1> USE DEF TypeInv
<1>1. /\ At[kind].update \in Simple /\ At[kind].create \in Simple
      /\ At[kind].update \in Plain /\ At[kind].create \in Plain
  BY AtIs DEF Simple, Plain, Kinds
<1>2. CASE GetChild(w, ok, kind)
  <2>1. key[w] \in CRs
    <3>1. pc[w] \notin {"idle", "get"} BY <1>2, AtIs DEF GetChild, Kinds
    <3> QED BY <3>1, Busy
  <2>2. <<kind, key[w]>> \in Ids /\ <<kind, key[w]>>[1] # "cr"
    BY <2>1, ChildId DEF Kinds
  <2>3. \/ Read(w, <<kind, key[w]>>) /\ AfterChild(w, kind)
        \/ Read(w, <<kind, key[w]>>) /\ Proceed(w, At[kind].update)
        \/ Untouched /\ Proceed(w, At[kind].create)
    BY <1>2 DEF GetChild
  <2> QED BY <1>1, <2>2, <2>3, AfterChildGoes, SimpleGoes DEF Reach
<1>3. CASE CreateChild(w, ok, kind)
  <2>1. CASE Untouched /\ Finish(w, TRUE)
    BY <2>1, FinishGoes DEF Reach
  <2>2. CASE Put(<<kind, key[w]>>, Desired(kind, w)) /\ AfterChild(w, kind)
    BY <2>2, AfterChildGoes DEF Reach
  <2>3. CASE /\ Put(<<kind, key[w]>>, Desired(kind, w))
             /\ made' = [made EXCEPT ![w] = TRUE]
             /\ Goto(w, "status") /\ Keep /\ UNCHANGED <<u, obj>>
    <3>1. Moved(w, "status", key[w], u[w], obj[w], TRUE)
      BY <2>3 DEF Goto, Keep, Moved, WorkersTyped
    <3>2. "status" \in Labels \ {"idle", "get"} BY DEF Labels
    <3>3. Follows(w, "status", u[w], obj[w], TRUE)
      BY DEF Follows, OldLabels, CleanLabels
    <3>4. Goes(w) BY <3>1, <3>2, <3>3 DEF Goes, Agrees
    <3> QED BY <2>3, <3>4 DEF Reach
  <2> QED BY <1>3, <2>1, <2>2, <2>3 DEF CreateChild
<1>4. CASE UpdateChild(w, ok, kind)
  BY <1>4, FinishGoes, AfterChildGoes DEF UpdateChild, Reach
<1> QED BY <1>2, <1>3, <1>4

\* the status,
LEMMA StatusReaches ==
  ASSUME TypeInv, Copies, NEW w \in Workers, NEW ok,
         UpdateStatus(w, ok) \/ Fallback(w, ok)
  PROVE  Reach(w) /\ Goes(w)
<1> USE DEF TypeInv
<1>1. CASE UpdateStatus(w, ok)
  <2>1. CASE ok /\ StatusAllowed /\ Current(w, CR(key[w]))
    <3> DEFINE id == CR(key[w])
               told == IF StatusKept THEN u[w].spec.mult ELSE store[id].status
    <3>1. store[id] \in CRTypes
      <4>1. id \in Ids /\ id[1] = "cr"
        BY <1>1, Busy, NameOf DEF UpdateStatus
      <4> QED BY <4>1, <2>1 DEF Watched, StoreTyped, SeenTyped, Typed, Maybe, Current
    <3> DEFINE new == [store[id] EXCEPT !.status = told]
    <3>2. /\ new.spec = store[id].spec /\ new.ann = store[id].ann
          /\ new.uid = store[id].uid /\ new.deleting = store[id].deleting
      BY <3>1 DEF CRTypes
    <3>3. Put(id, new) /\ AfterStatus(w, FALSE) /\ pc[w] = "status"
      BY <1>1, <2>1 DEF UpdateStatus
    <3> HIDE DEF told, new
    <3>4. Reach(w) BY <2>1, <3>2, <3>3 DEF Reach
    <3> QED BY <3>3, <3>4, AfterStatusGoes
  <2>2. CASE ~(ok /\ StatusAllowed /\ Current(w, CR(key[w])))
    BY <1>1, <2>2, SimpleGoes DEF UpdateStatus, Reach, Simple
  <2> QED BY <2>1, <2>2
<1>2. CASE Fallback(w, ok)
  <2>1. InUse(w) /\ Try(w, ok) BY <1>2 DEF Fallback, InUse
  <2>2. Reach(w) BY <2>1, TryReaches
  <2> QED BY <1>2, <2>2, AfterStatusGoes DEF Fallback
<1> QED BY <1>1, <1>2

\* the annotations,
LEMMA AnnotateReaches ==
  ASSUME TypeInv, Copies, NEW w \in Workers, NEW ok,
         Annotate(w, ok) \/ Record(w, ok)
  PROVE  Reach(w) /\ Goes(w)
<1>1. InUse(w) /\ Try(w, ok) BY DEF Annotate, Record, InUse
<1>2. Reach(w) BY <1>1, TryReaches
<1>3. \/ Proceed(w, "deployment_get")
      \/ Proceed(w, "status") /\ pc[w] = "record"
      \/ Finish(w, FALSE) /\ made[w]
  BY DEF Annotate, Record
<1> QED BY <1>2, <1>3, FinishGoes, SimpleGoes DEF TypeInv, Simple, Plain

\* the proxy that is left or cleaned up,
LEMMA OldReaches ==
  ASSUME TypeInv, NEW w \in Workers, NEW ok,
         LeaveOldProxy(w, ok) \/ cleanupProxyForCR(w, ok)
  PROVE  Reach(w) /\ Goes(w)
<1> USE DEF TypeInv
<1>1. pc[w] \in {"old_get", "old_write", "clean_get", "clean_write"}
  BY DEF LeaveOldProxy, cleanupProxyForCR, GetOld, WriteOld
<1>2. u[w].ann.proxy \in ProxyNames BY <1>1 DEF WorkersTyped, Entry
<1> DEFINE id == Proxy(u[w].ann.proxy)
<1>3. id \in Ids /\ id[1] # "cr" BY <1>2, ProxyId
<1>4. ASSUME NEW here, NEW there, NEW next \in Plain,
             \/ here = "old_get" /\ there = "old_write"
             \/ here = "clean_get" /\ there = "clean_write",
             GetOld(w, ok, here, there, next)
      PROVE  Reach(w) /\ Goes(w)
  <2>1. CASE Untouched /\ Proceed(w, next)
    BY <2>1, SimpleGoes DEF Reach, Plain
  <2>2. CASE /\ Read(w, id) /\ Goto(w, there) /\ Keep /\ UNCHANGED <<u, made>>
             /\ \E new : obj' = [obj EXCEPT ![w] = new]
    <3>1. PICK new : obj' = [obj EXCEPT ![w] = new] BY <2>2
    <3>2. Moved(w, there, key[w], u[w], new, made[w])
      BY <2>2, <3>1 DEF Goto, Keep, Moved, WorkersTyped
    <3>3. there \in Labels \ {"idle", "get"} BY <1>4 DEF Labels
    <3>4. Follows(w, there, u[w], new, made[w])
      BY <1>4 DEF GetOld, Follows, OldLabels, CleanLabels
    <3>5. Goes(w) BY <3>2, <3>3, <3>4 DEF Goes, Agrees
    <3> QED BY <1>3, <2>2, <3>5 DEF Reach
  <2> QED BY <1>4, <2>1, <2>2 DEF GetOld
<1>5. ASSUME NEW here \in {"old_write", "clean_write"}, NEW next \in Plain,
             WriteOld(w, ok, here, next)
      PROVE  Reach(w) /\ Goes(w)
  <2>1. Put(id, Nil) \/ Put(id, obj[w]) \/ Untouched
    <3> DEFINE useless == obj[w].owners = {} /\ obj[w].routes = {}
    <3>1. CASE ok /\ useless BY <1>5, <3>1 DEF WriteOld
    <3>2. CASE ok /\ ~useless /\ Current(w, id) BY <1>5, <3>2 DEF WriteOld
    <3>3. CASE ~(ok /\ useless) /\ ~(ok /\ ~useless /\ Current(w, id))
      BY <1>5, <3>3 DEF WriteOld
    <3> QED BY <3>1, <3>2, <3>3
  <2>2. pc[w] \in {"old_write", "clean_write"} /\ Proceed(w, next)
    BY <1>5 DEF WriteOld
  <2>3. Reach(w) BY <1>2, <2>1, <2>2 DEF Reach
  <2> QED BY <2>2, <2>3, SimpleGoes DEF Plain
<1> QED BY <1>4, <1>5 DEF LeaveOldProxy, cleanupProxyForCR, Plain, Simple

\* the finalizer,
LEMMA UnfinalizeReaches ==
  ASSUME TypeInv, NEW w \in Workers, NEW ok, Unfinalize(w, ok)
  PROVE  Reach(w) /\ Goes(w)
  BY FinishGoes DEF Unfinalize, Reach

\* what the worker adds to its copy after it has seen to the proxy,
LEMMA RememberMoves ==
  ASSUME TypeInv, NEW w \in Workers, InUse(w), NEW finalizer,
         Remember(w, finalizer)
  PROVE  \E x : /\ Moved(w, "record", key[w], x, obj[w], made[w])
                /\ Agrees(x, u[w])
                /\ x.ann.proxy = ProxyOf(w) /\ x.ann.route = u[w].spec.ruta
<1> DEFINE x == [u[w] EXCEPT !.ann.proxy = ProxyOf(w),
                   !.ann.route = u[w].spec.ruta, !.finalizer = @ \/ finalizer]
<1>1. u[w] \in CRTypes BY Busy DEF TypeInv, InUse
<1>2. /\ Agrees(x, u[w])
      /\ x.ann.proxy = ProxyOf(w) /\ x.ann.route = u[w].spec.ruta
  BY <1>1 DEF CRTypes, Agrees
<1>3. u' = [u EXCEPT ![w] = x] BY DEF Remember, TypeInv, WorkersTyped
<1> HIDE DEF x
<1>4. Moved(w, "record", key[w], x, obj[w], made[w])
  BY <1>3 DEF Remember, Goto, Keep, Moved, TypeInv, WorkersTyped
<1> QED BY <1>2, <1>4

\* which leaves the spec alone,
LEMMA RememberGoes ==
  ASSUME TypeInv, NEW w \in Workers, InUse(w), NEW finalizer,
         Remember(w, finalizer), NEW val, Joins(w, val),
         Put(Proxy(ProxyOf(w)), val)
  PROVE  Goes(w)
<1>1. "record" \in Labels \ {"idle", "get"} BY DEF Labels
<1>2. PICK x : /\ Moved(w, "record", key[w], x, obj[w], made[w])
               /\ Agrees(x, u[w])
               /\ x.ann.proxy = ProxyOf(w) /\ x.ann.route = u[w].spec.ruta
  BY RememberMoves
<1>3. Follows(w, "record", x, obj[w], made[w])
  BY <1>2 DEF Follows, OldLabels, CleanLabels
<1> QED BY <1>1, <1>2, <1>3 DEF Goes

\* and the proxy itself.
LEMMA ProxyReaches ==
  ASSUME TypeInv, NEW w \in Workers, NEW ok,
         GetProxy(w, ok) \/ CreateProxy(w, ok) \/ UpdateProxy(w, ok)
  PROVE  Reach(w) /\ Goes(w)
<1>1. InUse(w) BY DEF GetProxy, CreateProxy, UpdateProxy, InUse
<1>2. ProxyOf(w) \in ProxyNames BY <1>1, Busy, ProxyOfTyped DEF TypeInv, InUse
<1> DEFINE id == Proxy(ProxyOf(w))
<1>3. id \in Ids /\ id[1] # "cr" BY <1>2, ProxyId
<1>4. CASE GetProxy(w, ok)
  <2>1. CASE Untouched /\ Proceed(w, "proxy_create")
    BY <2>1, SimpleGoes DEF Reach, TypeInv, Simple, Plain
  <2>2. CASE /\ Read(w, id) /\ Goto(w, "proxy_update") /\ Keep
             /\ UNCHANGED <<u, made>> /\ obj' = [obj EXCEPT ![w] = store[id]]
    <3>1. Moved(w, "proxy_update", key[w], u[w], store[id], made[w])
      BY <2>2 DEF Goto, Keep, Moved, TypeInv, WorkersTyped
    <3>2. "proxy_update" \in Labels \ {"idle", "get"} BY DEF Labels
    <3>3. Follows(w, "proxy_update", u[w], store[id], made[w])
      BY <2>2 DEF Read, Follows, OldLabels, CleanLabels
    <3>4. Goes(w) BY <3>1, <3>2, <3>3 DEF Goes, Agrees
    <3> QED BY <1>3, <2>2, <3>4 DEF Reach
  <2> QED BY <1>4, <2>1, <2>2 DEF GetProxy
<1>5. CASE CreateProxy(w, ok)
  <2>1. \/ Remember(w, FALSE) /\ \E val : Put(id, val) /\ Joins(w, val)
        \/ Untouched /\ Finish(w, TRUE)
    BY <1>5 DEF CreateProxy, Joins, Fresh
  <2> QED BY <1>1, <1>2, <2>1, RememberGoes, FinishGoes DEF Reach
<1>6. CASE UpdateProxy(w, ok)
  <2>1. \/ Remember(w, TRUE) /\ \E val : Put(id, val) /\ Joins(w, val)
        \/ Untouched /\ Finish(w, TRUE)
    BY <1>6 DEF UpdateProxy, Joins
  <2> QED BY <1>1, <1>2, <2>1, RememberGoes, FinishGoes DEF Reach
<1> QED BY <1>4, <1>5, <1>6

\* Together: whatever the call.
LEMMA WorksReaches ==
  ASSUME TypeInv, Copies, NEW w \in Workers, NEW ok, Works(w, ok)
  PROVE  Reach(w) /\ Goes(w)
<1>1. CASE Annotate(w, ok) \/ Record(w, ok) BY <1>1, AnnotateReaches
<1>2. CASE UpdateStatus(w, ok) \/ Fallback(w, ok) BY <1>2, StatusReaches
<1>3. CASE LeaveOldProxy(w, ok) \/ cleanupProxyForCR(w, ok)
  BY <1>3, OldReaches
<1>4. CASE Unfinalize(w, ok) BY <1>4, UnfinalizeReaches
<1>5. CASE GetProxy(w, ok) \/ CreateProxy(w, ok) \/ UpdateProxy(w, ok)
  BY <1>5, ProxyReaches
<1>6. CASE ensureDeployment(w, ok) \/ ensureService(w, ok)
  BY <1>6, ChildReaches DEF ensureDeployment, ensureService, Kinds
<1> QED BY <1>1, <1>2, <1>3, <1>4, <1>5, <1>6 DEF Works

\* A worker that makes one of these calls has a copy.
LEMMA WorksInUse ==
  ASSUME NEW w \in Workers, NEW ok, Works(w, ok)
  PROVE  InUse(w)
<1>1. CASE ensureDeployment(w, ok) \/ ensureService(w, ok)
  BY <1>1, AtIs
  DEF ensureDeployment, ensureService, GetChild, CreateChild, UpdateChild, InUse
<1>2. CASE LeaveOldProxy(w, ok) \/ cleanupProxyForCR(w, ok)
  BY <1>2 DEF LeaveOldProxy, cleanupProxyForCR, GetOld, WriteOld, InUse
<1>3. CASE ~(ensureDeployment(w, ok) \/ ensureService(w, ok))
           /\ ~(LeaveOldProxy(w, ok) \/ cleanupProxyForCR(w, ok))
  BY <1>3 DEF Works, Annotate, UpdateStatus, Fallback, Unfinalize, GetProxy,
              CreateProxy, UpdateProxy, Record, InUse
<1> QED BY <1>1, <1>2, <1>3

-----------------------------------------------------------------------------
\* A copy that is current after a write was current before, and its object is
\* what it was.
LEMMA PutSpares ==
  ASSUME Watched, NEW id \in Ids, NEW val, Put(id, val),
         NEW v \in Workers, NEW j, j \in seen'[v]
  PROVE  j \in seen[v] /\ store'[j] = store[j]
  BY DEF Watched, StoreTyped, SeenTyped, Put

\* What a worker may do to the API server spares its copies as well.
LEMMA ReachSpares ==
  ASSUME TypeInv, NEW w \in Workers, InUse(w), Reach(w),
         NEW v \in Workers, NEW c, CR(c) \in seen'[v]
  PROVE  CR(c) \in seen[v] /\ store'[CR(c)] = store[CR(c)]
<1>1. key[w] \in CRs BY Busy DEF TypeInv, InUse
<1>2. CASE Untouched BY <1>2 DEF Untouched
<1>3. CASE \E id \in Ids : id[1] # "cr" /\ Read(w, id)
  BY <1>3 DEF Read, CR, TypeInv, Watched, SeenTyped
<1>4. CASE \E id \in Ids : \E val : Put(id, val)
  BY <1>4, PutSpares DEF TypeInv
<1>5. CR(key[w]) \in Ids /\ \A kind \in Kinds : <<kind, key[w]>> \in Ids
  BY <1>1, NameOf, ChildId
<1>6. \A p \in ProxyNames : Proxy(p) \in Ids BY ProxyId
<1> QED BY <1>2, <1>3, <1>4, <1>5, <1>6 DEF Reach

\* A faithful copy stays so while neither it nor its CR changes.
LEMMA FaithfulStays ==
  ASSUME NEW v \in Workers, Faithful(v), pc'[v] = pc[v], key'[v] = key[v],
         u'[v] = u[v],
         CR(key[v]) \in seen'[v] =>
           CR(key[v]) \in seen[v] /\ store'[CR(key[v])] = store[CR(key[v])]
  PROVE  Faithful(v)'
  BY DEF Faithful, InUse, CR

\* A write of somebody else leaves no current copy of what it changes.
LEMMA PutFaithful ==
  ASSUME TypeInv, CopiesFaithful, NEW id \in Ids, NEW val, Put(id, val),
         WorkersStay
  PROVE  CopiesFaithful'
<1> SUFFICES ASSUME NEW v \in Workers PROVE Faithful(v)'
  BY DEF CopiesFaithful
<1>1. Faithful(v) BY DEF CopiesFaithful
<1>2. CR(key[v]) \in seen'[v] =>
        CR(key[v]) \in seen[v] /\ store'[CR(key[v])] = store[CR(key[v])]
  BY PutSpares DEF TypeInv
<1>3. pc'[v] = pc[v] /\ key'[v] = key[v] /\ u'[v] = u[v] BY DEF WorkersStay
<1> QED BY <1>1, <1>2, <1>3, FaithfulStays

\* A write of an object with one owner keeps OneOwner,
LEMMA PutOneOwner ==
  ASSUME Watched, OneOwner, NEW id \in Ids, NEW val, Put(id, val),
         id[1] \in Kinds /\ val # Nil =>
           \E i \in Uids : val.owners \subseteq {<<id[2], i>>}
  PROVE  OneOwner'
<1> SUFFICES ASSUME NEW kind \in Kinds, NEW c \in CRs,
                    store'[<<kind, c>>] # Nil
             PROVE  \E i \in Uids : store'[<<kind, c>>].owners \subseteq {<<c, i>>}
  BY DEF OneOwner
<1>1. CASE id = <<kind, c>>
  <2>1. store'[<<kind, c>>] = val
    BY <1>1 DEF Watched, StoreTyped, Put
  <2>2. id[1] = kind /\ id[2] = c BY <1>1
  <2> QED BY <2>1, <2>2
<1>2. CASE id # <<kind, c>>
  <2>1. store'[<<kind, c>>] = store[<<kind, c>>]
    BY <1>2, ChildId DEF Watched, StoreTyped, Put
  <2> QED BY <2>1 DEF OneOwner
<1> QED BY <1>1, <1>2

\* and so does a step that writes nothing.
LEMMA SameOneOwner ==
  ASSUME OneOwner, store' = store
  PROVE  OneOwner'
  BY DEF OneOwner

\* What users and the garbage collector write.
LEMMA UsersPut ==
  ASSUME TypeInv, Users
  PROVE  /\ WorkersStay /\ edits' = edits + 1
         /\ \E c \in CRs, id \in Ids : \E val :
              /\ id = CR(c) \/ id = <<"deployment", c>>
              /\ Put(id, val)
              /\ id[1] \in Kinds /\ val # Nil => val.owners = store[id].owners
              /\ id[1] \in Kinds => store[id] # Nil
<1> USE DEF TypeInv
<1>1. PICK c \in CRs :
        \/ \E spec \in Specs[c] : CreateCR(c, spec) \/ EditCR(c, spec)
        \/ DeleteCR(c) \/ DeleteDeployment(c) \/ TouchDeployment(c)
  BY DEF Users
<1>2. CR(c) \in Ids /\ CR(c)[1] \notin Kinds BY NameOf DEF Kinds
<1>3. <<"deployment", c>> \in Ids BY NameOf
<1>4. WorkersStay /\ edits' = edits + 1
  BY <1>1 DEF CreateCR, EditCR, DeleteCR, DeleteDeployment, TouchDeployment, Edit
<1>5. CASE \E val : Put(CR(c), val)
  BY <1>2, <1>4, <1>5
<1>6. CASE DeleteDeployment(c)
  BY <1>3, <1>4, <1>6 DEF DeleteDeployment
<1>7. CASE TouchDeployment(c)
  <2> DEFINE id == <<"deployment", c>>
             val == [store[id] EXCEPT !.config = 0]
  <2>1. store[id] \in ChildTypes
    BY <1>3, <1>7 DEF TouchDeployment, Watched, StoreTyped, Typed, Maybe
  <2>2. val.owners = store[id].owners BY <2>1 DEF ChildTypes
  <2>3. Put(id, val) /\ store[id] # Nil BY <1>7 DEF TouchDeployment
  <2> HIDE DEF val
  <2> QED BY <1>3, <1>4, <2>2, <2>3
<1>8. (\E val : Put(CR(c), val)) \/ DeleteDeployment(c) \/ TouchDeployment(c)
  BY <1>1 DEF CreateCR, EditCR, DeleteCR
<1> QED BY <1>5, <1>6, <1>7, <1>8

\* The garbage collector never writes a CR, and never adds an owner.
LEMMA GarbagePut ==
  ASSUME TypeInv, NEW id \in Ids, CollectGarbage(id)
  PROVE  /\ WorkersStay /\ id[1] # "cr" /\ store[id] # Nil
         /\ ~ store[id].owners \subseteq Live
         /\ \E val : /\ Put(id, val)
                     /\ val # Nil => val.owners \subseteq store[id].owners
<1> USE DEF TypeInv
<1> DEFINE old == store[id]
           new == [old EXCEPT !.owners = @ \cap Live]
<1>1. /\ id[1] # "cr" /\ old # Nil /\ WorkersStay
      /\ ~ old.owners \subseteq Live
      /\ Put(id, Nil) \/ Put(id, new)
  BY DEF CollectGarbage
<1>2. old \in ChildTypes \/ old \in ProxyTypes
  BY <1>1, IdShape DEF Watched, StoreTyped, Typed, Maybe
<1>3. new.owners \subseteq old.owners
  BY <1>2 DEF ChildTypes, ProxyTypes
<1> HIDE DEF new
<1> QED BY <1>1, <1>3

\* What users and the garbage collector do keeps the copies faithful,
LEMMA OthersCopies ==
  ASSUME TypeInv, Copies, Users \/ \E id \in Ids : CollectGarbage(id)
  PROVE  Copies'
<1>0. PICK id \in Ids : \E val :
        /\ WorkersStay /\ Put(id, val)
        /\ id[1] \in Kinds /\ val # Nil =>
             store[id] # Nil /\ val.owners \subseteq store[id].owners
  BY UsersPut, GarbagePut
<1>1. PICK val :
        /\ WorkersStay /\ Put(id, val)
        /\ id[1] \in Kinds /\ val # Nil =>
             store[id] # Nil /\ val.owners \subseteq store[id].owners
  BY <1>0
<1>2. CopiesFaithful' BY <1>1, PutFaithful DEF Copies
<1>3. ASSUME id[1] \in Kinds, val # Nil
      PROVE  \E i \in Uids : val.owners \subseteq {<<id[2], i>>}
  <2>1. id = <<id[1], id[2]>> /\ id[2] \in CRs BY <1>3 DEF Ids, Kinds
  <2>2. PICK i \in Uids : store[id].owners \subseteq {<<id[2], i>>}
    BY <1>1, <1>3, <2>1 DEF Copies, OneOwner
  <2> QED BY <1>1, <1>3, <2>2
<1>4. OneOwner' BY <1>1, <1>3, PutOneOwner DEF TypeInv, Copies
<1> QED BY <1>2, <1>4 DEF Copies

\* so do the calls of a reconciliation.
LEMMA WorksCopies ==
  ASSUME TypeInv, Copies, NEW w \in Workers, NEW ok, Works(w, ok)
  PROVE  Copies'
<1> USE DEF TypeInv
<1>1. InUse(w) /\ Reach(w) /\ Goes(w) BY WorksReaches, WorksInUse
<1>2. key[w] \in CRs /\ u[w] \in CRTypes BY <1>1, Busy DEF InUse
<1>3. ASSUME NEW v \in Workers PROVE Faithful(v)'
  <2>1. CR(key[v]) \in seen'[v] =>
          CR(key[v]) \in seen[v] /\ store'[CR(key[v])] = store[CR(key[v])]
    BY <1>1, ReachSpares
  <2>2. Faithful(v) BY DEF Copies, CopiesFaithful
  <2>3. CASE v # w
    <3>1. pc'[v] = pc[v] /\ key'[v] = key[v] /\ u'[v] = u[v]
      BY <1>1, <2>3 DEF Goes, Moved, WorkersTyped
    <3> QED BY <2>1, <2>2, <3>1, FaithfulStays
  <2>4. CASE v = w
    <3>1. CASE pc'[w] = "idle" BY <2>4, <3>1 DEF Faithful, InUse
    <3>2. CASE key'[w] = key[w] /\ Agrees(u'[w], u[w])
      BY <1>1, <2>1, <2>2, <2>4, <3>2 DEF Faithful, InUse, Agrees, CR
    <3> QED BY <1>1, <3>1, <3>2 DEF Goes, Moved, WorkersTyped
  <2> QED BY <2>3, <2>4
<1>4. OneOwner'
  <2> USE DEF Copies
  <2>1. CASE Untouched \/ \E id \in Ids : Read(w, id)
    BY <2>1, SameOneOwner DEF Untouched, Read
  <2>2. ASSUME NEW p \in ProxyNames, NEW val, Put(Proxy(p), val)
        PROVE  OneOwner'
    <3>1. Proxy(p) \in Ids /\ Proxy(p)[1] \notin Kinds
      BY ProxyId DEF Kinds
    <3> QED BY <2>2, <3>1, PutOneOwner
  <2>3. ASSUME NEW val, Put(CR(key[w]), val) PROVE OneOwner'
    <3>1. CR(key[w]) \in Ids /\ CR(key[w])[1] \notin Kinds
      BY <1>2, NameOf DEF Kinds
    <3> QED BY <2>3, <3>1, PutOneOwner
  <2>4. ASSUME NEW kind \in Kinds, Put(<<kind, key[w]>>, Desired(kind, w))
        PROVE  OneOwner'
    <3>1. u[w].uid \in Uids BY <1>2 DEF CRTypes
    <3>2. Desired(kind, w).owners \subseteq {<<key[w], u[w].uid>>}
      BY DEF Desired, Owner
    <3>3. <<kind, key[w]>> \in Ids /\ <<kind, key[w]>>[2] = key[w]
      BY <1>2, ChildId
    <3> QED BY <2>4, <3>1, <3>2, <3>3, PutOneOwner
  <2> QED BY <1>1, <2>1, <2>2, <2>3, <2>4 DEF Reach
<1> QED BY <1>3, <1>4 DEF Copies, CopiesFaithful

\* The Get of the CR ends the reconciliation or copies the CR,
LEMMA GetCRReads ==
  ASSUME TypeInv, NEW w \in Workers, NEW ok, GetCR(w, ok)
  PROVE  \/ Untouched /\ Finish(w, FALSE) /\ ~(ok /\ store[CR(key[w])] # Nil)
         \/ /\ ok /\ store[CR(key[w])] # Nil
            /\ seen' = [seen EXCEPT ![w] = {CR(key[w])}]
            /\ UNCHANGED <<store, events, delayed, wq>>
            /\ \E l \in {"unfinalize", "clean_get", "status", "annotate"},
                  x \in CRTypes :
                 /\ Moved(w, l, key[w], x, obj[w], made[w])
                 /\ Dispatched(w, store[CR(key[w])], l, x)
<1> USE DEF TypeInv
<1> DEFINE id == CR(key[w])
<1>1. CASE ok /\ store[id] # Nil
  <2>1. store[id] \in CRTypes
    <3>1. key[w] \in CRs BY DEF GetCR, WorkersTyped, Entry
    <3> QED BY <1>1, <3>1, NameOf DEF Watched, StoreTyped, Typed, Maybe
  <2>2. /\ Dispatch(w, store[id]) /\ Keep /\ UNCHANGED <<store, events, obj, made>>
        /\ seen' = [seen EXCEPT ![w] = {id}]
    BY <1>1 DEF GetCR
  <2>3. PICK l \in {"unfinalize", "clean_get", "status", "annotate"},
             x \in CRTypes : Dispatched(w, store[id], l, x)
    BY <2>1, <2>2, DispatchShape
  <2>4. Moved(w, l, key[w], x, obj[w], made[w])
    BY <2>2, <2>3 DEF Dispatched, Goto, Keep, Moved, WorkersTyped
  <2>5. UNCHANGED <<delayed, wq>> BY <2>2 DEF Keep, control
  <2> HIDE DEF id
  <2>6. /\ ok /\ store[id] # Nil
        /\ seen' = [seen EXCEPT ![w] = {id}]
        /\ UNCHANGED <<store, events, delayed, wq>>
    BY <1>1, <2>2, <2>5
  <2> QED BY <2>3, <2>4, <2>6 DEF id
<1>2. CASE ~(ok /\ store[id] # Nil)
  BY <1>2 DEF GetCR
<1> QED BY <1>1, <1>2

\* so it makes a faithful copy.
LEMMA GetCRCopies ==
  ASSUME TypeInv, Copies, NEW w \in Workers, NEW ok, GetCR(w, ok)
  PROVE  Copies'
<1> USE DEF TypeInv
<1>1. CASE Untouched /\ Finish(w, FALSE)
  <2>1. ASSUME NEW v \in Workers PROVE Faithful(v)'
    <3>1. CASE v = w
      BY <1>1, <3>1 DEF Finish, Goto, Faithful, InUse, WorkersTyped
    <3>2. CASE v # w
      BY <1>1, <3>2 DEF Finish, Goto, Faithful, InUse, WorkersTyped, Untouched,
                        Copies, CopiesFaithful, CR
    <3> QED BY <3>1, <3>2
  <2>2. OneOwner' BY <1>1, SameOneOwner DEF Untouched, Copies
  <2> QED BY <2>1, <2>2 DEF Copies, CopiesFaithful
<1>2. CASE /\ seen' = [seen EXCEPT ![w] = {CR(key[w])}]
           /\ UNCHANGED <<store, events, delayed, wq>>
           /\ \E l \in {"unfinalize", "clean_get", "status", "annotate"},
                 x \in CRTypes :
                 /\ Moved(w, l, key[w], x, obj[w], made[w])
                 /\ Dispatched(w, store[CR(key[w])], l, x)
  <2>1. PICK l \in {"unfinalize", "clean_get", "status", "annotate"},
             x \in CRTypes : /\ Moved(w, l, key[w], x, obj[w], made[w])
                             /\ Dispatched(w, store[CR(key[w])], l, x)
    BY <1>2
  <2>2. Agrees(x, store[CR(key[w])]) BY <2>1 DEF Dispatched, Agrees
  <2>3. ASSUME NEW v \in Workers PROVE Faithful(v)'
    <3>1. CASE v = w
      <4>1. u'[v] = x /\ key'[v] = key[w] BY <2>1, <3>1 DEF Moved, WorkersTyped
      <4>2. store' = store BY <1>2
      <4> QED BY <2>2, <4>1, <4>2 DEF Faithful, CR
    <3>2. CASE v # w
      <4>1. /\ pc'[v] = pc[v] /\ key'[v] = key[v] /\ u'[v] = u[v]
        BY <2>1, <3>2 DEF Moved, WorkersTyped
      <4>2. seen'[v] = seen[v] /\ store' = store
        BY <1>2, <3>2 DEF Watched, SeenTyped
      <4> QED BY <4>1, <4>2, FaithfulStays DEF Copies, CopiesFaithful
    <3> QED BY <3>1, <3>2
  <2>4. OneOwner' BY <1>2, SameOneOwner DEF Copies
  <2> QED BY <2>3, <2>4 DEF Copies, CopiesFaithful
<1> QED BY <1>1, <1>2, GetCRReads

\* The queue, a restart and a worker that takes a key write nothing.
LEMMA QuietCopies ==
  ASSUME TypeInv, Copies,
         \/ \E c \in CRs : enqueueObj(c) \/ Retry(c)
         \/ Restart \/ (\E w \in Workers : Take(w)) \/ UNCHANGED vars
  PROVE  Copies'
<1> USE DEF TypeInv
<1>1. store' = store
  BY DEF enqueueObj, Retry, Restart, Take, vars
<1>2. OneOwner' BY <1>1, SameOneOwner DEF Copies
<1>3. CopiesFaithful'
  <2>1. CASE Restart BY <2>1 DEF Restart, CopiesFaithful, Faithful, InUse
  <2>2. CASE (\E c \in CRs : enqueueObj(c) \/ Retry(c)) \/ UNCHANGED vars
    <3>1. UNCHANGED <<store, seen, pc, key, u>>
      BY <2>2 DEF enqueueObj, Retry, vars
    <3> QED BY <3>1 DEF Copies, CopiesFaithful, Faithful, InUse, Agrees
  <2>3. ASSUME NEW w \in Workers, Take(w), NEW v \in Workers
        PROVE  Faithful(v)'
    <3>1. CASE v = w
      BY <2>3, <3>1 DEF Take, Goto, Faithful, InUse, WorkersTyped
    <3>2. CASE v # w
      <4>1. /\ pc'[v] = pc[v] /\ key'[v] = key[v] /\ u'[v] = u[v]
            /\ seen' = seen
        BY <2>3, <3>2 DEF Take, Goto, WorkersTyped
      <4> QED BY <1>1, <4>1, FaithfulStays DEF Copies, CopiesFaithful
    <3> QED BY <3>1, <3>2
  <2> QED BY <2>1, <2>2, <2>3 DEF CopiesFaithful
<1> QED BY <1>2, <1>3 DEF Copies

\* A worker whose copy of the CR is current has the CR's own spec, incarnation
\* and deletion mark, and a Deployment or Service is owned by one incarnation
\* of the CR it is named after (main.go:348, 504).
THEOREM CopiesInvariance == Spec => []Copies
<1>1. Init => Copies
  BY NameOf, ChildId DEF Init, Copies, CopiesFaithful, Faithful, InUse, OneOwner
<1>2. TypeInv /\ Copies /\ [Next]_vars => Copies'
  <2> SUFFICES ASSUME TypeInv, Copies, [Next]_vars PROVE Copies' OBVIOUS
  <2>1. ASSUME NEW w \in Workers, Reconcile(w) PROVE Copies'
    BY <2>1, ReconcileIs, GetCRCopies, WorksCopies
  <2> QED BY <2>1, OthersCopies, QuietCopies DEF Next, Cluster
<1> QED BY <1>1, <1>2, TypeInvariance, PTL DEF Spec

\* Only a user changes the spec of a CR.
LEMMA ReachKeepsSpec ==
  ASSUME TypeInv, NEW w \in Workers, InUse(w), Reach(w),
         NEW c \in CRs, store[CR(c)] # Nil, store'[CR(c)] # Nil
  PROVE  store'[CR(c)].spec = store[CR(c)].spec
<1> USE DEF TypeInv
<1>1. key[w] \in CRs BY Busy DEF InUse
<1>2. CASE Untouched \/ \E id \in Ids : Read(w, id)
  BY <1>2 DEF Untouched, Read
<1>3. ASSUME NEW id \in Ids, NEW val, Put(id, val), id # CR(c)
      PROVE  store'[CR(c)] = store[CR(c)]
  BY <1>3, NameOf DEF Put, Watched, StoreTyped
<1>4. ASSUME NEW p \in ProxyNames PROVE Proxy(p) \in Ids /\ Proxy(p) # CR(c)
  BY ProxyId DEF Proxy, CR
<1>5. ASSUME NEW kind \in Kinds
      PROVE  <<kind, key[w]>> \in Ids /\ <<kind, key[w]>> # CR(c)
  BY <1>1, ChildId DEF CR, Kinds
<1>6. CR(key[w]) \in Ids BY <1>1, NameOf
<1>7. ASSUME NEW val, Put(CR(key[w]), val), CR(key[w]) = CR(c)
      PROVE  store'[CR(c)] = val
  BY <1>6, <1>7 DEF Put, Watched, StoreTyped
<1> QED BY <1>2, <1>3, <1>4, <1>5, <1>6, <1>7 DEF Reach

\* No write of the operator undoes an edit of a user: a put from a stale copy is
\* refused, and one from a current copy has the spec of the CR (the Updates of
\* main.go:287, 328, 441, 677 and 789).
THEOREM EditsKept == Spec => NoLostEdit
<1>1. TypeInv /\ Copies /\ [Next]_vars
        => [\A c \in CRs :
              store[CR(c)] # Nil /\ store'[CR(c)] # Nil
                /\ store'[CR(c)].spec # store[CR(c)].spec => edits' > edits]_vars
  <2> SUFFICES ASSUME TypeInv, Copies, [Next]_vars, NEW c \in CRs,
                      store[CR(c)] # Nil, store'[CR(c)] # Nil,
                      store'[CR(c)].spec # store[CR(c)].spec
               PROVE  edits' > edits
    OBVIOUS
  <2>1. CASE Users
    BY <2>1, UsersPut DEF TypeInv, Counted
  <2>2. ASSUME NEW id \in Ids, CollectGarbage(id) PROVE FALSE
    <3>1. id # CR(c) /\ \E val : Put(id, val)
      BY <2>2, GarbagePut, NameOf
    <3>2. store'[CR(c)] = store[CR(c)]
      BY <3>1, NameOf DEF Put, TypeInv, Watched, StoreTyped
    <3> QED BY <3>2
  <2>3. store' # store OBVIOUS
  <2>4. ASSUME NEW w \in Workers, Reconcile(w) PROVE FALSE
    <3>1. PICK ok \in BOOLEAN : GetCR(w, ok) \/ Works(w, ok)
      BY <2>4, ReconcileIs
    <3>2. ~GetCR(w, ok) BY <2>3, GetCRReads DEF Untouched
    <3>3. InUse(w) /\ Reach(w) BY <3>1, <3>2, WorksReaches, WorksInUse
    <3> QED BY <3>3, ReachKeepsSpec
  <2> QED BY <2>1, <2>2, <2>3, <2>4
          DEF Next, Cluster, enqueueObj, Retry, Restart, Take, vars
<1> QED BY <1>1, TypeInvariance, CopiesInvariance, PTL DEF Spec, NoLostEdit

-----------------------------------------------------------------------------
(* What workers aim at. *)
\* A CR, or a copy of it, is what users and the operator make of it: it is
\* being deleted only if it may be, and records the proxy and the ruta of a
\* spec it once had.
Origin(c, x) ==
  /\ x.spec \in Specs[c]
  /\ x.deleting => c \in Deletable
  /\ x.ann.proxy # Nil =>
       \E t \in Specs[c] : /\ proxyName(c, t) = x.ann.proxy
                           /\ t.ruta = x.ann.route

\* A worker leaves a proxy that is recorded and no longer asked for, and cleans
\* up after a CR that is being deleted;
Fits(l, c, x) ==
  /\ Origin(c, x)
  /\ l \in OldLabels => x.ann.proxy \notin {Nil, proxyName(c, x.spec)}
  /\ l \in CleanLabels => x.ann.proxy # Nil /\ x.deleting
\* it joins a proxy as it has read it, while nobody has changed that.
AsRead(w) ==
  pc[w] = "proxy_update" /\ Proxy(ProxyOf(w)) \in seen[w] =>
    obj[w] = store[Proxy(ProxyOf(w))]
\* The CR in the API server has an origin too.
Stored(c) == store[CR(c)] # Nil => Origin(c, store[CR(c)])
\* Together.
Aims ==
  /\ \A c \in CRs : Stored(c)
  /\ \A w \in Workers : InUse(w) => Fits(pc[w], key[w], u[w])
  /\ \A w \in Workers : AsRead(w)

\* A copy of a CR that differs in its status, its finalizer and the rest.
LEMMA SameOrigin ==
  ASSUME NEW c, NEW x, NEW y, Origin(c, x), y.spec = x.spec,
         y.deleting = x.deleting,
         y.ann.proxy = x.ann.proxy, y.ann.route = x.ann.route
  PROVE  Origin(c, y)
  BY DEF Origin

\* What a call of a reconciliation makes of a CR.
LEMMA ReachCR ==
  ASSUME TypeInv, NEW w \in Workers, InUse(w), Reach(w), NEW c \in CRs
  PROVE  \/ store'[CR(c)] = store[CR(c)] \/ store'[CR(c)] = Nil
         \/ /\ c = key[w] /\ store[CR(c)] # Nil
            /\ store'[CR(c)].spec = store[CR(c)].spec
            /\ store'[CR(c)].uid = store[CR(c)].uid
            /\ store'[CR(c)].deleting = store[CR(c)].deleting
            /\ store'[CR(c)].ann \in {u[w].ann, store[CR(c)].ann}
<1> USE DEF TypeInv
<1>1. key[w] \in CRs BY Busy DEF InUse
<1>2. CASE Untouched \/ \E id \in Ids : Read(w, id)
  BY <1>2 DEF Untouched, Read
<1>3. ASSUME NEW id \in Ids, NEW val, Put(id, val), id # CR(c)
      PROVE  store'[CR(c)] = store[CR(c)]
  BY <1>3, NameOf DEF Put, Watched, StoreTyped
<1>4. ASSUME NEW p \in ProxyNames PROVE Proxy(p) \in Ids /\ Proxy(p) # CR(c)
  BY ProxyId DEF Proxy, CR
<1>5. ASSUME NEW kind \in Kinds
      PROVE  <<kind, key[w]>> \in Ids /\ <<kind, key[w]>> # CR(c)
  BY <1>1, ChildId DEF CR, Kinds
<1>6. CR(key[w]) \in Ids BY <1>1, NameOf
<1>7. ASSUME NEW val, Put(CR(key[w]), val), CR(key[w]) = CR(c)
      PROVE  store'[CR(c)] = val /\ c = key[w]
  BY <1>6, <1>7 DEF Put, Watched, StoreTyped, CR
<1>8. Current(w, CR(key[w])) => store[CR(key[w])] # Nil
  BY DEF Current, Watched, SeenTyped
<1>9. CASE \E val : /\ Current(w, CR(key[w])) /\ Put(CR(key[w]), val)
                    /\ val.spec = store[CR(key[w])].spec
                    /\ val.uid = store[CR(key[w])].uid
                    /\ val.deleting = store[CR(key[w])].deleting
                    /\ val.ann \in {u[w].ann, store[CR(key[w])].ann}
  <2>1. CASE CR(key[w]) = CR(c) BY <1>7, <1>8, <1>9, <2>1
  <2>2. CASE CR(key[w]) # CR(c) BY <1>3, <1>6, <1>9, <2>2
  <2> QED BY <2>1, <2>2
<1>10. CASE Put(CR(key[w]), Nil) BY <1>3, <1>6, <1>7, <1>10
<1> QED BY <1>2, <1>3, <1>4, <1>5, <1>9, <1>10 DEF Reach

\* What a worker may do spares the current copies of the others.
LEMMA ReachSparesOthers ==
  ASSUME TypeInv, NEW w \in Workers, InUse(w), Reach(w),
         NEW v \in Workers, v # w, NEW j, j \in seen'[v]
  PROVE  j \in seen[v] /\ store'[j] = store[j]
<1>1. key[w] \in CRs BY Busy DEF TypeInv, InUse
<1>2. CASE Untouched BY <1>2 DEF Untouched
<1>3. CASE \E id \in Ids : id[1] # "cr" /\ Read(w, id)
  BY <1>3 DEF Read, TypeInv, Watched, SeenTyped
<1>4. CASE \E id \in Ids : \E val : Put(id, val)
  BY <1>4, PutSpares DEF TypeInv
<1>5. CR(key[w]) \in Ids /\ \A kind \in Kinds : <<kind, key[w]>> \in Ids
  BY <1>1, NameOf, ChildId
<1>6. \A p \in ProxyNames : Proxy(p) \in Ids BY ProxyId
<1> QED BY <1>2, <1>3, <1>4, <1>5, <1>6 DEF Reach

\* An aim stays while neither the worker nor its proxy changes.
LEMMA AimStays ==
  ASSUME Aims, NEW v \in Workers, pc'[v] = pc[v], key'[v] = key[v],
         u'[v] = u[v], obj'[v] = obj[v],
         \A j \in seen'[v] : j \in seen[v] /\ store'[j] = store[j]
  PROVE  /\ InUse(v)' => Fits(pc'[v], key'[v], u'[v])
         /\ AsRead(v)'
<1>1. InUse(v)' => Fits(pc'[v], key'[v], u'[v]) BY DEF Aims, InUse
<1>2. ProxyOf(v)' = ProxyOf(v) BY DEF ProxyOf
<1>3. AsRead(v)' BY <1>2 DEF Aims, AsRead, Proxy
<1> QED BY <1>1, <1>3

\* A call of a reconciliation keeps the aims.
LEMMA WorksAims ==
  ASSUME TypeInv, Copies, Aims, NEW w \in Workers, NEW ok, Works(w, ok)
  PROVE  Aims'
<1> USE DEF TypeInv
<1>1. InUse(w) /\ Reach(w) /\ Goes(w) BY WorksReaches, WorksInUse
<1>2. key[w] \in CRs BY <1>1, Busy DEF InUse
<1>3. Fits(pc[w], key[w], u[w]) /\ Origin(key[w], u[w])
  BY <1>1 DEF Aims, Fits
<1>4. ASSUME NEW c \in CRs, store'[CR(c)] # Nil
      PROVE  Origin(c, store'[CR(c)])
  <2>1. CASE store'[CR(c)] = store[CR(c)]
    BY <1>4, <2>1 DEF Aims, Stored
  <2>2. CASE /\ c = key[w] /\ store[CR(c)] # Nil
             /\ store'[CR(c)].spec = store[CR(c)].spec
             /\ store'[CR(c)].deleting = store[CR(c)].deleting
             /\ store'[CR(c)].ann \in {u[w].ann, store[CR(c)].ann}
    <3>1. Origin(c, store[CR(c)]) /\ Origin(c, u[w])
      BY <1>3, <2>2 DEF Aims, Stored
    <3> QED BY <2>2, <3>1 DEF Origin
  <2> QED BY <1>1, <1>4, <2>1, <2>2, ReachCR
<1>5. ASSUME NEW v \in Workers, v # w
      PROVE  /\ InUse(v)' => Fits(pc'[v], key'[v], u'[v])
             /\ AsRead(v)'
  <2>1. /\ pc'[v] = pc[v] /\ key'[v] = key[v] /\ u'[v] = u[v]
        /\ obj'[v] = obj[v]
    BY <1>1, <1>5 DEF Goes, Moved, WorkersTyped
  <2>2. \A j \in seen'[v] : j \in seen[v] /\ store'[j] = store[j]
    BY <1>1, <1>5, ReachSparesOthers
  <2> QED BY <2>1, <2>2, AimStays
<1>6. /\ InUse(w)' => Fits(pc'[w], key'[w], u'[w])
      /\ AsRead(w)'
  <2>1. CASE Moved(w, "idle", Nil, Nil, Nil, FALSE)
    BY <2>1 DEF Moved, InUse, AsRead, WorkersTyped
  <2>2. ASSUME NEW l \in Labels \ {"idle", "get"}, NEW x, NEW o, NEW m,
               Moved(w, l, key[w], x, o, m), Agrees(x, u[w]),
               Follows(w, l, x, o, m)
        PROVE  /\ InUse(w)' => Fits(pc'[w], key'[w], u'[w])
               /\ AsRead(w)'
    <3>1. pc'[w] = l /\ key'[w] = key[w] /\ u'[w] = x /\ obj'[w] = o
      BY <2>2 DEF Moved, WorkersTyped
    <3>2. Origin(key[w], x)
      <4>1. CASE /\ x.ann.proxy = u[w].ann.proxy
                 /\ x.ann.route = u[w].ann.route
        BY <1>3, <2>2, <4>1, SameOrigin DEF Agrees
      <4>2. CASE x.ann.proxy = ProxyOf(w) /\ x.ann.route = u[w].spec.ruta
        BY <1>3, <2>2, <4>2 DEF Agrees, Origin, ProxyOf
      <4> QED BY <2>2, <4>1, <4>2 DEF Follows
    <3>3. proxyName(key[w], x.spec) = ProxyOf(w)
      BY <2>2 DEF Agrees, ProxyOf
    <3>4. l \in OldLabels => x.ann.proxy \notin {Nil, proxyName(key[w], x.spec)}
      BY <1>3, <2>2, <3>3 DEF Follows, Fits, ProxyOf
    <3>5. l \in CleanLabels => x.ann.proxy # Nil /\ x.deleting
      BY <1>3, <2>2 DEF Follows, Fits
    <3>6. Fits(l, key[w], x) BY <3>2, <3>4, <3>5 DEF Fits
    <3>7. l = "proxy_update" => o = store'[Proxy(proxyName(key[w], x.spec))]
      BY <2>2, <3>3 DEF Follows
    <3>8. AsRead(w)' BY <3>1, <3>7 DEF AsRead, ProxyOf, Proxy
    <3> QED BY <3>1, <3>6, <3>8
  <2> QED BY <1>1, <2>1, <2>2 DEF Goes
<1>7. \A c \in CRs : Stored(c)' BY <1>4 DEF Stored
<1> QED BY <1>5, <1>6, <1>7 DEF Aims

\* What a user makes of a CR is what it should be.
LEMMA UsersOrigin ==
  ASSUME TypeInv, Aims, Users, NEW d \in CRs, store'[CR(d)] # Nil
  PROVE  Origin(d, store'[CR(d)])
<1> USE DEF TypeInv
<1>1. PICK c \in CRs :
        \/ \E spec \in Specs[c] : CreateCR(c, spec) \/ EditCR(c, spec)
        \/ DeleteCR(c) \/ DeleteDeployment(c) \/ TouchDeployment(c)
  BY DEF Users
<1>2. ASSUME NEW id \in Ids, NEW val, Put(id, val)
      PROVE  store'[CR(d)] = IF id = CR(d) THEN val ELSE store[CR(d)]
  BY <1>2, NameOf DEF Put, Watched, StoreTyped
<1>3. store[CR(d)] # Nil => Origin(d, store[CR(d)]) BY DEF Aims, Stored
<1>4. CASE DeleteDeployment(c) \/ TouchDeployment(c)
  <2>1. <<"deployment", c>> \in Ids /\ <<"deployment", c>> # CR(d)
    BY NameOf DEF CR
  <2> QED BY <1>2, <1>3, <1>4, <2>1 DEF DeleteDeployment, TouchDeployment
<1>5. ASSUME NEW val, Put(CR(c), val), val # Nil => Origin(c, val)
      PROVE  Origin(d, store'[CR(d)])
  <2>1. CASE c = d BY <1>2, <1>5, <2>1, NameOf
  <2>2. CASE c # d
    <3>1. CR(c) # CR(d) BY <2>2 DEF CR
    <3> QED BY <1>2, <1>3, <1>5, <3>1, NameOf
  <2> QED BY <2>1, <2>2
<1>6. ASSUME store[CR(c)] # Nil
      PROVE  store[CR(c)] \in CRTypes /\ Origin(c, store[CR(c)])
  BY <1>6, NameOf DEF Watched, StoreTyped, Typed, Maybe, Aims, Stored
<1>7. ASSUME NEW spec \in Specs[c], CreateCR(c, spec)
      PROVE  Origin(d, store'[CR(d)])
  <2> DEFINE val == NewCR(born[c] + 1, spec)
  <2>1. Origin(c, val) BY DEF NewCR, NoAnnotations, Origin
  <2>2. Put(CR(c), val) BY <1>7 DEF CreateCR
  <2> HIDE DEF val
  <2> QED BY <1>5, <2>1, <2>2
<1>8. ASSUME NEW spec \in Specs[c], EditCR(c, spec)
      PROVE  Origin(d, store'[CR(d)])
  <2> DEFINE val == [store[CR(c)] EXCEPT !.spec = spec]
  <2>1. Put(CR(c), val) /\ store[CR(c)] # Nil BY <1>8 DEF EditCR
  <2>2. /\ val.spec = spec /\ val.deleting = store[CR(c)].deleting
        /\ val.ann = store[CR(c)].ann
    BY <1>6, <2>1 DEF CRTypes
  <2> HIDE DEF val
  <2>3. Origin(c, val) BY <1>6, <2>1, <2>2 DEF Origin
  <2> QED BY <1>5, <2>1, <2>3
<1>9. CASE DeleteCR(c)
  <2> DEFINE val == [store[CR(c)] EXCEPT !.deleting = TRUE]
  <2>1. /\ Put(CR(c), Nil) \/ Put(CR(c), val)
        /\ store[CR(c)] # Nil /\ c \in Deletable
    BY <1>9 DEF DeleteCR
  <2>2. /\ val.spec = store[CR(c)].spec /\ val.ann = store[CR(c)].ann
    BY <1>6, <2>1 DEF CRTypes
  <2> HIDE DEF val
  <2>3. Origin(c, val) BY <1>6, <2>1, <2>2 DEF Origin
  <2> QED BY <1>5, <2>1, <2>3
<1> QED BY <1>1, <1>4, <1>7, <1>8, <1>9

\* The users and the garbage collector keep the aims.
LEMMA OthersAims ==
  ASSUME TypeInv, Aims, Users \/ \E id \in Ids : CollectGarbage(id)
  PROVE  Aims'
<1>1. WorkersStay /\ \E id \in Ids : \E val : Put(id, val)
  BY UsersPut, GarbagePut
<1>2. ASSUME NEW v \in Workers
      PROVE  /\ InUse(v)' => Fits(pc'[v], key'[v], u'[v])
             /\ AsRead(v)'
  <2>1. /\ pc'[v] = pc[v] /\ key'[v] = key[v] /\ u'[v] = u[v]
        /\ obj'[v] = obj[v]
    BY <1>1 DEF WorkersStay
  <2>2. \A j \in seen'[v] : j \in seen[v] /\ store'[j] = store[j]
    BY <1>1, PutSpares DEF TypeInv
  <2> QED BY <2>1, <2>2, AimStays
<1>3. ASSUME NEW c \in CRs PROVE Stored(c)'
  <2>1. CASE Users BY <2>1, UsersOrigin DEF Stored
  <2>2. ASSUME NEW id \in Ids, CollectGarbage(id) PROVE Stored(c)'
    <3>1. id # CR(c) /\ \E val : Put(id, val) BY <2>2, GarbagePut, NameOf
    <3>2. store'[CR(c)] = store[CR(c)]
      BY <3>1, NameOf DEF Put, TypeInv, Watched, StoreTyped
    <3> QED BY <3>2 DEF Aims, Stored
  <2> QED BY <2>1, <2>2
<1> QED BY <1>2, <1>3 DEF Aims

\* What a worker makes of a CR it has read has the origin of that.
LEMMA DispatchFits ==
  ASSUME NEW w \in Workers, NEW c, NEW cr \in CRTypes, Origin(c, cr),
         Dispatch(w, cr)
  PROVE  \E l \in Simple \cup {"clean_get"}, x \in CRTypes :
           Goto(w, l) /\ u' = [u EXCEPT ![w] = x] /\ Fits(l, c, x)
<1>1. CASE cr.deleting
  <2>1. u' = [u EXCEPT ![w] = cr] BY <1>1 DEF Dispatch
  <2>2. Goto(w, IF cr.ann.proxy = Nil THEN "unfinalize" ELSE "clean_get")
    BY <1>1 DEF Dispatch
  <2>3. CASE cr.ann.proxy = Nil
    <3>1. Fits("unfinalize", c, cr) BY DEF Fits, OldLabels, CleanLabels
    <3> QED BY <2>1, <2>2, <2>3, <3>1 DEF Simple
  <2>4. CASE cr.ann.proxy # Nil
    <3>1. Fits("clean_get", c, cr)
      BY <1>1, <2>4 DEF Fits, OldLabels, CleanLabels
    <3> QED BY <2>1, <2>2, <2>4, <3>1
  <2> QED BY <2>3, <2>4
<1>2. ASSUME NEW x \in CRTypes, NEW l \in {"status", "annotate"},
             Goto(w, l), u' = [u EXCEPT ![w] = x],
             x.spec = cr.spec, x.deleting = cr.deleting,
             x.ann.proxy = cr.ann.proxy, x.ann.route = cr.ann.route
      PROVE  \E k \in Simple \cup {"clean_get"}, y \in CRTypes :
               Goto(w, k) /\ u' = [u EXCEPT ![w] = y] /\ Fits(k, c, y)
  <2>1. Origin(c, x) BY <1>2, SameOrigin
  <2>2. Fits(l, c, x) BY <2>1 DEF Fits, OldLabels, CleanLabels
  <2> QED BY <1>2, <2>2 DEF Simple
<1>3. CASE ~cr.deleting /\ cr.spec.mult <= 0
  <2> DEFINE x == [cr EXCEPT !.ann.valid = "false"]
  <2>1. x \in CRTypes BY DEF CRTypes, Maybe
  <2>2. /\ x.spec = cr.spec /\ x.deleting = cr.deleting
        /\ x.ann.proxy = cr.ann.proxy /\ x.ann.route = cr.ann.route
    BY DEF CRTypes
  <2>3. u' = [u EXCEPT ![w] = x] /\ Goto(w, "status") BY <1>3 DEF Dispatch
  <2> HIDE DEF x
  <2> QED BY <1>2, <2>1, <2>2, <2>3
<1>4. CASE ~cr.deleting /\ ~(cr.spec.mult <= 0)
  <2> DEFINE x == [cr EXCEPT !.ann.valid = "true", !.ann.mult = cr.spec.mult]
  <2>1. x \in CRTypes
    <3>1. cr.spec.mult \in Mults BY DEF CRTypes, AllSpecs, Mults
    <3> QED BY <3>1, Stamped
  <2>2. /\ x.spec = cr.spec /\ x.deleting = cr.deleting
        /\ x.ann.proxy = cr.ann.proxy /\ x.ann.route = cr.ann.route
    BY DEF CRTypes
  <2>3. u' = [u EXCEPT ![w] = x] /\ Goto(w, "annotate") BY <1>4 DEF Dispatch
  <2> HIDE DEF x
  <2> QED BY <1>2, <2>1, <2>2, <2>3
<1> QED BY <1>1, <1>3, <1>4

\* So the Get of a CR keeps the aims,
LEMMA GetCRAims ==
  ASSUME TypeInv, Aims, NEW w \in Workers, NEW ok, GetCR(w, ok)
  PROVE  Aims'
<1> USE DEF TypeInv
<1> DEFINE id == CR(key[w])
<1>1. key[w] \in CRs BY DEF GetCR, WorkersTyped, Entry
<1>2. store' = store
  BY DEF GetCR, Untouched
<1>3. \A v \in Workers \ {w} : seen'[v] = seen[v]
  BY GetCRReads DEF Untouched, Watched, SeenTyped
<1>4. \/ Moved(w, "idle", Nil, Nil, Nil, FALSE)
      \/ \E l \in Simple \cup {"clean_get"} : \E x :
           Moved(w, l, key[w], x, obj[w], made[w]) /\ Fits(l, key[w], x)
  <2>1. CASE ok /\ store[id] # Nil
    <3>1. store[id] \in CRTypes /\ Origin(key[w], store[id])
      BY <1>1, <2>1, NameOf DEF Watched, StoreTyped, Typed, Maybe, Aims, Stored
    <3>2. Dispatch(w, store[id]) /\ Keep /\ UNCHANGED <<obj, made>>
      BY <2>1 DEF GetCR
    <3>3. PICK l \in Simple \cup {"clean_get"}, x \in CRTypes :
            Goto(w, l) /\ u' = [u EXCEPT ![w] = x] /\ Fits(l, key[w], x)
      BY <3>1, <3>2, DispatchFits
    <3>4. Moved(w, l, key[w], x, obj[w], made[w])
      BY <3>2, <3>3 DEF Goto, Keep, Moved, WorkersTyped
    <3> QED BY <3>3, <3>4
  <2>2. CASE ~(ok /\ store[id] # Nil)
    <3>1. Finish(w, FALSE) BY <2>2 DEF GetCR
    <3> QED BY <3>1, FinishMoves
  <2> QED BY <2>1, <2>2
<1>5. ASSUME NEW v \in Workers, v # w
      PROVE  /\ InUse(v)' => Fits(pc'[v], key'[v], u'[v])
             /\ AsRead(v)'
  <2>1. /\ pc'[v] = pc[v] /\ key'[v] = key[v] /\ u'[v] = u[v]
        /\ obj'[v] = obj[v]
    BY <1>4, <1>5 DEF Moved, WorkersTyped
  <2> QED BY <1>2, <1>3, <1>5, <2>1, AimStays
<1>6. /\ InUse(w)' => Fits(pc'[w], key'[w], u'[w])
      /\ AsRead(w)'
  <2>1. CASE Moved(w, "idle", Nil, Nil, Nil, FALSE)
    BY <2>1 DEF Moved, InUse, AsRead, WorkersTyped
  <2>2. ASSUME NEW l \in Simple \cup {"clean_get"}, NEW x,
               Moved(w, l, key[w], x, obj[w], made[w]), Fits(l, key[w], x)
        PROVE  /\ InUse(w)' => Fits(pc'[w], key'[w], u'[w])
               /\ AsRead(w)'
    <3>1. pc'[w] = l /\ key'[w] = key[w] /\ u'[w] = x
      BY <2>2 DEF Moved, WorkersTyped
    <3>2. l # "proxy_update" BY DEF Simple
    <3> QED BY <2>2, <3>1, <3>2 DEF AsRead
  <2> QED BY <1>4, <2>1, <2>2
<1>7. \A c \in CRs : Stored(c)' BY <1>2 DEF Aims, Stored
<1> QED BY <1>5, <1>6, <1>7 DEF Aims

\* and so does whoever writes nothing.
LEMMA QuietAims ==
  ASSUME TypeInv, Aims,
         \/ \E c \in CRs : enqueueObj(c) \/ Retry(c)
         \/ Restart \/ (\E w \in Workers : Take(w)) \/ UNCHANGED vars
  PROVE  Aims'
<1> USE DEF TypeInv
<1>1. store' = store BY DEF enqueueObj, Retry, Restart, Take, vars
<1>2. \A c \in CRs : Stored(c)' BY <1>1 DEF Aims, Stored
<1>3. CASE Restart
  BY <1>2, <1>3 DEF Restart, Aims, InUse, AsRead
<1>4. CASE (\E c \in CRs : enqueueObj(c) \/ Retry(c)) \/ UNCHANGED vars
  <2>1. UNCHANGED <<store, seen, pc, key, u, obj>>
    BY <1>4 DEF enqueueObj, Retry, vars
  <2> QED BY <1>2, <2>1, AimStays DEF Aims
<1>5. ASSUME NEW w \in Workers, Take(w) PROVE Aims'
  <2>1. ASSUME NEW v \in Workers
        PROVE  /\ InUse(v)' => Fits(pc'[v], key'[v], u'[v])
               /\ AsRead(v)'
    <3>1. CASE v = w
      BY <1>5, <3>1 DEF Take, Goto, InUse, AsRead, WorkersTyped
    <3>2. CASE v # w
      <4>1. /\ pc'[v] = pc[v] /\ key'[v] = key[v] /\ u'[v] = u[v]
            /\ obj'[v] = obj[v] /\ seen' = seen
        BY <1>5, <3>2 DEF Take, Goto, WorkersTyped
      <4> QED BY <1>1, <4>1, AimStays
    <3> QED BY <3>1, <3>2
  <2> QED BY <1>2, <2>1 DEF Aims
<1> QED BY <1>3, <1>4, <1>5

\* A worker leaves or cleans up only a proxy that its CR has asked for, and
\* joins one as it is: a write that is not refused loses no owner and no route
\* that another worker has added (main.go:565-626, 677-769 and 839-901).
THEOREM AimsInvariance == Spec => []Aims
<1>1. Init => Aims
  BY NameOf DEF Init, Aims, Stored, InUse, AsRead
<1>2. TypeInv /\ Copies /\ Aims /\ [Next]_vars => Aims'
  <2> SUFFICES ASSUME TypeInv, Copies, Aims, [Next]_vars PROVE Aims' OBVIOUS
  <2>1. ASSUME NEW w \in Workers, Reconcile(w) PROVE Aims'
    BY <2>1, ReconcileIs, GetCRAims, WorksAims
  <2> QED BY <2>1, OthersAims, QuietAims DEF Next, Cluster
<1> QED BY <1>1, <1>2, TypeInvariance, CopiesInvariance, PTL DEF Spec

-----------------------------------------------------------------------------
(* The routes of a shared proxy. *)
\* CRs that share a proxy ask for one host and for routes of their own, and
\* they are there to stay.
Peaceful ==
  \A c, d \in CRs : c # d => \A s \in Specs[c], t \in Specs[d] :
    proxyName(c, s) = proxyName(d, t) =>
      /\ s.host = t.host
      /\ s.ruta = t.ruta => s.ruta = Nil
      /\ d \notin Deletable
      /\ \A other \in Specs[d] : proxyName(d, other) = proxyName(d, t)

\* The proxy p has the owner, and a route for the spec of c.
Has(p, owner, c, spec) ==
  /\ store[Proxy(p)] # Nil
  /\ owner \in store[Proxy(p)].owners
  /\ [prefix |-> spec.ruta, service |-> c] \in store[Proxy(p)].routes
\* It answers for the host of the spec.
HasHost(p, spec) == spec.host # Nil => store[Proxy(p)].vhost = spec.host

\* What a call of a reconciliation makes of a proxy.
LEMMA ReachProxy ==
  ASSUME TypeInv, NEW w \in Workers, InUse(w), Reach(w), NEW p \in ProxyNames
  PROVE  \/ store'[Proxy(p)] = store[Proxy(p)]
         \/ p = u[w].ann.proxy /\ pc[w] \in {"old_write", "clean_write"}
         \/ p = ProxyOf(w) /\ Joins(w, store'[Proxy(p)])
<1> USE DEF TypeInv
<1>1. key[w] \in CRs BY Busy DEF InUse
<1>2. CASE Untouched \/ \E id \in Ids : Read(w, id)
  BY <1>2 DEF Untouched, Read
<1>3. ASSUME NEW id \in Ids, NEW val, Put(id, val)
      PROVE  store'[Proxy(p)] = IF id = Proxy(p) THEN val ELSE store[Proxy(p)]
  BY <1>3, ProxyId DEF Put, Watched, StoreTyped
<1>4. CR(key[w]) \in Ids /\ CR(key[w]) # Proxy(p) BY <1>1, NameOf DEF CR, Proxy
<1>5. ASSUME NEW kind \in Kinds
      PROVE  <<kind, key[w]>> \in Ids /\ <<kind, key[w]>> # Proxy(p)
  BY <1>1, ChildId DEF Proxy, Kinds
<1>6. ASSUME NEW q \in ProxyNames, NEW val, Put(Proxy(q), val),
             \/ q = u[w].ann.proxy /\ pc[w] \in {"old_write", "clean_write"}
             \/ q = ProxyOf(w) /\ Joins(w, val)
      PROVE  \/ store'[Proxy(p)] = store[Proxy(p)]
             \/ p = u[w].ann.proxy /\ pc[w] \in {"old_write", "clean_write"}
             \/ p = ProxyOf(w) /\ Joins(w, store'[Proxy(p)])
  <2>1. CASE q = p BY <1>3, <1>6, <2>1, ProxyId
  <2>2. CASE q # p
    <3>1. Proxy(q) # Proxy(p) BY <2>2 DEF Proxy
    <3> QED BY <1>3, <1>6, <3>1, ProxyId
  <2> QED BY <2>1, <2>2
<1> QED BY <1>2, <1>3, <1>4, <1>5, <1>6 DEF Reach

\* The proxy a spec asks for has a name.
LEMMA SpecNames ==
  ASSUME NEW c \in CRs, NEW s \in Specs[c]
  PROVE  proxyName(c, s) \in ProxyNames
  BY DEF proxyName, ProxyNames, Hosts

\* What a worker makes of a proxy is one.
LEMMA JoinedTyped ==
  ASSUME TypeInv, NEW w \in Workers, InUse(w), NEW val, Joins(w, val)
  PROVE  val # Nil
<1> USE DEF TypeInv
<1>1. key[w] \in CRs /\ u[w] \in CRTypes BY Busy DEF InUse
<1>2. /\ Owner(w) \in CRs \X Uids /\ u[w].spec.host \in Maybe(Hosts)
      /\ Route(w) \in [prefix : Rutas, service : CRs]
  BY <1>1, ProxyOfTyped
<1>3. CASE val = Fresh(w)
  <2>1. Fresh(w) \in ProxyTypes BY <1>2 DEF Fresh, ProxyTypes, Maybe
  <2> QED BY <1>3, <2>1, ObjectAssumption
<1>4. CASE pc[w] = "proxy_update" /\ val = Merged(w)
  <2>1. obj[w] \in ProxyTypes BY <1>4 DEF WorkersTyped, Entry
  <2>2. Merged(w) \in ProxyTypes
    BY <1>2, <2>1 DEF Merged, ProxyTypes, Maybe
  <2> QED BY <1>4, <2>2, ObjectAssumption
<1> QED BY <1>3, <1>4 DEF Joins

\* To join a proxy that is there keeps its owners, and its routes but for those
\* of two prefixes.
LEMMA JoinKeeps ==
  ASSUME Aims, NEW w \in Workers, NEW p, p = ProxyOf(w), store[Proxy(p)] # Nil,
         NEW val, Joins(w, val)
  PROVE  /\ val.owners = store[Proxy(p)].owners \cup {Owner(w)}
         /\ val.vhost = IF u[w].spec.host = Nil THEN store[Proxy(p)].vhost
                        ELSE u[w].spec.host
         /\ Route(w) \in val.routes
         /\ \A r \in store[Proxy(p)].routes :
              \/ r \in val.routes
              \/ r.prefix \in {Nil, u[w].spec.ruta}
              \/ u[w].ann.proxy = p /\ r.prefix = u[w].ann.route
<1>1. val = Merged(w) /\ obj[w] = store[Proxy(p)]
  BY DEF Joins, Current, Aims, AsRead
<1>2. /\ val.owners = obj[w].owners \cup {Owner(w)}
      /\ val.vhost = IF u[w].spec.host = Nil THEN obj[w].vhost
                     ELSE u[w].spec.host
      /\ val.routes =
           {r \in obj[w].routes :
              r.prefix \notin {IF u[w].ann.proxy = ProxyOf(w)
                               THEN u[w].ann.route ELSE Nil, u[w].spec.ruta}}
           \cup {Route(w)}
  BY <1>1 DEF Merged
<1>3. ASSUME NEW r \in store[Proxy(p)].routes, r \notin val.routes,
             r.prefix \notin {Nil, u[w].spec.ruta}
      PROVE  u[w].ann.proxy = p /\ r.prefix = u[w].ann.route
  <2>1. r.prefix \in {IF u[w].ann.proxy = ProxyOf(w)
                      THEN u[w].ann.route ELSE Nil, u[w].spec.ruta}
    BY <1>1, <1>2, <1>3
  <2> QED BY <1>3, <2>1
<1> QED BY <1>1, <1>2, <1>3

\* No worker of another CR takes a route, an owner or the host from a proxy
\* while the CRs are peaceful.
LEMMA RouteSurvives ==
  ASSUME TypeInv, Aims, Peaceful, NEW w \in Workers, InUse(w), Reach(w),
         NEW c \in CRs, c # key[w], NEW s \in Specs[c], s.ruta # Nil,
         NEW owner, NEW p, p = proxyName(c, s), Has(p, owner, c, s)
  PROVE  Has(p, owner, c, s)' /\ (HasHost(p, s) => HasHost(p, s)')
<1> USE DEF TypeInv
<1>1. PICK d \in CRs : d = key[w] BY Busy DEF InUse
<1>2. Fits(pc[w], d, u[w]) /\ Origin(d, u[w]) BY <1>1 DEF Aims, Fits
<1>3. p \in ProxyNames BY SpecNames
<1>4. CASE store'[Proxy(p)] = store[Proxy(p)]
  BY <1>4 DEF Has, HasHost
<1>5. ASSUME p = u[w].ann.proxy, pc[w] \in {"old_write", "clean_write"}
      PROVE  FALSE
  <2>1. p # Nil BY <1>3, NameAssumption
  <2>2. PICK t \in Specs[d] : proxyName(d, t) = p
    BY <1>2, <1>5, <2>1 DEF Origin
  <2>3. /\ d \notin Deletable
        /\ \A other \in Specs[d] : proxyName(d, other) = p
    BY <1>1, <2>2 DEF Peaceful
  <2> QED BY <1>2, <1>5, <2>3 DEF Fits, Origin, OldLabels, CleanLabels
<1>6. ASSUME p = ProxyOf(w), Joins(w, store'[Proxy(p)])
      PROVE  Has(p, owner, c, s)' /\ (HasHost(p, s) => HasHost(p, s)')
  <2> DEFINE r == [prefix |-> s.ruta, service |-> c]
             val == store'[Proxy(p)]
  <2>1. u[w].spec \in Specs[d] /\ proxyName(d, u[w].spec) = p
    BY <1>1, <1>2, <1>6 DEF Origin, ProxyOf
  <2>2. s.host = u[w].spec.host /\ s.ruta # u[w].spec.ruta
    BY <1>1, <2>1 DEF Peaceful
  <2>3. u[w].ann.proxy = p => s.ruta # u[w].ann.route
    <3> SUFFICES ASSUME u[w].ann.proxy = p PROVE s.ruta # u[w].ann.route
      OBVIOUS
    <3>1. PICK t \in Specs[d] : proxyName(d, t) = p /\ t.ruta = u[w].ann.route
      BY <1>2, <1>3, NameAssumption DEF Origin
    <3> QED BY <1>1, <3>1 DEF Peaceful
  <2>4. store[Proxy(p)] # Nil BY DEF Has
  <2>5. /\ val.owners = store[Proxy(p)].owners \cup {Owner(w)}
        /\ val.vhost = IF u[w].spec.host = Nil THEN store[Proxy(p)].vhost
                       ELSE u[w].spec.host
        /\ \A q \in store[Proxy(p)].routes :
             \/ q \in val.routes
             \/ q.prefix \in {Nil, u[w].spec.ruta}
             \/ u[w].ann.proxy = p /\ q.prefix = u[w].ann.route
    BY <1>6, <2>4, JoinKeeps
  <2>6. r \in val.routes /\ owner \in val.owners
    BY <2>2, <2>3, <2>5 DEF Has
  <2>7. val # Nil BY <1>3, <1>6, JoinedTyped
  <2>8. val.vhost = s.host \/ s.host = Nil BY <2>2, <2>5
  <2> HIDE DEF r, val
  <2> QED BY <2>6, <2>7, <2>8 DEF Has, HasHost, r, val
<1> QED BY <1>3, <1>4, <1>5, <1>6, ReachProxy

\* CRs that are there to stay and keep their host and ruta.
Steady ==
  /\ Deletable = {}
  /\ \A c \in CRs : \A s, t \in Specs[c] : s.host = t.host /\ s.ruta = t.ruta

\* While CRs are steady, a CR's own worker keeps its route too.
LEMMA OwnRouteSurvives ==
  ASSUME TypeInv, Aims, Steady, NEW w \in Workers, InUse(w), Reach(w),
         NEW c \in CRs, c = key[w], NEW s \in Specs[c],
         NEW owner, NEW p, p = proxyName(c, s), Has(p, owner, c, s)
  PROVE  Has(p, owner, c, s)'
<1> USE DEF TypeInv
<1>1. Fits(pc[w], c, u[w]) /\ Origin(c, u[w]) BY DEF Aims, Fits
<1>2. p \in ProxyNames BY SpecNames
<1>3. \A t \in Specs[c] : proxyName(c, t) = p /\ t.ruta = s.ruta
  BY DEF Steady, proxyName
<1>4. u[w].spec.ruta = s.ruta /\ ProxyOf(w) = p
  BY <1>1, <1>3 DEF Origin, ProxyOf
<1>5. CASE store'[Proxy(p)] = store[Proxy(p)] BY <1>5 DEF Has
<1>6. ASSUME p = u[w].ann.proxy, pc[w] \in {"old_write", "clean_write"}
      PROVE  FALSE
  BY <1>1, <1>3, <1>6 DEF Steady, Fits, Origin, OldLabels, CleanLabels
<1>7. ASSUME Joins(w, store'[Proxy(p)]) PROVE Has(p, owner, c, s)'
  <2>1. store[Proxy(p)] # Nil BY DEF Has
  <2>2. /\ store'[Proxy(p)].owners = store[Proxy(p)].owners \cup {Owner(w)}
        /\ Route(w) \in store'[Proxy(p)].routes
    BY <1>4, <1>7, <2>1, JoinKeeps
  <2>3. Route(w) = [prefix |-> s.ruta, service |-> c] BY <1>4 DEF Route
  <2>4. store'[Proxy(p)] # Nil BY <1>7, JoinedTyped
  <2> QED BY <2>2, <2>3, <2>4 DEF Has
<1> QED BY <1>2, <1>5, <1>6, <1>7, ReachProxy

\* The garbage collector takes no route and no host, and no living owner.
LEMMA GarbageKeepsRoute ==
  ASSUME TypeInv, NEW id \in Ids, CollectGarbage(id),
         NEW c \in CRs, store[CR(c)] # Nil, NEW s, NEW p \in ProxyNames,
         Has(p, Self(c), c, s)
  PROVE  Has(p, Self(c), c, s)' /\ (HasHost(p, s) => HasHost(p, s)')
<1> USE DEF TypeInv
<1>1. store'[CR(c)] = store[CR(c)]
  <2>1. id # CR(c) /\ \E val : Put(id, val) BY GarbagePut, NameOf
  <2> QED BY <2>1, NameOf DEF Put, Watched, StoreTyped
<1>2. Self(c)' = Self(c) BY <1>1 DEF Self
<1>3. CASE id # Proxy(p)
  <2>1. store'[Proxy(p)] = store[Proxy(p)]
    BY <1>3, GarbagePut, ProxyId DEF Put, Watched, StoreTyped
  <2> QED BY <1>2, <2>1 DEF Has, HasHost
<1>4. CASE id = Proxy(p)
  <2> DEFINE old == store[Proxy(p)]
             new == [old EXCEPT !.owners = @ \cap Live]
  <2>1. old \in ProxyTypes
    BY ProxyId DEF Has, Watched, StoreTyped, Typed, Maybe
  <2>2. Self(c) \in old.owners \cap Live BY DEF Has, Live, Self
  <2>3. Put(Proxy(p), new) BY <1>4, <2>2 DEF CollectGarbage
  <2>4. /\ new.owners = old.owners \cap Live /\ new.routes = old.routes
        /\ new.vhost = old.vhost /\ new \in ProxyTypes
    BY <2>1 DEF ProxyTypes
  <2>5. new # Nil BY <2>4, ObjectAssumption
  <2> HIDE DEF new
  <2>6. store'[Proxy(p)] = new BY <2>3, ProxyId DEF Put, Watched, StoreTyped
  <2> QED BY <1>2, <2>2, <2>4, <2>5, <2>6 DEF Has, HasHost
<1> QED BY <1>3, <1>4

\* Users write no proxy, and a CR keeps its uid while it is there.
LEMMA UsersKeep ==
  ASSUME TypeInv, Users
  PROVE  /\ \A p \in ProxyNames : store'[Proxy(p)] = store[Proxy(p)]
         /\ \A c \in CRs : store[CR(c)] # Nil /\ store'[CR(c)] # Nil =>
              store'[CR(c)].uid = store[CR(c)].uid
<1> USE DEF TypeInv
<1>1. ASSUME NEW p \in ProxyNames PROVE store'[Proxy(p)] = store[Proxy(p)]
  <2>1. PICK c \in CRs, id \in Ids :
          /\ id = CR(c) \/ id = <<"deployment", c>>
          /\ \E val : Put(id, val)
    BY UsersPut
  <2>2. id # Proxy(p) BY <2>1 DEF CR, Proxy
  <2> QED BY <2>1, <2>2, ProxyId DEF Put, Watched, StoreTyped
<1>2. ASSUME NEW c \in CRs, store[CR(c)] # Nil, store'[CR(c)] # Nil
      PROVE  store'[CR(c)].uid = store[CR(c)].uid
  <2>1. PICK d \in CRs :
          \/ \E spec \in Specs[d] : CreateCR(d, spec) \/ EditCR(d, spec)
          \/ DeleteCR(d) \/ DeleteDeployment(d) \/ TouchDeployment(d)
    BY DEF Users
  <2>2. ASSUME NEW id \in Ids, NEW val, Put(id, val)
        PROVE  store'[CR(c)] = IF id = CR(c) THEN val ELSE store[CR(c)]
    BY <2>2, NameOf DEF Put, Watched, StoreTyped
  <2>3. CASE DeleteDeployment(d) \/ TouchDeployment(d)
    <3>1. <<"deployment", d>> \in Ids /\ <<"deployment", d>> # CR(c)
      BY NameOf DEF CR
    <3> QED BY <2>2, <2>3, <3>1 DEF DeleteDeployment, TouchDeployment
  <2>4. CASE d # c /\ \E val : Put(CR(d), val)
    <3>1. CR(d) \in Ids /\ CR(d) # CR(c) BY <2>4, NameOf DEF CR
    <3> QED BY <2>2, <2>4, <3>1
  <2>5. store[CR(c)] \in CRTypes
    BY <1>2, NameOf DEF Watched, StoreTyped, Typed, Maybe
  <2>6. ASSUME d = c, NEW spec \in Specs[d], EditCR(d, spec)
        PROVE  store'[CR(c)].uid = store[CR(c)].uid
    <3> DEFINE val == [store[CR(c)] EXCEPT !.spec = spec]
    <3>1. Put(CR(c), val) BY <2>6 DEF EditCR
    <3>2. val.uid = store[CR(c)].uid BY <2>5 DEF CRTypes
    <3> HIDE DEF val
    <3> QED BY <2>2, <3>1, <3>2, NameOf
  <2>7. ASSUME d = c, DeleteCR(d)
        PROVE  store'[CR(c)].uid = store[CR(c)].uid
    <3> DEFINE val == [store[CR(c)] EXCEPT !.deleting = TRUE]
    <3>1. Put(CR(c), val) \/ Put(CR(c), Nil) BY <2>7 DEF DeleteCR
    <3>2. val.uid = store[CR(c)].uid BY <2>5 DEF CRTypes
    <3> HIDE DEF val
    <3> QED BY <1>2, <2>2, <3>1, <3>2, NameOf
  <2>8. (\E val : Put(CR(d), val)) \/ DeleteDeployment(d) \/ TouchDeployment(d)
    BY <2>1 DEF CreateCR, EditCR, DeleteCR
  <2> QED BY <1>2, <2>1, <2>3, <2>4, <2>6, <2>7, <2>8 DEF CreateCR
<1> QED BY <1>1, <1>2

\* The shared proxy loses no route that is asked for while CRs are steady, and
\* those that share a proxy have rutas of their own: no write undoes another's
\* (main.go:677-769), whatever the faults and however the workers interleave.
THEOREM RoutesSurvive ==
  ASSUME Peaceful, Steady
  PROVE  Spec => RoutesKept
<1>1. TypeInv /\ Copies /\ Aims /\ [Next]_vars
        => [\A c \in CRs, p \in ProxyNames :
              Asks(c, p) /\ Asks(c, p)' /\ Wanted(c) = Wanted(c)' /\ Serves(c, p)
                => Serves(c, p)']_vars
  <2> SUFFICES ASSUME TypeInv, Copies, Aims, Next,
                      NEW c \in CRs, NEW p \in ProxyNames,
                      Asks(c, p), Asks(c, p)', Wanted(c) = Wanted(c)',
                      Serves(c, p)
               PROVE  Serves(c, p)'
    BY DEF vars
  <2> USE DEF TypeInv
  <2>1. PICK s \in Specs[c] : s = store[CR(c)].spec
    BY DEF Asks, Valid, Lives, Aims, Stored, Origin
  <2>2. /\ store[CR(c)] # Nil /\ store'[CR(c)] # Nil
        /\ Wanted(c)' = s /\ s.ruta # Nil /\ p = proxyName(c, s)
    BY <2>1 DEF Asks, Valid, Lives, Wanted
  <2>3. Has(p, Self(c), c, s)
    BY <2>1 DEF Serves, RouteFor, Has, Wanted
  <2>4. ASSUME NEW owner, owner = Self(c), Has(p, owner, c, s)',
               store'[CR(c)].uid = store[CR(c)].uid
        PROVE  Serves(c, p)'
    <3>1. Self(c)' = owner BY <2>4 DEF Self
    <3>2. RouteFor(c)' = [prefix |-> s.ruta, service |-> c]
      BY <2>2 DEF RouteFor
    <3> QED BY <2>4, <3>1, <3>2 DEF Serves, Has
  <2>5. PICK owner : owner = Self(c) OBVIOUS
  <2>6. Has(p, owner, c, s) BY <2>3, <2>5
  <2>7. CASE Users
    <3>1. Has(p, owner, c, s)' BY <2>6, <2>7, UsersKeep DEF Has
    <3> QED BY <2>2, <2>4, <2>5, <2>7, <3>1, UsersKeep
  <2>8. ASSUME NEW id \in Ids, CollectGarbage(id) PROVE Serves(c, p)'
    <3>1. store'[CR(c)] = store[CR(c)]
      <4>1. id # CR(c) /\ \E val : Put(id, val) BY <2>8, GarbagePut, NameOf
      <4> QED BY <4>1, NameOf DEF Put, Watched, StoreTyped
    <3>2. Has(p, Self(c), c, s)' BY <2>2, <2>3, <2>8, GarbageKeepsRoute
    <3>3. Has(p, owner, c, s)' BY <2>5, <3>1, <3>2 DEF Self, Has
    <3> QED BY <2>4, <2>5, <3>1, <3>3
  <2>9. ASSUME NEW w \in Workers, InUse(w), Reach(w) PROVE Serves(c, p)'
    <3>1. store'[CR(c)].uid = store[CR(c)].uid BY <2>2, <2>9, ReachCR
    <3>2. CASE c = key[w]
      <4>1. Has(p, owner, c, s)' BY <2>2, <2>6, <2>9, <3>2, OwnRouteSurvives
      <4> QED BY <2>4, <2>5, <3>1, <4>1
    <3>3. CASE c # key[w]
      <4>1. Has(p, owner, c, s)' BY <2>2, <2>6, <2>9, <3>3, RouteSurvives
      <4> QED BY <2>4, <2>5, <3>1, <4>1
    <3> QED BY <3>2, <3>3
  <2>10. CASE store' = store
    BY <2>4, <2>5, <2>6, <2>10 DEF Has
  <2>11. ASSUME NEW w \in Workers, Reconcile(w) PROVE Serves(c, p)'
    <3>1. PICK ok \in BOOLEAN : GetCR(w, ok) \/ Works(w, ok)
      BY <2>11, ReconcileIs
    <3>2. CASE GetCR(w, ok) BY <2>10, <3>2, GetCRReads DEF Untouched
    <3>3. CASE Works(w, ok) BY <2>9, <3>3, WorksReaches, WorksInUse
    <3> QED BY <3>1, <3>2, <3>3
  <2> QED BY <2>7, <2>8, <2>10, <2>11
          DEF Next, Cluster, enqueueObj, Retry, Restart, Take
<1> QED BY <1>1, TypeInvariance, CopiesInvariance, AimsInvariance, PTL
        DEF Spec, RoutesKept
=============================================================================
