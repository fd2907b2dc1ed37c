------------------------------ MODULE Operator ------------------------------
(***************************************************************************)
(* The Multiplicador operator, operator-multiplicador-v2/main.go: events   *)
(* of CRs and Deployments fill a work queue, and workers reconcile one CR  *)
(* at a time against the API server: a Deployment, a Service, and a route  *)
(* in an HTTPProxy that all CRs of one host share.                         *)
(*                                                                         *)
(* One action of a worker is one call to the API server with the code that *)
(* follows up to the next call; everybody else may act between two calls.  *)
(* The API server, its garbage collector, the informers and the users are  *)
(* modelled from the way main.go uses them.  replicas and multiplicador    *)
(* are treated alike by the code, and are one value here.                  *)
(***************************************************************************)
EXTENDS Integers, Sequences

CONSTANTS CRs,            \* names of custom resources
          Workers,
          Specs,          \* the specs users give each CR: [mult, ruta, host]
          Deletable,      \* the CRs users may delete
          Nil,            \* no object, no ruta, no host, no annotation
          StatusAllowed,  \* does RBAC let the operator call UpdateStatus?
          StatusKept,     \* does the CRD's schema keep what it writes?
          MaxEdits,       \* bound on what users do
          MaxFaults,      \* bound on calls the API server fails
          MaxCrashes      \* bound on restarts of the operator

ASSUME NilAssumption == Nil \notin CRs

\* The CRD declares multiplicador an integer.
ASSUME SpecsAssumption == \A c \in CRs : \A s \in Specs[c] : s.mult \in Int

ASSUME BoundsAssumption ==
  {MaxEdits, MaxFaults, MaxCrashes} \subseteq Nat

VARIABLES store,      \* the API server's objects, Nil where there is none
          born,       \* incarnations of each CR so far; the last is its uid
          events,     \* CRs with a watch event on its way to the operator
          wq,         \* the work queue
          delayed,    \* keys AddRateLimited will add later
          pc, key,    \* each worker's place and item
          u, obj,     \* its copies of the CR and of the object in hand
          seen,       \* the objects that did not change since it read them
          made,       \* did this reconciliation create the Deployment?
          edits, faults, crashes

world   == <<born, edits, crashes>>
control == <<wq, delayed>>
vars == <<store, born, events, wq, delayed, pc, key, u, obj, seen, made,
          edits, faults, crashes>>

Q == INSTANCE WorkQueue

-----------------------------------------------------------------------------
(* Objects and their names.                                                *)

\* strings.ReplaceAll(host, ".", "-"): a host is the sequence of its parts.
VhostName(host) ==
  [i \in DOMAIN host |-> IF host[i] = "." THEN "-" ELSE host[i]]

Hosts == {s.host : s \in UNION {Specs[c] : c \in CRs}} \ {Nil}
ProxyNames == CRs \cup {VhostName(h) : h \in Hosts}
proxyName(c, spec) == IF spec.host = Nil THEN c ELSE VhostName(spec.host)

CR(c) == <<"cr", c>>
Proxy(p) == <<"proxy", p>>
Ids == ({"cr", "deployment", "service"} \X CRs) \cup ({"proxy"} \X ProxyNames)

NoAnnotations == [valid |-> Nil, mult |-> Nil, proxy |-> Nil, route |-> Nil]
NewCR(id, spec) ==
  [uid |-> id, spec |-> spec, deleting |-> FALSE, finalizer |-> FALSE,
   ann |-> NoAnnotations, status |-> Nil]

\* The mutant takes the name of the CR for its uid.
NamedOwner(w) == <<key[w], key[w]>>
Owner(w) == <<key[w], u[w].uid>>
Route(w) == [prefix |-> u[w].spec.ruta, service |-> key[w]]

\* What the Deployment and the Service should carry besides their owner.
Config(kind, w) == IF kind = "deployment" THEN u[w].spec.mult ELSE 8080

Init ==
  /\ store = [id \in Ids |-> Nil]
  /\ born = [c \in CRs |-> 0]
  /\ events = {}
  /\ wq = Q!EmptyQueue
  /\ delayed = {}
  /\ pc = [w \in Workers |-> "idle"]
  /\ key = [w \in Workers |-> Nil]
  /\ u = [w \in Workers |-> Nil]
  /\ obj = [w \in Workers |-> Nil]
  /\ seen = [w \in Workers |-> {}]
  /\ made = [w \in Workers |-> FALSE]
  /\ edits = 0 /\ faults = 0 /\ crashes = 0

-----------------------------------------------------------------------------
(* The API server.  A write that changes nothing is no write; one that     *)
(* does makes every copy stale, the writer's own too unless it reads the   *)
(* answer, which main.go never does.  CRs and Deployments are watched.     *)

Put(id, val) ==
  /\ store' = [store EXCEPT ![id] = val]
  /\ seen' = [w \in Workers |->
                IF val = store[id] THEN seen[w] ELSE seen[w] \ {id}]
  /\ events' = IF val # store[id] /\ id[1] \in {"cr", "deployment"}
               THEN events \cup {id[2]} ELSE events

Untouched == UNCHANGED <<store, seen, events>>

\* The mutant forces its write on whatever there is by now.
Forced(w, id) == store[id] # Nil

\* An Update goes through when the copy is current, else it is a conflict.
Current(w, id) == id \in seen[w]

\* Update of a CR takes all but the status and the mark of deletion; without
\* its last finalizer a CR that is being deleted is gone.
PutCR(w) ==
  LET old == store[CR(key[w])]
  IN  Put(CR(key[w]), IF old.deleting /\ ~u[w].finalizer THEN Nil
                      ELSE [u[w] EXCEPT !.deleting = old.deleting,
                                        !.status = old.status])

\* A call is answered, or fails while the bound on faults allows it.
Call(ok) ==
  /\ ok \/ faults < MaxFaults
  /\ faults' = IF ok THEN faults ELSE faults + 1

-----------------------------------------------------------------------------
(* Users, the garbage collector and the informers.                         *)

Edit == edits < MaxEdits /\ edits' = edits + 1
WorkersStay ==
  UNCHANGED <<control, pc, key, u, obj, made, faults, crashes>>

CreateCR(c, spec) ==
  /\ spec \in Specs[c]
  /\ store[CR(c)] = Nil
  /\ Edit
  /\ born' = [born EXCEPT ![c] = @ + 1]
  /\ Put(CR(c), NewCR(born[c] + 1, spec))
  /\ WorkersStay

EditCR(c, spec) ==
  /\ spec \in Specs[c]
  /\ store[CR(c)] # Nil
  /\ spec # store[CR(c)].spec
  /\ Edit
  /\ Put(CR(c), [store[CR(c)] EXCEPT !.spec = spec])
  /\ UNCHANGED born /\ WorkersStay

DeleteCR(c) ==
  /\ c \in Deletable
  /\ store[CR(c)] # Nil
  /\ ~store[CR(c)].deleting
  /\ Edit
  /\ Put(CR(c), IF store[CR(c)].finalizer
                THEN [store[CR(c)] EXCEPT !.deleting = TRUE] ELSE Nil)
  /\ UNCHANGED born /\ WorkersStay

\* Somebody deletes or edits the Deployment behind the operator's back.
DeleteDeployment(c) ==
  LET id == <<"deployment", c>> IN
  /\ store[id] # Nil
  /\ Edit
  /\ Put(id, Nil)
  /\ UNCHANGED born /\ WorkersStay

TouchDeployment(c) ==
  LET id == <<"deployment", c>> IN
  /\ store[id] # Nil /\ store[id].config # 0
  /\ Edit
  /\ Put(id, [store[id] EXCEPT !.config = 0])
  /\ UNCHANGED born /\ WorkersStay

Live == {<<c, store[CR(c)].uid>> : c \in {d \in CRs : store[CR(d)] # Nil}}

\* An object none of whose owners lives is deleted; else it loses the
\* references to those that do not.
CollectGarbage(id) ==
  /\ id[1] # "cr" /\ store[id] # Nil
  /\ ~ store[id].owners \subseteq Live
  /\ Put(id, IF store[id].owners \cap Live = {} THEN Nil
             ELSE [store[id] EXCEPT !.owners = @ \cap Live])
  /\ UNCHANGED <<born, edits>> /\ WorkersStay

\* A watch event of a CR or of its Deployment reaches its handler.
enqueueObj(c) ==
  /\ c \in events
  /\ events' = events \ {c}
  /\ wq' = Q!Add(wq, c)
  /\ UNCHANGED <<store, seen, delayed, pc, key, u, obj, made, faults, world>>

\* The rate limiter lets a failed key through.
Retry(c) ==
  /\ c \in delayed
  /\ delayed' = delayed \ {c}
  /\ wq' = Q!Add(wq, c)
  /\ UNCHANGED <<store, seen, events, pc, key, u, obj, made, faults, world>>

\* The process dies and starts again; the informers list what there is.
Restart ==
  /\ crashes < MaxCrashes
  /\ crashes' = crashes + 1
  /\ wq' = Q!EmptyQueue
  /\ delayed' = {}
  /\ pc' = [w \in Workers |-> "idle"]
  /\ key' = [w \in Workers |-> Nil]
  /\ u' = [w \in Workers |-> Nil]
  /\ obj' = [w \in Workers |-> Nil]
  /\ seen' = [w \in Workers |-> {}]
  /\ made' = [w \in Workers |-> FALSE]
  /\ events' = {id[2] : id \in {i \in Ids :
                  i[1] \in {"cr", "deployment"} /\ store[i] # Nil}}
  /\ UNCHANGED <<store, born, edits, faults>>

-----------------------------------------------------------------------------
(* processNextItem and what all steps of a reconciliation have in common.  *)

Goto(w, label) == pc' = [pc EXCEPT ![w] = label]
Keep == UNCHANGED <<control, key, world>>
Proceed(w, label) == Goto(w, label) /\ Keep /\ UNCHANGED <<u, obj, made>>

\* The mutant never calls queue.Forget.
RetryAnyway(w, err) ==
  /\ Goto(w, "idle")
  /\ key' = [key EXCEPT ![w] = Nil]
  /\ u' = [u EXCEPT ![w] = Nil]
  /\ obj' = [obj EXCEPT ![w] = Nil]
  /\ made' = [made EXCEPT ![w] = FALSE]
  /\ wq' = Q!Done(wq, key[w])
  /\ delayed' = delayed \cup {key[w]}
  /\ UNCHANGED world

\* queue.Forget or queue.AddRateLimited, then queue.Done.
Finish(w, err) ==
  /\ Goto(w, "idle")
  /\ key' = [key EXCEPT ![w] = Nil]
  /\ u' = [u EXCEPT ![w] = Nil]
  /\ obj' = [obj EXCEPT ![w] = Nil]
  /\ made' = [made EXCEPT ![w] = FALSE]
  /\ wq' = Q!Done(wq, key[w])
  /\ delayed' = IF err THEN delayed \cup {key[w]} ELSE delayed
  /\ UNCHANGED world

Take(w) ==
  /\ pc[w] = "idle" /\ wq.queue # <<>>
  /\ wq' = Q!Get(wq)
  /\ key' = [key EXCEPT ![w] = Head(wq.queue)]
  /\ Goto(w, "get")
  /\ UNCHANGED <<store, seen, events, delayed, u, obj, made, faults, world>>

\* A Get that answers leaves the worker with a current copy.
Read(w, id) ==
  /\ seen' = [seen EXCEPT ![w] = @ \cup {id}]
  /\ UNCHANGED <<store, events>>

\* The mutant annotates the valid CR with something new every time.
Stamp(w, cr) ==
  IF cr.deleting
  THEN u' = [u EXCEPT ![w] = cr] /\ Goto(w, "unfinalize")
  ELSE /\ u' = [u EXCEPT ![w] = [cr EXCEPT !.ann.valid =
                   IF @ = "true" THEN "false" ELSE "true"]]
       /\ Goto(w, "annotate")

\* What reconcileOne does with the CR before its first call.
Dispatch(w, cr) ==
  CASE cr.deleting ->
         /\ u' = [u EXCEPT ![w] = cr]
         /\ Goto(w, IF cr.ann.proxy = Nil THEN "unfinalize" ELSE "clean_get")
    [] ~cr.deleting /\ cr.spec.mult <= 0 ->
         /\ u' = [u EXCEPT ![w] = [cr EXCEPT !.ann.valid = "false"]]
         /\ Goto(w, "status")
    [] OTHER ->
         /\ u' = [u EXCEPT ![w] = [cr EXCEPT !.ann.valid = "true",
                                             !.ann.mult = cr.spec.mult]]
         /\ Goto(w, "annotate")

\* Any error of the Get counts as "CR no longer exists".
GetCR(w, ok) ==
  LET id == CR(key[w]) IN
  /\ pc[w] = "get"
  /\ Call(ok)
  /\ IF ok /\ store[id] # Nil
     THEN /\ seen' = [seen EXCEPT ![w] = {id}]
          /\ Dispatch(w, store[id])
          /\ UNCHANGED <<store, events, obj, made>> /\ Keep
     ELSE Untouched /\ Finish(w, FALSE)

-----------------------------------------------------------------------------
(* reconcileOne.                                                           *)

\* The ignored errors: the write happens, or nothing does.
Try(w, ok) ==
  /\ Call(ok)
  /\ IF ok /\ Current(w, CR(key[w])) THEN PutCR(w) ELSE Untouched

\* The annotations that say the CR is valid, and the multiplicador in use.
Annotate(w, ok) ==
  /\ pc[w] = "annotate"
  /\ Try(w, ok)
  /\ Proceed(w, "deployment_get")

\* The Deployment and the Service go through the same three steps.  Then
\* comes the Service, or the HTTPProxy if the CR asks for a ruta.
ProxyOf(w) == proxyName(key[w], u[w].spec)

AfterChild(w, kind) ==
  CASE kind = "deployment" -> Proceed(w, "service_get")
    [] kind = "service" /\ u[w].spec.ruta = Nil ->
         IF made[w] THEN Finish(w, FALSE) ELSE Proceed(w, "status")
    [] OTHER -> Proceed(w, IF u[w].ann.proxy \in {Nil, ProxyOf(w)}
                           THEN "proxy_get" ELSE "old_get")

At == [deployment |-> [get |-> "deployment_get", create |-> "deployment_create",
                       update |-> "deployment_update"],
       service |-> [get |-> "service_get", create |-> "service_create",
                    update |-> "service_update"]]

Desired(kind, w) == [owners |-> {Owner(w)}, config |-> Config(kind, w)]

\* Is there nothing to update?  The mutant looks at the owner alone.
OwnerOnly(kind, w) == Owner(w) \in store[<<kind, key[w]>>].owners
UpToDate(kind, w) ==
  /\ Owner(w) \in store[<<kind, key[w]>>].owners
  /\ store[<<kind, key[w]>>].config = Config(kind, w)

GetChild(w, ok, kind) ==
  LET id == <<kind, key[w]>> IN
  /\ pc[w] = At[kind].get
  /\ Call(ok)
  /\ IF ok /\ store[id] # Nil
     THEN Read(w, id) /\ IF UpToDate(kind, w) THEN AfterChild(w, kind)
                         ELSE Proceed(w, At[kind].update)
     ELSE Untouched /\ Proceed(w, At[kind].create)

CreateChild(w, ok, kind) ==
  LET id == <<kind, key[w]>> IN
  /\ pc[w] = At[kind].create
  /\ Call(ok)
  /\ IF ok /\ store[id] = Nil
     THEN /\ Put(id, Desired(kind, w))
          /\ IF kind = "service" THEN AfterChild(w, kind)
             ELSE /\ made' = [made EXCEPT ![w] = TRUE]
                  /\ Goto(w, "status") /\ Keep /\ UNCHANGED <<u, obj>>
     ELSE Untouched /\ Finish(w, TRUE)

\* An object may have one controller: the API server refuses to add an owner
\* to the Deployment or Service of an earlier CR of the same name.
UpdateChild(w, ok, kind) ==
  LET id == <<kind, key[w]>> IN
  /\ pc[w] = At[kind].update
  /\ Call(ok)
  /\ IF ok /\ Current(w, id) /\ store[id].owners \subseteq {Owner(w)}
     THEN Put(id, Desired(kind, w)) /\ AfterChild(w, kind)
     ELSE Untouched /\ Finish(w, TRUE)

ensureDeployment(w, ok) ==
  \/ GetChild(w, ok, "deployment") \/ CreateChild(w, ok, "deployment")
  \/ UpdateChild(w, ok, "deployment")

ensureService(w, ok) ==
  \/ GetChild(w, ok, "service") \/ CreateChild(w, ok, "service")
  \/ UpdateChild(w, ok, "service")

\* The status follows the creation of the Deployment, the end of any other
\* reconciliation, or the discovery that the multiplicador is not positive.
AfterStatus(w, err) ==
  IF made[w] THEN Proceed(w, "service_get")
  ELSE Finish(w, err /\ u[w].spec.mult <= 0)

UpdateStatus(w, ok) ==
  LET id == CR(key[w]) IN
  /\ pc[w] = "status"
  /\ Call(ok)
  /\ IF ok /\ StatusAllowed /\ Current(w, id)
     THEN /\ Put(id, [store[id] EXCEPT !.status =
                          IF StatusKept THEN u[w].spec.mult ELSE @])
          /\ AfterStatus(w, FALSE)
     ELSE Untouched /\ Proceed(w, "fallback")

Fallback(w, ok) ==
  /\ pc[w] = "fallback"
  /\ Try(w, ok)
  /\ AfterStatus(w, ~(ok /\ Current(w, CR(key[w]))))

-----------------------------------------------------------------------------
(* ensureServiceAndProxy: the HTTPProxy, and cleanupProxyForCR.            *)

\* The proxy on record loses this CR's owner and the recorded prefix.  The
\* Delete of a proxy nobody needs comes without a precondition.
GetOld(w, ok, here, there, next) ==
  LET id == Proxy(u[w].ann.proxy) IN
  /\ pc[w] = here
  /\ Call(ok)
  /\ IF ok /\ store[id] # Nil
     THEN /\ Read(w, id)
          /\ obj' = [obj EXCEPT ![w] =
               [store[id] EXCEPT !.owners = @ \ {Owner(w)},
                  !.routes = {r \in @ : r.prefix # u[w].ann.route}]]
          /\ Goto(w, there) /\ Keep /\ UNCHANGED <<u, made>>
     ELSE Untouched /\ Proceed(w, next)

WriteOld(w, ok, here, next) ==
  LET id == Proxy(u[w].ann.proxy) IN
  /\ pc[w] = here
  /\ Call(ok)
  /\ LET useless == obj[w].owners = {} /\ obj[w].routes = {} IN
     CASE ok /\ useless -> Put(id, Nil)
       [] ok /\ ~useless /\ Current(w, id) -> Put(id, obj[w])
       [] OTHER -> Untouched
  /\ Proceed(w, next)

LeaveOldProxy(w, ok) ==
  \/ GetOld(w, ok, "old_get", "old_write", "proxy_get")
  \/ WriteOld(w, ok, "old_write", "proxy_get")

cleanupProxyForCR(w, ok) ==
  \/ GetOld(w, ok, "clean_get", "clean_write", "unfinalize")
  \/ WriteOld(w, ok, "clean_write", "unfinalize")

\* The mutant drops the finalizer from its copy and does not send it.
KeepFinalizer(w, ok) ==
  /\ pc[w] = "unfinalize"
  /\ Call(ok)
  /\ Untouched
  /\ Finish(w, FALSE)

\* Whatever became of the clean-up, the finalizer goes; the error of this
\* Update is ignored as well.
Unfinalize(w, ok) ==
  LET id == CR(key[w]) IN
  /\ pc[w] = "unfinalize"
  /\ Call(ok)
  /\ IF ok /\ Current(w, id) THEN Put(id, Nil) ELSE Untouched
  /\ Finish(w, FALSE)

GetProxy(w, ok) ==
  LET id == Proxy(ProxyOf(w)) IN
  /\ pc[w] = "proxy_get"
  /\ Call(ok)
  /\ IF ok /\ store[id] # Nil
     THEN /\ Read(w, id)
          /\ obj' = [obj EXCEPT ![w] = store[id]]
          /\ Goto(w, "proxy_update") /\ Keep /\ UNCHANGED <<u, made>>
     ELSE Untouched /\ Proceed(w, "proxy_create")

\* What the CR remembers of its proxy, written by the step Record.
Remember(w, finalizer) ==
  /\ u' = [u EXCEPT ![w].ann.proxy = ProxyOf(w),
                    ![w].ann.route = u[w].spec.ruta,
                    ![w].finalizer = @ \/ finalizer]
  /\ Goto(w, "record") /\ Keep /\ UNCHANGED <<obj, made>>

CreateProxy(w, ok) ==
  LET id == Proxy(ProxyOf(w)) IN
  /\ pc[w] = "proxy_create"
  /\ Call(ok)
  /\ IF ok /\ store[id] = Nil
     THEN /\ Put(id, [owners |-> {Owner(w)}, routes |-> {Route(w)},
                      vhost |-> u[w].spec.host])
          /\ Remember(w, FALSE)
     ELSE Untouched /\ Finish(w, TRUE)

\* The first mutant forgets the owner, the second replaces all routes.
JoinNobody(w) ==
  [owners |-> obj[w].owners, vhost |-> obj[w].vhost,
   routes |-> {r \in obj[w].routes : r.prefix # u[w].spec.ruta}
              \cup {Route(w)}]
ReplaceRoutes(w) ==
  [owners |-> obj[w].owners \cup {Owner(w)}, vhost |-> u[w].spec.host,
   routes |-> {Route(w)}]

\* The CR joins the owners, and its route replaces the one it had and any
\* route of the same prefix.
Merged(w) ==
  LET left == IF u[w].ann.proxy = ProxyOf(w) THEN u[w].ann.route ELSE Nil
  IN  [owners |-> obj[w].owners \cup {Owner(w)},
       routes |-> {r \in obj[w].routes :
                     r.prefix \notin {left, u[w].spec.ruta}} \cup {Route(w)},
       vhost  |-> IF u[w].spec.host = Nil THEN obj[w].vhost
                  ELSE u[w].spec.host]

UpdateProxy(w, ok) ==
  LET id == Proxy(ProxyOf(w)) IN
  /\ pc[w] = "proxy_update"
  /\ Call(ok)
  /\ IF ok /\ Current(w, id) THEN Put(id, Merged(w)) /\ Remember(w, TRUE)
     ELSE Untouched /\ Finish(w, TRUE)

\* The mutant is done when the proxy is.
RecordAndStop(w, ok) ==
  /\ pc[w] = "record"
  /\ Try(w, ok)
  /\ Finish(w, FALSE)

Record(w, ok) ==
  /\ pc[w] = "record"
  /\ Try(w, ok)
  /\ IF made[w] THEN Finish(w, FALSE) ELSE Proceed(w, "status")

-----------------------------------------------------------------------------
Reconcile(w) == \E ok \in BOOLEAN :
  \/ GetCR(w, ok)        \/ Annotate(w, ok)
  \/ UpdateStatus(w, ok) \/ Fallback(w, ok)
  \/ LeaveOldProxy(w, ok) \/ cleanupProxyForCR(w, ok) \/ Unfinalize(w, ok)
  \/ GetProxy(w, ok)     \/ CreateProxy(w, ok)
  \/ UpdateProxy(w, ok)  \/ Record(w, ok)
  \/ ensureDeployment(w, ok) \/ ensureService(w, ok)

Users == \E c \in CRs :
  \/ \E spec \in Specs[c] : CreateCR(c, spec) \/ EditCR(c, spec)
  \/ DeleteCR(c) \/ DeleteDeployment(c) \/ TouchDeployment(c)

Cluster == \/ \E id \in Ids : CollectGarbage(id)
           \/ \E c \in CRs : enqueueObj(c) \/ Retry(c)

Next == \/ Users \/ Cluster \/ Restart
        \/ \E w \in Workers : Take(w) \/ Reconcile(w)

Spec == Init /\ [][Next]_vars

\* The scheduler runs every goroutine, the rate limiter's delays end, and the
\* cluster delivers its events and collects its garbage.  Users owe nothing.
FairSpec ==
  /\ Spec
  /\ \A w \in Workers : WF_vars(Take(w)) /\ WF_vars(Reconcile(w))
  /\ \A c \in CRs : WF_vars(enqueueObj(c)) /\ WF_vars(Retry(c))
  /\ \A id \in Ids : WF_vars(CollectGarbage(id))
=============================================================================
