------------------------- MODULE OperatorProperties -------------------------
(***************************************************************************)
(* What the Multiplicador operator should guarantee, whatever the order of *)
(* its calls, the edits of the users and the garbage collector's work.     *)
(***************************************************************************)
EXTENDS Operator

Maybe(S) == S \cup {Nil}
AllSpecs == UNION {Specs[c] : c \in CRs}
Mults == {s.mult : s \in AllSpecs}
Rutas == {s.ruta : s \in AllSpecs}
Uids == 0 .. MaxEdits
CRTypes ==
  [uid : Uids, spec : AllSpecs, deleting : BOOLEAN, finalizer : BOOLEAN,
   ann : [valid : {Nil, "true", "false"}, mult : Maybe(Mults),
          proxy : Maybe(ProxyNames), route : Maybe(Rutas)],
   status : Maybe(Mults)]
ProxyTypes ==
  [owners : SUBSET (CRs \X Uids),
   routes : SUBSET [prefix : Rutas, service : CRs], vhost : Maybe(Hosts)]
ChildTypes == [owners : SUBSET (CRs \X Uids), config : Mults \cup {0, 8080}]

\* Nil is no object, and no name of a proxy.
ASSUME ObjectAssumption == Nil \notin CRTypes \cup ChildTypes \cup ProxyTypes
ASSUME NameAssumption == Nil \notin ProxyNames

Labels ==
  {"idle", "get", "annotate", "status", "fallback", "old_get", "old_write",
   "clean_get", "clean_write", "unfinalize", "proxy_get", "proxy_create",
   "proxy_update", "record"}
  \cup {At[kind][step] : kind \in DOMAIN At, step \in {"get", "create", "update"}}

\* Objects, copies and the bookkeeping of the workers are what they should
\* be, and a worker has an item exactly while it is busy.
TypeOK ==
  /\ \A c \in CRs : /\ store[CR(c)] \in Maybe(CRTypes)
                    /\ store[<<"deployment", c>>] \in Maybe(ChildTypes)
                    /\ store[<<"service", c>>] \in Maybe(ChildTypes)
  /\ \A p \in ProxyNames : store[Proxy(p)] \in Maybe(ProxyTypes)
  /\ events \subseteq CRs /\ delayed \subseteq CRs
  /\ wq.dirty \subseteq CRs /\ wq.processing \subseteq CRs
  /\ \A w \in Workers :
       /\ pc[w] \in Labels
       /\ key[w] \in IF pc[w] = "idle" THEN {Nil} ELSE CRs
       /\ u[w] \in Maybe(CRTypes) /\ obj[w] \in Maybe(ProxyTypes)
       /\ seen[w] \subseteq Ids
  /\ made \in [Workers -> BOOLEAN]

-----------------------------------------------------------------------------
\* The two workers of main.go:229 never reconcile the same CR at once, though
\* events and retries of a CR go on arriving while one of them has it.
OneWorkerPerKey ==
  \A v, w \in Workers : v # w /\ key[v] # Nil => key[v] # key[w]

\* Nothing is on its way to a worker: what holds now is final until somebody
\* outside the operator acts again.
Quiet ==
  /\ events = {} /\ delayed = {} /\ wq.queue = <<>>
  /\ \A w \in Workers : pc[w] = "idle"

Lives(c) == store[CR(c)] # Nil /\ ~store[CR(c)].deleting
Wanted(c) == store[CR(c)].spec
Valid(c) == Lives(c) /\ Wanted(c).mult > 0
Self(c) == <<c, store[CR(c)].uid>>
ProxyFor(c) == store[Proxy(proxyName(c, Wanted(c)))]
RouteFor(c) == [prefix |-> Wanted(c).ruta, service |-> c]

\* When the operator rests, every valid CR has its Deployment with the
\* multiplicador of its present spec, and its Service, both owned by it: no
\* order of edits, conflicts, restarts and collections leaves them stale.
Deployed ==
  Quiet => \A c \in CRs : Valid(c) =>
    /\ store[<<"deployment", c>>] =
         [owners |-> {Self(c)}, config |-> Wanted(c).mult]
    /\ store[<<"service", c>>] = [owners |-> {Self(c)}, config |-> 8080]

\* When the operator rests, a valid CR with a ruta is served: its proxy has
\* its route, counts it among its owners and answers for its host.
Routed ==
  Quiet => \A c \in CRs : Valid(c) /\ Wanted(c).ruta # Nil =>
    /\ ProxyFor(c) # Nil
    /\ Self(c) \in ProxyFor(c).owners
    /\ RouteFor(c) \in ProxyFor(c).routes
    /\ Wanted(c).host # Nil => ProxyFor(c).vhost = Wanted(c).host

\* When the operator rests, the status of a CR tells its multiplicador
\* (main.go:292-316 and 433-445).
StatusTold ==
  Quiet => \A c \in CRs : Lives(c) => store[CR(c)].status = Wanted(c).mult

\* When the operator rests and the garbage is collected, every route of a
\* proxy is one that a CR asks for at present.
NoOrphanRoute ==
  Quiet => \A p \in ProxyNames : store[Proxy(p)] # Nil =>
    \/ ~ store[Proxy(p)].owners \subseteq Live
    \/ \A r \in store[Proxy(p)].routes :
         /\ store[CR(r.service)] # Nil
         /\ proxyName(r.service, Wanted(r.service)) = p
         /\ r.prefix = Wanted(r.service).ruta

\* A route that a CR asks for before and after a step, in a proxy it co-owns,
\* survives the step: no worker's write to a shared proxy undoes another's.
Asks(c, p) ==
  Valid(c) /\ Wanted(c).ruta # Nil /\ proxyName(c, Wanted(c)) = p
Serves(c, p) ==
  /\ store[Proxy(p)] # Nil
  /\ Self(c) \in store[Proxy(p)].owners
  /\ RouteFor(c) \in store[Proxy(p)].routes
RoutesKept ==
  [][\A c \in CRs, p \in ProxyNames :
       Asks(c, p) /\ Asks(c, p)' /\ Wanted(c) = Wanted(c)' /\ Serves(c, p)
         => Serves(c, p)']_vars

\* Only a user changes the spec of a CR: the operator, which sends the whole
\* CR back to record its annotations, never undoes a user's edit.
NoLostEdit ==
  [][\A c \in CRs :
       store[CR(c)] # Nil /\ store'[CR(c)] # Nil
         /\ store'[CR(c)].spec # store[CR(c)].spec => edits' > edits]_vars

-----------------------------------------------------------------------------
\* The operator comes to rest: the events its own writes cause do not keep it
\* busy for ever, nor do the conflicts between its workers.
Settles == <>[]Quiet

\* A CR that is being deleted goes away: the operator lifts its finalizer.
Leaves(c) == store[CR(c)] # Nil => ~store[CR(c)].deleting
DeletionCompletes == \A c \in CRs : []<>Leaves(c)
=============================================================================
