----------------------------- MODULE WebClient -----------------------------
(***************************************************************************)
(* The web client of kuard (client/src): one page at a time of those the   *)
(* router knows, which polls the server and shows what it answers, in a    *)
(* browser whose requests are served, lost and answered in any order.      *)
(* The component of a page that is left is unmounted: React ignores what   *)
(* it would still show, but its promises go on and report their errors.    *)
(* A fetch waits for one of the browser's connections.                     *)
(***************************************************************************)
EXTENDS KuardPages, Disconnected

CONSTANTS
  Conns,     \* the connections of the browser, numbers
  Tours,     \* the sets of pages that a user may visit
  Counts,    \* what the links of a probe page set failNext to
  Configs,   \* what the form of the workload may be filled with
  Names,     \* what may be asked of the DNS
  None,
  MaxEvents, MaxFaults, MaxVisits   \* bounds on what others do

Pages == ProbePages \cup {"request", "env", "mem", "dns", "keygen", "memq"}

ASSUME ClientAssumption ==
  /\ Conns \subseteq Nat /\ Counts \subseteq Int
  /\ Tours \subseteq SUBSET Pages

VARIABLES
  tour,     \* the pages of this user
  path,     \* the page shown
  view,     \* the state of its component
  timers,   \* the intervals that call loadState: [page, mounted]
  net,      \* what each connection carries: [page, op, arg, mounted, stage, body]
  server,   \* the state of kuard
  since,    \* not in the code: what the page should have shown since it was opened
  typed,    \* not in the code: what the form must show, or None
  events, faults, visits   \* how many so far

pageVars == <<tour, path, view, timers, typed>>
serverVars == <<server, since>>
bounds == <<events, faults, visits>>
vars == <<pageVars, net, serverVars, bounds, bannerVars>>

Polled == ProbePages \cup {"mem", "keygen", "memq"}
Loads(page) == page \notin {"dns", "request"}

\* The state that each constructor sets.
BlankProbe == [failNext |-> 0, history |-> <<>>]
BlankKeyGen == [config |-> Off, history |-> <<>>]
BlankMemQ == [stats |-> <<>>]
BlankMem == [memStats |-> 0]
BlankEnv == [commandLine |-> ""]
BlankDns == [query |-> None, response |-> None]

Blank(page) ==
  CASE page \in ProbePages -> BlankProbe
    [] page = "keygen" -> BlankKeyGen
    [] page = "memq" -> BlankMemQ
    [] page = "mem" -> BlankMem
    [] page = "env" -> BlankEnv
    [] page = "dns" -> BlankDns
    [] page = "request" -> [page |-> "pageContext"]

-----------------------------------------------------------------------------
\* What render shows of the state of each polled page, and what it would show
\* of the server as it is.
ShownProbe(v) ==
  LET probeDesc == CASE v.failNext = 0 -> "permanently succeed"
                     [] v.failNext > 0 -> "fail for next calls"
                     [] v.failNext < 0 -> "permanently fail"
  IN  <<probeDesc, v.history>>
ShownKeyGen(v) == Reverse(v.history)
ShownMemQ(v) == v.stats
ShownMem(v) == v.memStats

Shows(page, v) ==
  CASE page \in ProbePages -> ShownProbe(v)
    [] page = "keygen" -> ShownKeyGen(v)
    [] page = "memq" -> ShownMemQ(v)
    [] page = "mem" -> ShownMem(v)

Behaves(p) ==
  IF status(p) = 200 THEN "permanently succeed"
  ELSE IF p.asked > 0 THEN "fail for next calls" ELSE "permanently fail"

Alphabetic(S) == SetToSortSeq(S, LAMBDA a, b : a.name < b.name)

Truth(s, page) ==
  CASE page \in ProbePages -> <<Behaves(s.probes[page]), Reverse(s.probes[page].history)>>
    [] page = "keygen" -> Reverse(s.history)
    [] page = "memq" -> Alphabetic({[name |-> q, depth |-> s.enqueued[q]] :
                                      q \in DOMAIN s.enqueued})
    [] page = "mem" -> s.leaks

\* The ghosts follow the server and the page.
Watch ==
  since' = IF path' \notin Polled THEN {}
           ELSE (IF path' = path THEN since ELSE {}) \cup {Truth(server', path')}

-----------------------------------------------------------------------------
Get(page, op) == [page |-> page, op |-> op, arg |-> None]
FirstLoad(page) == Get(page, IF page = "keygen" THEN "initial" ELSE "load")
Sent(r, mounted) ==
  [page |-> r.page, op |-> r.op, arg |-> r.arg, mounted |-> mounted,
   stage |-> "sent", body |-> None]

Free(k) == net[k] = None /\ \A j \in Conns : j < k => net[j] # None

fetch(r) ==
  /\ \E k \in Conns : Free(k) /\ net' = [net EXCEPT ![k] = Sent(r, TRUE)]
  /\ UNCHANGED <<faults, visits, bannerVars>>

\* The requests that change the form of the workload when they are answered.
\* The mutant forgets that a page's regular load does not.
Anything(r) == TRUE
Initial(r) == r.op # "load"

FormPending ==
  \E k \in Conns : net[k] # None /\ net[k].mounted /\ net[k].page = "keygen" /\ Initial(net[k])

\* The user goes to another page: the component of the page that is left
\* clears its interval, and that of the next one loads and starts its own.
\* The mutants forget to clear it, and keep the component of one probe page
\* for the other.
LeftRunning == {[t EXCEPT !.mounted = FALSE] : t \in timers}
Unmounted == {t \in timers : ~t.mounted}

Shared(m) ==
  IF m # None /\ m.page \notin ProbePages THEN [m EXCEPT !.mounted = FALSE] ELSE m
Orphan(m) == IF m = None THEN None ELSE [m EXCEPT !.mounted = FALSE]

Mount(page, before) ==
  /\ path' = page
  /\ view' = Blank(page)
  /\ typed' = None
  /\ timers' = before \cup (IF page \in Polled THEN {[page |-> page, mounted |-> TRUE]} ELSE {})

handleNavigation(page) ==
  /\ page \in tour \ {path} /\ visits < MaxVisits
  /\ Mount(page, Unmounted)
  /\ LET left == [k \in Conns |-> Orphan(net[k])]
     IN  IF Loads(page)
         THEN \E k \in Conns : Free(k) /\ net' = [left EXCEPT ![k] = Sent(FirstLoad(page), TRUE)]
         ELSE net' = left
  /\ visits' = visits + 1
  /\ UNCHANGED <<tour, server, events, faults, bannerVars>>
  /\ Watch

Init ==
  /\ tour \in Tours
  /\ path \in tour
  /\ view = Blank(path)
  /\ timers = IF path \in Polled THEN {[page |-> path, mounted |-> TRUE]} ELSE {}
  /\ net = [k \in Conns |->
              IF Loads(path) /\ \A j \in Conns : k <= j THEN Sent(FirstLoad(path), TRUE)
              ELSE None]
  /\ server = NewApp
  /\ since = IF path \in Polled THEN {Truth(NewApp, path)} ELSE {}
  /\ typed = None
  /\ events = 0 /\ faults = 0 /\ visits = 0
  /\ BannerInit

\* An interval is due; the next second may come at any moment.
loadState ==
  /\ \E t \in timers, k \in Conns :
       Free(k) /\ net' = [net EXCEPT ![k] = Sent(Get(t.page, "load"), t.mounted)]
  /\ UNCHANGED <<pageVars, serverVars, bounds, bannerVars>>

-----------------------------------------------------------------------------
\* The user's clicks and edits.
Click(page, r) ==
  /\ path = page /\ events < MaxEvents
  /\ events' = events + 1
  /\ fetch(r)
  /\ UNCHANGED <<tour, path, timers, serverVars>>

configure ==
  /\ \E n \in Counts, p \in ProbePages : Click(p, [page |-> p, op |-> "put", arg |-> n])
  /\ UNCHANGED <<view, typed>>

AllocOrClear ==
  /\ \E op \in {"alloc", "clear"} : Click("mem", [page |-> "mem", op |-> op, arg |-> None])
  /\ UNCHANGED <<view, typed>>

KeyGenSubmit ==
  /\ Click("keygen", [page |-> "keygen", op |-> "put", arg |-> view.config])
  /\ typed' = None
  /\ UNCHANGED view

\* What is typed while an answer that fills the form is awaited may be lost.
KeyGenChange ==
  /\ path = "keygen" /\ events < MaxEvents
  /\ \E c \in Configs \ {view.config} :
       /\ view' = [view EXCEPT !.config = c]
       /\ typed' = IF FormPending THEN None ELSE c
  /\ events' = events + 1
  /\ UNCHANGED <<tour, path, timers, net, serverVars, faults, visits, bannerVars>>

DnsSubmit ==
  /\ \E q \in Names :
       /\ Click("dns", [page |-> "dns", op |-> "query", arg |-> q])
       /\ view' = [view EXCEPT !.query = q]
  /\ UNCHANGED typed

-----------------------------------------------------------------------------
\* The handlers.  A PUT writes and then reads for its answer; an allocation
\* appends to a list that another handler may write in between.
Writes(m) == m.op \in {"put", "alloc", "clear"}

Begin(k) ==
  /\ net[k] # None /\ net[k].stage = "sent" /\ net[k].op = "alloc"
  /\ net' = [net EXCEPT ![k].stage = "begun", ![k].body = server.leaks]
  /\ UNCHANGED <<pageVars, serverVars, bounds, bannerVars>>

Write(k) ==
  /\ net[k] # None /\ Writes(net[k])
  /\ net[k].stage = IF net[k].op = "alloc" THEN "begun" ELSE "sent"
  /\ server' = CASE net[k].op = "put" -> LoadConfig(server, net[k].page, net[k].arg)
                 [] net[k].op = "alloc" -> APIAlloc(server, net[k].body)
                 [] net[k].op = "clear" -> APIClear(server)
  /\ net' = [net EXCEPT ![k].stage = "written"]
  /\ UNCHANGED <<pageVars, bounds, bannerVars>>
  /\ Watch

Answers(m) ==
  CASE m.op \in {"alloc", "clear"} -> {None}
    [] m.op = "query" -> {[result |-> m.arg]}
    [] m.op \in {"load", "initial", "put"} -> ServeJSON(server, m.page)

Answer(k) ==
  /\ net[k] # None
  /\ net[k].stage = IF Writes(net[k]) THEN "written" ELSE "sent"
  /\ \E body \in Answers(net[k]) :
       net' = [net EXCEPT ![k].stage = "answered", ![k].body = body]
  /\ UNCHANGED <<pageVars, serverVars, bounds, bannerVars>>

\* The connection breaks, whatever was done by then.
Lose(k) ==
  /\ net[k] # None /\ net[k].stage # "failed" /\ faults < MaxFaults
  /\ net' = [net EXCEPT ![k].stage = "failed"]
  /\ faults' = faults + 1
  /\ UNCHANGED <<pageVars, serverVars, events, visits, bannerVars>>

\* The container is restarted.
Restart ==
  /\ faults < MaxFaults
  /\ server' = NewApp
  /\ net' = [k \in Conns |->
               IF net[k] # None /\ net[k].stage \in {"sent", "begun", "written"}
               THEN [net[k] EXCEPT !.stage = "failed"] ELSE net[k]]
  /\ faults' = faults + 1
  /\ UNCHANGED <<pageVars, events, visits, bannerVars>>
  /\ Watch

\* Others use the server.
Meanwhile ==
  /\ events < MaxEvents
  /\ \/ \E p \in ProbePages \cap tour : server' = Probed(server, p)
     \/ /\ "keygen" \in tour /\ (server.config # Off \/ server.nextHistoryID > 0)
        /\ server' = WorkloadOutput(server)
     \/ /\ "memq" \in tour
        /\ \E q \in Queues : server' = Enqueued(server, q)
  /\ events' = events + 1
  /\ UNCHANGED <<pageVars, net, faults, visits, bannerVars>>
  /\ Watch

-----------------------------------------------------------------------------
\* The callbacks of a promise.
\* No two queues have the same name.  The mutant sorts the other way round.
Descending(a, b) == a.name > b.name
byName(a, b) == a.name < b.name

ProbeLoaded(m) == m.body
KeyGenLoaded(m) ==
  IF Initial(m) THEN m.body ELSE [view EXCEPT !.history = m.body.history]
MemQLoaded(m) == [stats |-> SetToSortSeq(Range(m.body), byName)]
MemLoaded(m) == IF m.op = "load" THEN m.body ELSE view
EnvLoaded(m) == m.body
DnsAnswered(m) == [view EXCEPT !.response = m.body]

Loaded(m) ==
  CASE m.page \in ProbePages -> ProbeLoaded(m)
    [] m.page = "keygen" -> KeyGenLoaded(m)
    [] m.page = "memq" -> MemQLoaded(m)
    [] m.page = "mem" -> MemLoaded(m)
    [] m.page = "env" -> EnvLoaded(m)
    [] m.page = "dns" -> DnsAnswered(m)

Deliver(k) ==
  /\ net[k] # None /\ net[k].stage = "answered"
  /\ view' = IF net[k].mounted THEN Loaded(net[k]) ELSE view
  /\ net' = [net EXCEPT ![k] = None]
  /\ UNCHANGED <<tour, path, timers, typed, serverVars, bounds, bannerVars>>

\* The loads of these pages and the DNS query have no catch.
Caught(m) == ~(m.page \in {"env", "dns"} \/ (m.page = "mem" /\ m.op = "load"))

Reject(k) ==
  /\ net[k] # None /\ net[k].stage = "failed"
  /\ net' = [net EXCEPT ![k] = None]
  /\ IF Caught(net[k]) THEN reportConnError ELSE UNCHANGED bannerVars
  /\ UNCHANGED <<pageVars, serverVars, bounds>>

Second == Tick /\ UNCHANGED <<pageVars, net, serverVars, bounds>>

-----------------------------------------------------------------------------
User ==
  \/ \E page \in tour : handleNavigation(page)
  \/ configure \/ AllocOrClear \/ KeyGenSubmit \/ KeyGenChange \/ DnsSubmit

Settle(k) == Deliver(k) \/ Reject(k)

Next ==
  \/ User
  \/ loadState \/ Second
  \/ \E k \in Conns : Begin(k) \/ Write(k) \/ Answer(k) \/ Lose(k) \/ Settle(k)
  \/ Restart \/ Meanwhile

Spec == Init /\ [][Next]_vars

\* Intervals go on, requests reach the server and their promises settle.
Fairness ==
  /\ WF_vars(loadState) /\ WF_vars(Second)
  /\ \A k \in Conns : WF_vars(Begin(k) \/ Write(k) \/ Answer(k)) /\ WF_vars(Settle(k))

FairSpec == Spec /\ Fairness
=============================================================================
