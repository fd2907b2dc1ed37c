----------------------------- MODULE KuardPages -----------------------------
(***************************************************************************)
(* The part of kuard behind the pages of its web client: what the handlers *)
(* of each page read and write, as operators on the state of the server.   *)
(* The workload and the queues are here only what their pages show: their  *)
(* modules are KeyGen and MemQBroker.                                      *)
(***************************************************************************)
EXTENDS DebugProbe

CONSTANTS
  Queues,   \* names of queues, numbers: their order is that of the texts
  Off       \* the configuration of a workload that nobody has configured

ProbePages == {"liveness", "readiness"}

NewApp ==
  [probes |-> [p \in ProbePages |-> New],
   config |-> Off, history |-> <<>>, nextHistoryID |-> 0,
   enqueued |-> [q \in {} |-> 0],
   leaks |-> 0]

\* GET of each page.  The queues come in the order of a Go map: in any.
ServeJSON(server, page) ==
  CASE page \in ProbePages -> {lockedGet(server.probes[page])}
    [] page = "keygen" -> {[config |-> server.config, history |-> server.history]}
    [] page = "memq" -> SetToSeqs({[name |-> q, depth |-> server.enqueued[q]] :
                                     q \in DOMAIN server.enqueued})
    [] page = "mem" -> {[memStats |-> server.leaks]}
    [] page = "env" -> {[commandLine |-> "kuard"]}

\* PUT of a configuration, before the answer is read.
LoadConfig(server, page, c) ==
  IF page = "keygen" THEN [server EXCEPT !.config = c]
  ELSE [server EXCEPT !.probes[page] = SetConfig(@, c)]

\* POST to /mem/api/alloc, which has read m.leaks before without a lock, and
\* to /mem/api/clear.
APIAlloc(server, leaks) == [server EXCEPT !.leaks = leaks + 1]
APIClear(server) == [server EXCEPT !.leaks = 0]

\* What others do meanwhile: the kubelet probes, the workload tells that it
\* goes on, and producers create queues and enqueue.
Probed(server, page) == [server EXCEPT !.probes[page] = Handle(@)]

WorkloadOutput(server) ==
  [server EXCEPT !.nextHistoryID = @ + 1,
                 !.history = Trimmed(Append(@, server.nextHistoryID))]

Enqueued(server, q) ==
  [server EXCEPT !.enqueued =
     [x \in DOMAIN @ \cup {q} |->
        IF x \notin DOMAIN @ THEN 0 ELSE IF x = q THEN @[x] + 1 ELSE @[x]]]
=============================================================================
