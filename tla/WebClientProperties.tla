------------------------ MODULE WebClientProperties ------------------------
(***************************************************************************)
(* What the pages of kuard should show, and what its probes should do.     *)
(***************************************************************************)
EXTENDS WebClient

\* The variables have their types, and a connection whose request is settled
\* is free.
TypeOK ==
  /\ tour \in Tours /\ path \in tour
  /\ DOMAIN view = DOMAIN Blank(path)
  /\ timers \subseteq [page : Polled, mounted : BOOLEAN]
  /\ \A k \in Conns : net[k] # None =>
       /\ net[k].op \in {"load", "initial", "put", "alloc", "clear", "query"}
       /\ net[k].stage \in {"sent", "begun", "written", "answered", "failed"}
       /\ net[k].mounted => net[k].page = path
  /\ isDisconnected \in BOOLEAN /\ timer \in 0 .. 2
  /\ intervals \subseteq 1 .. 2

\* A page shows nothing yet, or what the server had for this very page at
\* some moment since it was opened: never what another page, or the visit
\* before, had asked for (router.jsx:13, probe.jsx:20).
FromThisVisit ==
  path \in Polled => Shows(path, view) \in since \cup {Shows(path, Blank(path))}

\* The banner is shown for two seconds after the last error and no longer,
\* however many errors come (disconnected.jsx:11).
BannerShown == BannerRight

\* The regular loads leave what the user types into the form of the workload
\* alone (keygen.jsx:72).
FormKept == typed # None => view.config = typed

\* Each probe fails as many times as it was last told (debugprobe/config.go:10).
ProbesAsAsked == \A p \in ProbePages : FailsAsAsked(server.probes[p])

\* Each probe's history is its last calls.
HistoriesComplete == \A p \in ProbePages : HistoryComplete(server.probes[p])

\* Once nothing changes any more, a page that polls shows the server as it is.
Converges == <>[](path \in Polled => Shows(path, view) = Truth(server, path))

\* A page that does not poll ends up asking nothing of the server: no other
\* page's interval is left running.
Quiet == <>[](path \notin Polled => \A k \in Conns : net[k] = None)
=============================================================================
