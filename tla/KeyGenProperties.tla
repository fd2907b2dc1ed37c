-------------------------- MODULE KeyGenProperties --------------------------
(***************************************************************************)
(* What the workload and the Job that empties a queue should guarantee.    *)
(***************************************************************************)
EXTENDS KeyGen

\* A process has at most one worker that nobody has cancelled, and
\* cancelFunc cancels it (keygen.go:60).
OneLiveWorker ==
  \A w \in Ids : Active(w) /\ ~workers[w].cancelled /\ workers[w].state # "orphan"
                   => cancel[workers[w].pod] = w

\* When no PUT is under way, the worker runs the configuration that the page
\* shows, even if PUTs have mixed theirs into it (config.go:54).
RunsTheConfig ==
  \A p \in Pods :
    phase[p] = "running" /\ (\A h \in Handlers : put[h] # None => put[h].at = "gone") =>
      IF config[p].enable
      THEN cancel[p] \in Ids /\ workers[cancel[p]].c = config[p] /\ ~workers[cancel[p]].cancelled
      ELSE cancel[p] = 0

\* A cancelled worker ends what it was at and no more: one key.
StopsSoon == \A w \in Ids : workers[w].late <= 1

\* The items that are neither in the queue nor with a worker nor done.
Lost ==
  {k \in 1 .. produced :
     /\ done[k] = 0
     /\ queue # None => \A j \in 1 .. Len(queue) : queue[j] # k
     /\ \A w \in Ids : workers[w].item # k}

\* An item is done at most once, and a crash or a lost request of the Job
\* loses at most one item (memq/server/api.go:96).
Accounted ==
  /\ \A k \in 1 .. Items : done[k] <= 1
  /\ story # "form" => Cardinality(Lost) <= faults

\* When a Pod of a Job whose queue was loaded before is complete, the queue
\* is empty: an error is not taken for the end (keygen/memq.go:35).
NothingLeft ==
  story = "job" /\ (\E p \in Pods : phase[p] = "exited") => queue = <<>>

\* The Job completes, whatever was lost on the way.
JobCompletes == (story # "form") => <>(\A p \in Pods : phase[p] = "exited")
=============================================================================
