----------------------------- MODULE WorkQueue -----------------------------
(***************************************************************************)
(* The value of a client-go workqueue as the operator uses it: a key added *)
(* again before it is taken is queued once, and a key added while a worker *)
(* processes it is queued when that worker is done with it.                *)
(***************************************************************************)
EXTENDS Sequences

EmptyQueue == [queue |-> <<>>, dirty |-> {}, processing |-> {}]

\* The mutant forgets that a worker may be busy with the key.
AddAnyway(wq, key) ==
  IF key \in wq.dirty THEN wq
  ELSE [wq EXCEPT !.dirty = @ \cup {key}, !.queue = Append(@, key)]

Add(wq, key) ==
  CASE key \in wq.dirty -> wq
    [] key \in wq.processing -> [wq EXCEPT !.dirty = @ \cup {key}]
    [] OTHER -> [wq EXCEPT !.dirty = @ \cup {key}, !.queue = Append(@, key)]

Get(wq) ==
  [queue |-> Tail(wq.queue), dirty |-> wq.dirty \ {Head(wq.queue)},
   processing |-> wq.processing \cup {Head(wq.queue)}]

Done(wq, key) ==
  [wq EXCEPT !.processing = @ \ {key},
             !.queue = IF key \in wq.dirty THEN Append(@, key) ELSE @]
============================================================================
