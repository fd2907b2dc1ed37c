---------------------------- MODULE MCMemQBroker ----------------------------
(* Instances of MemQBroker for TLC.                                        *)
EXTENDS MemQBrokerProperties, TLC

\* Handlers, queue objects and uuids are interchangeable: nothing compares
\* or orders them.
Symmetry ==
  Permutations(Handlers) \cup Permutations(Queues) \cup Permutations(Messages)
=============================================================================
