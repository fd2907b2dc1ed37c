----------------------------- MODULE DebugProbe -----------------------------
(***************************************************************************)
(* The liveness and readiness endpoints of kuard: a probe fails as many    *)
(* times as it was last told, or for ever, and remembers its last calls.   *)
(* A probe is a record; every operator is one handler under its mutex.     *)
(* Histories keep the code's order, the newest last; lockedGet turns it.   *)
(***************************************************************************)
EXTENDS Integers, SequencesExt

CONSTANT maxHistory

ASSUME HistoryAssumption == maxHistory \in Nat \ {0}

\* asked, failed and passed are not in the code: what SetConfig last asked,
\* and what Handle has answered since.
New ==
  [failNext |-> 0, history |-> <<>>, lastID |-> 0,
   asked |-> 0, failed |-> 0, passed |-> 0]

SetConfig(p, n) ==
  [p EXCEPT !.failNext = n, !.asked = n, !.failed = 0, !.passed = 0]

\* The mutant counts 0 down as well, which means failing for ever.
CountdownPastZero(p) == IF p.failNext >= 0 THEN p.failNext - 1 ELSE p.failNext
Countdown(p) == IF p.failNext > 0 THEN p.failNext - 1 ELSE p.failNext

status(p) == IF p.failNext = 0 THEN 200 ELSE 500

\* The newest maxHistory entries of a history; the mutant keeps one more.
OneMore(h) ==
  IF Len(h) > maxHistory + 1 THEN SubSeq(h, Len(h) - maxHistory, Len(h)) ELSE h
Trimmed(h) ==
  IF Len(h) > maxHistory THEN SubSeq(h, Len(h) - maxHistory + 1, Len(h)) ELSE h

recordRequest(p, code) ==
  [p EXCEPT !.lastID = @ + 1,
            !.history = Trimmed(Append(@, [id |-> p.lastID + 1, code |-> code]))]

Handle(p) ==
  LET ok == status(p) = 200
  IN  recordRequest(
        [p EXCEPT !.failNext = Countdown(p),
                  !.failed = IF ok THEN @ ELSE @ + 1,
                  !.passed = IF ok THEN @ + 1 ELSE @],
        status(p))

lockedGet(p) == [failNext |-> p.failNext, history |-> Reverse(p.history)]

-----------------------------------------------------------------------------
\* A probe told to fail N times fails the next N times and no more; told to
\* fail for ever it never passes; told 0 it never fails.
FailsAsAsked(p) ==
  IF p.asked >= 0
  THEN /\ p.failed + p.failNext = p.asked
       /\ p.failNext >= 0
       /\ p.passed > 0 => p.failNext = 0
  ELSE p.failNext = p.asked /\ p.passed = 0

\* The history is the last calls, none missing, none twice.
HistoryComplete(p) ==
  /\ Len(p.history) = IF p.lastID < maxHistory THEN p.lastID ELSE maxHistory
  /\ \A k \in 1 .. Len(p.history) :
       p.history[k].id = p.lastID - Len(p.history) + k
=============================================================================
