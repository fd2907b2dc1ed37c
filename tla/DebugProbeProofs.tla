-------------------------- MODULE DebugProbeProofs --------------------------
(***************************************************************************)
(* What the handlers of a probe keep, whatever the order they run in and   *)
(* the numbers they are told.                                              *)
(***************************************************************************)
EXTENDS DebugProbe, TLAPS

Entries == [id : Int, code : {200, 500}]
Probes ==
  [failNext : Int, history : Seq(Entries), lastID : Nat,
   asked : Int, failed : Nat, passed : Nat]

ProbeRight(p) == p \in Probes /\ FailsAsAsked(p) /\ HistoryComplete(p)

\* A probe starts right (probe.go:34).
LEMMA NewRight == ProbeRight(New)
  BY HistoryAssumption DEF ProbeRight, Probes, New, FailsAsAsked, HistoryComplete

\* Telling it something keeps it right (config.go:15).
LEMMA SetConfigRight ==
  ASSUME NEW p, ProbeRight(p), NEW n \in Int
  PROVE  ProbeRight(SetConfig(p, n))
<1>1. /\ SetConfig(p, n) \in Probes
      /\ SetConfig(p, n).failNext = n /\ SetConfig(p, n).asked = n
      /\ SetConfig(p, n).failed = 0 /\ SetConfig(p, n).passed = 0
      /\ SetConfig(p, n).history = p.history /\ SetConfig(p, n).lastID = p.lastID
  BY DEF ProbeRight, Probes, SetConfig
<1> QED
  BY <1>1 DEF ProbeRight, FailsAsAsked, HistoryComplete

\* A probe with another history and another last ID is still a probe.
With(p, i, t) == [p EXCEPT !.lastID = i, !.history = t]

\* Its other fields are as before.
LEMMA WithHistory ==
  ASSUME NEW p \in Probes, NEW i \in Nat, NEW t \in Seq(Entries)
  PROVE  /\ With(p, i, t) \in Probes
         /\ With(p, i, t).lastID = i /\ With(p, i, t).history = t
         /\ With(p, i, t).failNext = p.failNext /\ With(p, i, t).asked = p.asked
         /\ With(p, i, t).failed = p.failed /\ With(p, i, t).passed = p.passed
  BY DEF Probes, With

\* The history after one more entry is the last ones again.
LEMMA TrimmedComplete ==
  ASSUME NEW p \in Probes, HistoryComplete(p), NEW code \in {200, 500}
  PROVE  /\ recordRequest(p, code) \in Probes
         /\ HistoryComplete(recordRequest(p, code))
         /\ recordRequest(p, code).failNext = p.failNext
         /\ recordRequest(p, code).asked = p.asked
         /\ recordRequest(p, code).failed = p.failed
         /\ recordRequest(p, code).passed = p.passed
<1> DEFINE r == recordRequest(p, code)
           e == [id |-> p.lastID + 1, code |-> code]
           h == Append(p.history, e)
           t == Trimmed(h)
<1>1. /\ p.history \in Seq(Entries) /\ p.lastID \in Nat
      /\ e \in Entries /\ e.id = p.lastID + 1
      /\ maxHistory \in Nat \ {0}
  BY HistoryAssumption DEF Probes, Entries
<1> HIDE DEF e, r
<1>2. /\ h \in Seq(Entries) /\ Len(h) = Len(p.history) + 1 /\ Len(h) \in Nat
      /\ \A k \in 1 .. Len(h) : h[k].id = p.lastID + 1 - Len(h) + k
  <2>1. h \in Seq(Entries) /\ Len(h) = Len(p.history) + 1 /\ Len(p.history) \in Nat
    BY <1>1
  <2>2. ASSUME NEW k \in 1 .. Len(h)
        PROVE  h[k].id = p.lastID + 1 - Len(h) + k
    <3>1. CASE k = Len(p.history) + 1
      BY <1>1, <2>1, <3>1
    <3>2. CASE k \in 1 .. Len(p.history)
      <4>1. h[k] = p.history[k]
        BY <1>1, <3>2
      <4>2. p.history[k].id = p.lastID - Len(p.history) + k
        BY <3>2 DEF HistoryComplete
      <4> QED
        BY <1>1, <2>1, <4>1, <4>2
    <3> QED
      BY <2>1, <3>1, <3>2
  <2> QED
    BY <2>1, <2>2
<1>3. /\ Len(h) <= maxHistory + 1
      /\ Len(h) = IF p.lastID < maxHistory THEN p.lastID + 1 ELSE maxHistory + 1
  BY <1>1, <1>2 DEF HistoryComplete
<1> HIDE DEF h
<1>4. /\ t \in Seq(Entries)
      /\ Len(t) = IF p.lastID + 1 < maxHistory THEN p.lastID + 1 ELSE maxHistory
      /\ \A k \in 1 .. Len(t) : t[k].id = p.lastID + 1 - Len(t) + k
  <2>1. CASE Len(h) <= maxHistory
    <3>1. ~(Len(h) > maxHistory)
      BY <1>1, <1>2, <2>1
    <3>2. t = h /\ Len(h) \in Nat
      BY <1>2, <3>1 DEF Trimmed
    <3>3. Len(h) = IF p.lastID + 1 < maxHistory THEN p.lastID + 1 ELSE maxHistory
      BY <1>1, <1>3, <2>1
    <3> HIDE DEF t
    <3> QED
      BY <1>2, <3>2, <3>3
  <2>2. CASE Len(h) > maxHistory
    <3>1. Len(h) = maxHistory + 1 /\ t = SubSeq(h, 2, Len(h))
      BY <1>1, <1>2, <1>3, <2>2 DEF Trimmed
    <3>2. /\ t \in Seq(Entries) /\ Len(t) = maxHistory
          /\ \A k \in 1 .. maxHistory : t[k] = h[k + 1]
      BY <1>1, <1>2, <3>1
    <3>3. \A k \in 1 .. maxHistory : k + 1 \in 1 .. Len(h)
      BY <1>1, <3>1
    <3> HIDE DEF t
    <3>4. ASSUME NEW k \in 1 .. Len(t)
          PROVE  t[k].id = p.lastID + 1 - Len(t) + k
      <4>1. h[k + 1].id = p.lastID + 1 - Len(h) + (k + 1)
        BY <1>2, <3>2, <3>3
      <4>2. t[k] = h[k + 1]
        BY <3>2
      <4>3. /\ k \in Nat /\ p.lastID \in Nat /\ maxHistory \in Nat
            /\ Len(t) = maxHistory /\ Len(h) = maxHistory + 1
        BY <1>1, <3>1, <3>2
      <4>4. p.lastID + 1 - Len(h) + (k + 1) = p.lastID + 1 - Len(t) + k
        BY <4>3
      <4> QED
        BY <4>1, <4>2, <4>4
    <3> QED
      BY <1>1, <1>3, <3>1, <3>2, <3>4
  <2> QED
    BY <1>1, <1>2, <2>1, <2>2
<1> HIDE DEF t
<1>5. /\ r \in Probes /\ r.lastID = p.lastID + 1 /\ r.history = t
      /\ r.failNext = p.failNext /\ r.asked = p.asked
      /\ r.failed = p.failed /\ r.passed = p.passed
  <2>1. r = With(p, p.lastID + 1, t)
    BY DEF recordRequest, t, h, e, r, With
  <2>2. p.lastID + 1 \in Nat /\ t \in Seq(Entries)
    BY <1>1, <1>4
  <2> QED
    BY <2>1, <2>2, WithHistory
<1>6. HistoryComplete(r)
  <2> HIDE DEF r
  <2>1. /\ r.history = t /\ r.lastID = p.lastID + 1
        /\ p.lastID \in Nat /\ maxHistory \in Nat
    BY <1>1, <1>5
  <2>2. Len(t) = IF r.lastID < maxHistory THEN r.lastID ELSE maxHistory
    BY <1>4, <2>1
  <2>3. \A k \in 1 .. Len(t) : t[k].id = r.lastID - Len(t) + k
    BY <1>4, <2>1
  <2> QED
    BY <2>1, <2>2, <2>3 DEF HistoryComplete
<1> QED
  BY <1>5, <1>6 DEF r

\* A call of the probe keeps it right (probe.go:87).
LEMMA HandleRight ==
  ASSUME NEW p, ProbeRight(p)
  PROVE  ProbeRight(Handle(p))
<1> DEFINE ok == status(p) = 200
           failed == IF ok THEN p.failed ELSE p.failed + 1
           passed == IF ok THEN p.passed + 1 ELSE p.passed
           left == Countdown(p)
           q == [p EXCEPT !.failNext = left, !.failed = failed, !.passed = passed]
<1>1. /\ p \in Probes /\ status(p) \in {200, 500} /\ (ok <=> p.failNext = 0)
      /\ failed \in Nat /\ passed \in Nat /\ left \in Int
  BY DEF ProbeRight, Probes, status, Countdown
<1>2. /\ q \in Probes
      /\ q.failNext = left /\ q.asked = p.asked
      /\ q.failed = failed /\ q.passed = passed
      /\ q.history = p.history /\ q.lastID = p.lastID
  <2> HIDE DEF ok, failed, passed, left
  <2> QED
    BY <1>1 DEF Probes
<1> HIDE DEF q, ok, failed, passed, left
<1>3. HistoryComplete(q)
  BY <1>2 DEF ProbeRight, HistoryComplete
<1>4. FailsAsAsked(q)
  <2> USE <1>1, <1>2 DEF failed, passed, left, Countdown
  <2>1. CASE p.failNext = 0
    BY <2>1 DEF ProbeRight, FailsAsAsked, Probes
  <2>2. CASE p.failNext > 0
    <3>1. /\ q.failNext = p.failNext - 1 /\ q.failed = p.failed + 1
          /\ q.passed = p.passed /\ q.asked = p.asked
      BY <2>2 DEF Probes
    <3>2. /\ p.failNext \in Int /\ p.asked \in Int
          /\ p.failed \in Nat /\ p.passed \in Nat
      BY DEF Probes
    <3>3. p.asked >= 0 /\ p.failed + p.failNext = p.asked /\ p.passed = 0
      BY <2>2, <3>2 DEF ProbeRight, FailsAsAsked
    <3> QED
      BY <2>2, <3>1, <3>2, <3>3 DEF FailsAsAsked
  <2>3. CASE p.failNext < 0
    BY <2>3 DEF ProbeRight, FailsAsAsked, Probes
  <2> QED
    BY <2>1, <2>2, <2>3 DEF Probes
<1>5. Handle(p) = recordRequest(q, status(p))
  BY DEF Handle, q, ok, failed, passed, left
<1> QED
  BY <1>1, <1>2, <1>3, <1>4, <1>5, TrimmedComplete DEF ProbeRight, FailsAsAsked
=============================================================================
