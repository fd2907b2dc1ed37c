------------------------------ MODULE RWMutex ------------------------------
(***************************************************************************)
(* The value of a Go sync.RWMutex, as kuard's broker uses it.  Lock() is   *)
(* two steps in Go: the writer announces itself, which holds back every    *)
(* later RLock(), and then waits for the readers already inside to leave.  *)
(* An RLock() by a goroutine that already holds the read lock therefore    *)
(* waits for a pending writer that waits for it.                           *)
(***************************************************************************)
CONSTANT Nobody    \* the writer of a mutex no one holds or waits to write

Mutex(Users) == [writer : Users \cup {Nobody}, readers : SUBSET Users]

Free == [writer |-> Nobody, readers |-> {}]

\* Both Lock() and RLock() wait for the writer to leave.
NoWriter(m) == m.writer = Nobody

\* A writer that has announced itself owns the mutex once the readers left.
Owns(m, u) == m.writer = u /\ m.readers = {}

RLock(m, u)   == [m EXCEPT !.readers = @ \cup {u}]
RUnlock(m, u) == [m EXCEPT !.readers = @ \ {u}]
Lock(m, u)    == [m EXCEPT !.writer = u]
Unlock(m)     == [m EXCEPT !.writer = Nobody]
============================================================================
