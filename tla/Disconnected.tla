---------------------------- MODULE Disconnected ----------------------------
(***************************************************************************)
(* disconnected.jsx: the banner "Connection lost to server", with its      *)
(* intervals of setInterval.  Time passes in seconds.                      *)
(***************************************************************************)
EXTENDS Integers

VARIABLES
  isDisconnected,  \* the state of the component
  intervals,       \* the intervals that run: for each, the seconds to its next call
  timer,           \* this.timer: the one of them it can clear, or NoTimer
  quiet            \* not in the code: seconds since the last report, up to 2

bannerVars == <<isDisconnected, intervals, timer, quiet>>

NoTimer == 0

BannerInit ==
  /\ isDisconnected = FALSE
  /\ intervals = {} /\ timer = NoTimer
  /\ quiet = 2

\* The mutant starts an interval without clearing the one before.
AllKept == intervals
Cleared == intervals \ {timer}

reportConnError ==
  /\ isDisconnected' = TRUE
  /\ intervals' = Cleared \cup {2}
  /\ timer' = 2
  /\ quiet' = 0

\* A second passes, and clearConnError runs for an interval that is due.
Tick ==
  LET due == 1 \in intervals
      left == {s - 1 : s \in intervals \ {1}}
  IN  /\ intervals # {}
      /\ isDisconnected' = (isDisconnected /\ ~due)
      /\ intervals' = IF due THEN (left \ {timer - 1}) \cup (IF timer = 1 THEN {} ELSE {2})
                      ELSE left
      /\ timer' = IF due \/ timer = NoTimer THEN NoTimer ELSE timer - 1
      /\ quiet' = IF quiet < 2 THEN quiet + 1 ELSE quiet

\* render.
Visible == isDisconnected

\* The banner is shown for two seconds after the last error reported, and
\* then no longer.
BannerRight == Visible <=> quiet < 2
=============================================================================
