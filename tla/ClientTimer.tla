---------------------------- MODULE ClientTimer -----------------------------
(***************************************************************************)
(* How long the main thread of client.cpp sleeps before it tells the       *)
(* others to stop.  The argument is in seconds, usleep() takes             *)
(* microseconds, and an int has 32 bits.                                   *)
(***************************************************************************)
EXTENDS Naturals

CONSTANTS
  Durations,  \* values of the argument duration_seconds
  LastSecond  \* bound: when time ends

VARIABLES
  duration_seconds,
  now,          \* whole seconds since the start of the program
  should_stop

vars == <<duration_seconds, now, should_stop>>

Init ==
  /\ duration_seconds \in Durations
  /\ now = 0
  /\ should_stop = FALSE

(* usleep(duration_seconds * 1000000): an int product that overflows wraps *)
(* in the code that compilers make of it, and is then taken as unsigned.   *)
(* In units of 64 microseconds, a second is 15625 units and 2^32           *)
(* microseconds are 2^26 units.                                            *)
Second == 15625
Wrap == 67108864

SleepUnits(duration) == (duration * Second) % Wrap

Awake == now * Second >= SleepUnits(duration_seconds)

(* A second passes while the main thread sleeps, or after it woke up. *)
Tick ==
  /\ now < LastSecond
  /\ should_stop \/ ~ Awake
  /\ now' = now + 1
  /\ UNCHANGED <<duration_seconds, should_stop>>

(* args.should_stop = true *)
Wake ==
  /\ ~ should_stop /\ Awake
  /\ should_stop' = TRUE
  /\ UNCHANGED <<duration_seconds, now>>

Next == Tick \/ Wake

Spec == Init /\ [][Next]_vars

(* "This shutdown procedure is done 'seconds_duration' seconds after the   *)
(* start of the program" (client.cpp:12-14), not before and not later.     *)
StopsOnTime ==
  /\ should_stop => now >= duration_seconds
  /\ ~ should_stop => now <= duration_seconds
=============================================================================
