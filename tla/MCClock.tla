------------------------------ MODULE MCClock ------------------------------
(* A clock with 4 ticks to the second and 2 to the tenth, 2 seconds to the   *)
(* minute, 2 minutes to the hour, 2 hours to the day and days that wrap at 2. *)
EXTENDS Clock

(* Not set, a time after 1970 and one that comes to 0 while the board runs. *)
MCTimes == {0, 5, -2}
=============================================================================
