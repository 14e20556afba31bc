------------------------------ MODULE Durations ------------------------------
(***************************************************************************)
(* REFRESH_TOKEN_TTL is a string that two readers turn into milliseconds:  *)
(* AuthService.parseDurationToMs for the row of a refresh token, and the   *)
(* JWT library (its function ms) for the token itself.  A text is a whole  *)
(* number in digits and what follows it: one of the four letters           *)
(* parseDurationToMs knows, nothing ("bare"), or any other spelling of a   *)
(* unit the library knows.  "hours" stands for all of these of one unit:   *)
(* "hours", "hrs", "H", " h" and so on; "ms", "weeks" and "years" stand    *)
(* for "ms", "w" and "y" too.  "other" is what the library does not know.  *)
(***************************************************************************)
EXTENDS Integers

Letters == {"s", "m", "h", "d"}
Spellings == {"ms", "seconds", "minutes", "hours", "days", "weeks", "years"}
Units == Letters \cup Spellings \cup {"bare", "other"}

Second == 1000
Minute == 60 * Second
Hour == 60 * Minute
Day == 24 * Hour

UnitMs == [s |-> Second, m |-> Minute, h |-> Hour, d |-> Day]

(* parseDurationToMs: a number and one of the letters s, m, h, d; else a    *)
(* number of seconds; else thirty days.                                     *)
ParseDurationToMs(n, unit) ==
    CASE unit \in Letters -> n * UnitMs[unit]
      [] unit = "bare"    -> n * Second
      [] OTHER            -> 30 * Day

(* A year of the library is 365.25 days.                                    *)
SpellingMs ==
    [ms |-> 1, seconds |-> Second, minutes |-> Minute, hours |-> Hour, days |-> Day,
     weeks |-> 7 * Day, years |-> 365 * Day + 6 * Hour]

(* The library; -1 when it refuses to sign.                                 *)
LibraryMs(n, unit) ==
    CASE unit \in Letters   -> n * UnitMs[unit]
      [] unit = "bare"      -> n
      [] unit \in Spellings -> n * SpellingMs[unit]
      [] OTHER              -> -1

(* The texts both readers understand alike: those with a letter, "0", and,  *)
(* as parseDurationToMs falls back on thirty days, thirty days themselves   *)
(* in another spelling.                                                     *)
ReadAlike(n, unit) ==
    \/ unit \in Letters
    \/ unit = "bare"    /\ n = 0
    \/ unit = "ms"      /\ n = 30 * Day
    \/ unit = "seconds" /\ n = 2592000
    \/ unit = "minutes" /\ n = 43200
    \/ unit = "hours"   /\ n = 720
    \/ unit = "days"    /\ n = 30
=============================================================================
