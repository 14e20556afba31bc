--------------------------- MODULE DurationsProofs ---------------------------
(* Where the two readings of REFRESH_TOKEN_TTL agree, for every number.     *)
EXTENDS Durations, TLAPS

(* The row and the JWT of a refresh token have the same lifetime for a      *)
(* number and one of the letters s, m, h, d.  Of a number followed by       *)
(* anything else, or by nothing, only "0" and the other spellings of thirty *)
(* days are read alike: 30 days, 720 hours, 43200 minutes, 2592000 seconds, *)
(* 2592000000 ms.  No number of weeks or years is, nor anything the library *)
(* refuses (parseDurationToMs).                                             *)
THEOREM ReadingsAgree ==
    \A n \in Nat, unit \in Units :
        ParseDurationToMs(n, unit) = LibraryMs(n, unit) <=> ReadAlike(n, unit)
<1> SUFFICES ASSUME NEW n \in Nat, NEW unit \in Units
             PROVE  ParseDurationToMs(n, unit) = LibraryMs(n, unit) <=> ReadAlike(n, unit)
  OBVIOUS
<1>1. CASE unit \in Letters
  <2>1. ParseDurationToMs(n, unit) = n * UnitMs[unit]
    BY <1>1 DEF ParseDurationToMs, Letters
  <2>2. LibraryMs(n, unit) = n * UnitMs[unit]
    BY <1>1 DEF LibraryMs, Letters, Spellings
  <2> QED
    BY <1>1, <2>1, <2>2, SMT DEF ReadAlike
<1>2. CASE unit = "bare"
  <2>1. ParseDurationToMs(n, unit) = n * Second
    BY <1>2 DEF ParseDurationToMs, Letters
  <2>2. LibraryMs(n, unit) = n
    BY <1>2 DEF LibraryMs, Letters, Spellings
  <2>3. n * Second = n <=> n = 0
    BY DEF Second
  <2> QED
    BY <1>2, <2>1, <2>2, <2>3, SMT DEF ReadAlike, Letters
<1>3. CASE unit \in Spellings
  <2>1. ParseDurationToMs(n, unit) = 30 * Day
    BY <1>3 DEF ParseDurationToMs, Letters, Spellings
  <2>2. LibraryMs(n, unit) = n * SpellingMs[unit]
    BY <1>3 DEF LibraryMs, Letters, Spellings
  <2>3. CASE unit = "ms"
    BY <2>1, <2>2, <2>3, SMT DEF SpellingMs, ReadAlike, Letters, Day, Hour, Minute, Second
  <2>4. CASE unit = "seconds"
    BY <2>1, <2>2, <2>4, SMT DEF SpellingMs, ReadAlike, Letters, Day, Hour, Minute, Second
  <2>5. CASE unit = "minutes"
    BY <2>1, <2>2, <2>5, SMT DEF SpellingMs, ReadAlike, Letters, Day, Hour, Minute, Second
  <2>6. CASE unit = "hours"
    BY <2>1, <2>2, <2>6, SMT DEF SpellingMs, ReadAlike, Letters, Day, Hour, Minute, Second
  <2>7. CASE unit = "days"
    BY <2>1, <2>2, <2>7, SMT DEF SpellingMs, ReadAlike, Letters, Day, Hour, Minute, Second
  <2>8. CASE unit = "weeks"
    <3>1. LibraryMs(n, unit) = n * (7 * Day) /\ ~ReadAlike(n, unit)
      BY <2>2, <2>8, SMT DEF SpellingMs, ReadAlike, Letters
    <3> QED
      BY <2>1, <3>1, SMT DEF Day, Hour, Minute, Second
  <2>9. CASE unit = "years"
    <3>1. LibraryMs(n, unit) = n * (365 * Day + 6 * Hour) /\ ~ReadAlike(n, unit)
      BY <2>2, <2>9, SMT DEF SpellingMs, ReadAlike, Letters
    <3> QED
      BY <2>1, <3>1, SMT DEF Day, Hour, Minute, Second
  <2> QED
    BY <1>3, <2>3, <2>4, <2>5, <2>6, <2>7, <2>8, <2>9 DEF Spellings
<1>4. CASE unit = "other"
  BY <1>4, SMT DEF ParseDurationToMs, LibraryMs, ReadAlike, Letters, Spellings, Day, Hour, Minute, Second
<1> QED
  BY <1>1, <1>2, <1>3, <1>4 DEF Units
=============================================================================
