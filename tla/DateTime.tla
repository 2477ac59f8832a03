------------------------------ MODULE DateTime ------------------------------
(***************************************************************************)
(* The class DateTime: a second of the clock, and the two forms in which   *)
(* it is written.  A point in time is a number of seconds, the resolution  *)
(* of time_t; its two parts are the day and the second of the day.         *)
(***************************************************************************)
EXTENDS Naturals

CONSTANT SecondsPerDay
ASSUME SecondsPerDayAssumption == SecondsPerDay \in Nat \ {0}

(* std::gmtime: the fields of a time. *)
Day(date)       == date \div SecondsPerDay
TimeOfDay(date) == date % SecondsPerDay

(* DateTime::parseDateTime ignores its argument and reads the clock. *)
ParseDateTime(header, now) == now
=============================================================================
