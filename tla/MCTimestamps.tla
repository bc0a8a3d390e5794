----------------------------- MODULE MCTimestamps -----------------------------
(***************************************************************************)
(* Timestamps for TLC: both sides of every limit, leap years and others.   *)
(***************************************************************************)
EXTENDS Timestamps

Years == {1900, 1979, 1980, 1981, 1999, 2000, 2001, 2002, 2096, 2098, 2099, 2100}
Months == 0..13
Days == {0, 1, 15, 28, 29, 30, 31, 32}
Hours == {-1, 0, 23, 24}
Minutes == {-1, 0, 59, 60}
Seconds == {-1, 0, 1, 58, 59, 60}
===============================================================================
