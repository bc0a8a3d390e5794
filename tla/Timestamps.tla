------------------------------ MODULE Timestamps ------------------------------
(***************************************************************************)
(* Dates and times as GEMDOS packs them into two 16-bit words: Tsetdate,   *)
(* Tsettime and their getters for the clock (src/gemdos/gemdos_t.c),       *)
(* Fdatime for a file, and datime() of a Dta, which tells what Fdatime     *)
(* stored (src/gemdos/gemdos_f.c).  One call that sets, then the getters.  *)
(***************************************************************************)
EXTENDS Integers

CONSTANTS
  Year, Month, Day,        \* what a script may pass as a date
  Hour, Minute, Second     \* and as a time of day

VARIABLES
  date,        \* the packed date
  time,        \* the packed time
  asked        \* what the script passed to the call that sets them

clockVars == <<date, time, asked>>

Nothing == [fn |-> "none"]

Word == 65536

\* Ten o'clock on the 4th of July 1985.
ClockInit ==
  /\ date = 4 + 7 * 32 + 5 * 512
  /\ time = 10 * 2048
  /\ asked = Nothing
-------------------------------------------------------------------------------
(* Packing and unpacking.                                                  *)

\* The field of size values that begins at the bit worth low.
Bits(word, low, size) == (word \div low) % size

PackedDate(y, m, d) == (d + m * 32 + (y - 1980) * 512) % Word
PackedTime(h, m, s) == (s \div 2 + m * 32 + h * 2048) % Word

\* Faulty: the month has three bits.
TgetdateShortMonth ==
  [year |-> 1980 + Bits(date, 512, 128), month |-> Bits(date, 32, 8), day |-> Bits(date, 1, 32)]

\* What l_Tgetdate and l_Tgettime return.
Tgetdate ==
  [year |-> 1980 + Bits(date, 512, 128), month |-> Bits(date, 32, 16), day |-> Bits(date, 1, 32)]

Tgettime ==
  [hour |-> Bits(time, 2048, 32), minute |-> Bits(time, 32, 64), second |-> 2 * Bits(time, 1, 32)]

\* What Fdatime and datime() return: the fields of the DATETIME of a file.
PushDatimeIntegers ==
  [year |-> Bits(date, 512, 128) + 1980, month |-> Bits(date, 32, 16),
   day |-> Bits(date, 1, 32), hour |-> Bits(time, 2048, 32),
   minute |-> Bits(time, 32, 64), second |-> 2 * Bits(time, 1, 32)]
-------------------------------------------------------------------------------
(* Setting.                                                                *)

DaysInMonth == <<31, 28, 31, 30, 31, 30, 31, 31, 30, 31, 30, 31>>

\* Faulty: every year has 28 days in February.
DateAllowedNoLeap(y, m, d) ==
  y \in 1980..2099 /\ m \in 1..12 /\ d \in 1..DaysInMonth[m]

\* The checks of l_Tsetdate and l_Fdatime.
DateAllowed(y, m, d) ==
  /\ y \in 1980..2099
  /\ m \in 1..12
  /\ d \in 1..(IF m = 2 /\ y % 4 = 0 THEN 29 ELSE DaysInMonth[m])

TimeAllowed(h, m, s) == h \in 0..23 /\ m \in 0..59 /\ s \in 0..59

l_Tsetdate(y, m, d) ==
  /\ IF DateAllowed(y, m, d) THEN date' = PackedDate(y, m, d) ELSE UNCHANGED date
  /\ UNCHANGED time
  /\ asked' = [fn |-> "Tsetdate", year |-> y, month |-> m, day |-> d,
               set |-> DateAllowed(y, m, d)]

l_Tsettime(h, m, s) ==
  /\ IF TimeAllowed(h, m, s) THEN time' = PackedTime(h, m, s) ELSE UNCHANGED time
  /\ UNCHANGED date
  /\ asked' = [fn |-> "Tsettime", hour |-> h, minute |-> m, second |-> s,
               set |-> TimeAllowed(h, m, s)]

\* Both words at once, or neither; the year zero asks for them instead.
l_Fdatime(y, mon, d, h, m, s) ==
  LET allowed == DateAllowed(y, mon, d) /\ TimeAllowed(h, m, s)
  IN  /\ y # 0
      /\ IF allowed
         THEN date' = PackedDate(y, mon, d) /\ time' = PackedTime(h, m, s)
         ELSE UNCHANGED <<date, time>>
      /\ asked' = [fn |-> "Fdatime", year |-> y, month |-> mon, day |-> d,
                   hour |-> h, minute |-> m, second |-> s, set |-> allowed]

ClockNext ==
  /\ asked = Nothing
  /\ \/ \E y \in Year, m \in Month, d \in Day : l_Tsetdate(y, m, d)
     \/ \E h \in Hour, m \in Minute, s \in Second : l_Tsettime(h, m, s)
     \/ \E y \in Year, mon \in Month, d \in Day,
           h \in Hour, m \in Minute, s \in Second : l_Fdatime(y, mon, d, h, m, s)

ClockSpec == ClockInit /\ [][ClockNext]_clockVars
-------------------------------------------------------------------------------
(* Properties.                                                             *)

\* The Gregorian calendar and the clock.
IsLeap(y) == y % 4 = 0 /\ (y % 100 # 0 \/ y % 400 = 0)

LastDay(y, m) ==
  IF m = 2 THEN IF IsLeap(y) THEN 29 ELSE 28
  ELSE IF m \in {4, 6, 9, 11} THEN 30 ELSE 31

RealDate(a) ==
  a.month \in 1..12 /\ a.day \in 1..LastDay(a.year, a.month)

RealTime(a) ==
  a.hour \in 0..23 /\ a.minute \in 0..59 /\ a.second \in 0..59

\* A call is accepted exactly when it passes a day of the calendar from 1980 to
\* 2099 and a time of the day, and what is stored is always one, so that the
\* getters never tell of a day there is not.
OnlyRealTimesAreSet ==
  /\ RealDate(Tgetdate) /\ RealTime(Tgettime)
  /\ asked # Nothing =>
       (asked.set <=> /\ asked.fn # "Tsettime" => asked.year \in 1980..2099 /\ RealDate(asked)
                      /\ asked.fn # "Tsetdate" => RealTime(asked))

\* The getters return what was set, the seconds rounded down to an even number,
\* and the clock's getters and a file's read the same words alike.
GettersTellWhatWasSet ==
  /\ asked # Nothing /\ asked.set =>
       /\ asked.fn # "Tsettime" =>
            Tgetdate = [year |-> asked.year, month |-> asked.month, day |-> asked.day]
       /\ asked.fn # "Tsetdate" =>
            Tgettime = [hour |-> asked.hour, minute |-> asked.minute,
                        second |-> 2 * (asked.second \div 2)]
  /\ \A f \in DOMAIN PushDatimeIntegers :
       PushDatimeIntegers[f] = IF f \in DOMAIN Tgetdate THEN Tgetdate[f] ELSE Tgettime[f]
===============================================================================
