-------------------------------- MODULE Rtc --------------------------------
(***************************************************************************)
(* devices/rtc.c.  The clock is a sequence of instants, each a record of   *)
(* its BCD registers as pairs <<tens, units>>; the n-th register read of a *)
(* call sees the clock at instant at[n].                                   *)
(***************************************************************************)
EXTENDS Integers, Sequences

days_per_month == <<31, 28, 31, 30, 31, 30, 31, 31, 30, 31, 30, 31>>

bcd_to_bin(x) == x[2] + x[1] * 10

Registers == <<"SEC", "MIN", "HOUR", "MDAY", "MON", "YEAR">>

cmos_read(clock, reg, t) == clock[t][reg]

\* One round of the loop: the components read from read n + 1 on.
Components(clock, at, n) ==
    [r \in 1..6 |-> bcd_to_bin(cmos_read(clock, Registers[r], at[n + r]))]

RECURSIVE MonthDays(_)
MonthDays(mon) == IF mon = 0 THEN 0 ELSE MonthDays(mon - 1) + days_per_month[mon]

\* C's division truncates: (year - 1) / 4 is 0 for year = 0.
Seconds(c) ==
    LET year == (IF c[6] < 70 THEN c[6] + 100 ELSE c[6]) - 70
        leap == IF year = 0 THEN 0 ELSE (year - 1) \div 4
        days == year * 365 + leap + MonthDays(c[5])
                + (IF c[5] > 2 /\ year % 4 = 0 THEN 1 ELSE 0) + (c[4] - 1)
    IN  [days |-> days, secs |-> c[3] * 60 * 60 + c[2] * 60 + c[1]]

rtc_get_time_once(clock, at, n) == Seconds(Components(clock, at, n))

\* Rounds are repeated until the second is the same after the round as at its start.
RECURSIVE rtc_get_time(_, _, _)
rtc_get_time(clock, at, n) ==
    LET c == Components(clock, at, n)
    IN  IF bcd_to_bin(cmos_read(clock, "SEC", at[n + 7])) = c[1]
        THEN Seconds(c)
        ELSE rtc_get_time(clock, at, n + 7)
=============================================================================
