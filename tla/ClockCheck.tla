----------------------------- MODULE ClockCheck ------------------------------
(***************************************************************************)
(* The clock check of main.rs: the Date header of an HTTPS answer is       *)
(* turned into seconds since the epoch, compared with the machine's clock, *)
(* and arming in timestamp mode is refused when they differ too much.      *)
(*                                                                         *)
(* True time runs in ticks, the milliseconds of the code, and the calendar *)
(* the server writes its header from runs along with it.  The machine's    *)
(* clock is off by offset and may be set at any time.                      *)
(*                                                                         *)
(* A definition named Bug... is a faulty variant of the one that follows   *)
(* it.  ClockNext uses none of them.                                       *)
(***************************************************************************)
EXTENDS Integers

CONSTANTS
    Second,        \* ticks of a second: 1000
    SecondsPerDay, \* 86400
    Timeout,       \* ticks the request may take: 5000
    Refuse,        \* clock_drift_refuse_arm_ms, when it is set
    Starts,        \* dates a behaviour may begin on
    Offsets,       \* what the machine's clock may be off by, in ticks
    MaxTicks       \* bound on the ticks of a behaviour

Leap(y) == y % 4 = 0 /\ (y % 100 # 0 \/ y % 400 = 0)

DaysIn(y, m) ==
    IF m = 2 THEN (IF Leap(y) THEN 29 ELSE 28)
    ELSE IF m \in {4, 6, 9, 11} THEN 30 ELSE 31

\* A year in the header has four digits.
Dates == {x \in [y : Nat, m : 1 .. 12, d : 1 .. 31] : x.d <= DaysIn(x.y, x.m)}

ASSUME ClockAssumption ==
    /\ Second \in Nat \ {0}
    /\ SecondsPerDay \in Nat \ {0}
    /\ Timeout \in Nat
    /\ Refuse \in Nat \ {0}
    /\ \A x \in Starts : x \in [y : Nat, m : 1 .. 12, d : 1 .. 31]
                         /\ x.d <= DaysIn(x.y, x.m)
    /\ Offsets \subseteq Int
    /\ MaxTicks \in Nat

------------------------------------------------------------------------------
\* The calendar of the world: the day after, and the number of a day counted
\* from the epoch with the days of the years and of the months before it.
NextDate(x) ==
    IF x.d < DaysIn(x.y, x.m) THEN [y |-> x.y, m |-> x.m, d |-> x.d + 1]
    ELSE IF x.m < 12 THEN [y |-> x.y, m |-> x.m + 1, d |-> 1]
    ELSE [y |-> x.y + 1, m |-> 1, d |-> 1]

LeapsBefore(y) == (y - 1) \div 4 - (y - 1) \div 100 + (y - 1) \div 400

DaysBeforeMonth == <<0, 31, 59, 90, 120, 151, 181, 212, 243, 273, 304, 334>>

DayNumber(x) ==
    365 * (x.y - 1970) + LeapsBefore(x.y) - LeapsBefore(1970)
    + DaysBeforeMonth[x.m] + (IF x.m > 2 /\ Leap(x.y) THEN 1 ELSE 0) + x.d - 1

------------------------------------------------------------------------------
\* Division of Rust: towards zero.
Quot(a, b) == IF a >= 0 THEN a \div b ELSE -((-a) \div b)

\* A year that is not begun in March.
BugDaysFromCivilJanuary(x) ==
    LET era == Quot(x.y, 400)
        yoe == x.y - era * 400
        doy == (153 * ((x.m + 9) % 12) + 2) \div 5 + x.d - 1
    IN era * 146097 + yoe * 365 + yoe \div 4 - yoe \div 100 + doy - 719468

\* The days from the epoch to a date: years begin in March, so that the leap
\* day is the last of its year, and are counted in eras of 400.
DaysFromCivil(x) ==
    LET y   == IF x.m <= 2 THEN x.y - 1 ELSE x.y
        era == Quot(IF y >= 0 THEN y ELSE y - 399, 400)
        yoe == y - era * 400
        mp  == (x.m + 9) % 12
        doy == (153 * mp + 2) \div 5 + x.d - 1
        doe == yoe * 365 + yoe \div 4 - yoe \div 100 + doy
    IN era * 146097 + doe - 719468

\* The seconds a well-formed header says, from its date and its time of day.
ParseHttpDate(h) == DaysFromCivil(h.date) * SecondsPerDay + h.sec

\* n / 2 rounded as f64::round does, halves away from zero.
HalfRound(n) == IF n >= 0 THEN (n + 1) \div 2 ELSE -((1 - n) \div 2)

Abs(n) == IF n >= 0 THEN n ELSE -n

\* A round trip that costs no time.
BugMeasuredDriftAtSend(sent, rtt, h) ==
    HalfRound(2 * sent - 2 * Second * ParseHttpDate(h))

\* The clock at send time and half of the round trip, against the header.
MeasuredDrift(sent, rtt, h) ==
    HalfRound(2 * sent + rtt - 2 * Second * ParseHttpDate(h))

------------------------------------------------------------------------------
VARIABLES
    now,    \* true time: ticks since the epoch
    date, sec, tick, \* the same, as the calendar, a second of the day, a tick of it
    ticks,  \* ticks since the behaviour began
    offset, \* of the machine's clock
    check,  \* "idle", "asked", "stamped" (the answer is under way), or the
            \* verdict: "armed", "unverified" (armed without a measurement),
            \* "refused"
    sentAt, \* the machine's clock when the request left
    header, \* the Date the server wrote
    waited, \* ticks since the request left
    steady  \* the machine's clock has not been set since then

clockVars == <<now, date, sec, tick, ticks, offset, check, sentAt, header,
               waited, steady>>

Underway == check \in {"asked", "stamped"}
Headers == [date : Dates, sec : 0 .. SecondsPerDay - 1]

ClockTypeOK ==
    /\ now \in Int
    /\ date \in [y : Nat, m : 1 .. 12, d : 1 .. 31]
    /\ date.d <= DaysIn(date.y, date.m)
    /\ sec \in 0 .. SecondsPerDay - 1
    /\ tick \in 0 .. Second - 1
    /\ ticks \in 0 .. MaxTicks
    /\ offset \in Offsets
    /\ check \in {"idle", "asked", "stamped", "armed", "unverified", "refused"}
    /\ sentAt \in Int
    /\ header.date \in [y : Nat, m : 1 .. 12, d : 1 .. 31]
    /\ header.date.d <= DaysIn(header.date.y, header.date.m)
    /\ header.sec \in 0 .. SecondsPerDay - 1
    /\ waited \in 0 .. Timeout
    /\ steady \in BOOLEAN

ClockInit ==
    /\ date \in Starts
    /\ sec = SecondsPerDay - 1
    /\ tick = 0
    /\ now = (DayNumber(date) * SecondsPerDay + sec) * Second
    /\ ticks = 0
    /\ offset \in Offsets
    /\ check = "idle"
    /\ sentAt = 0
    /\ header = [date |-> date, sec |-> 0]
    /\ waited = 0
    /\ steady = FALSE

\* A tick of true time.  A request at its limit ends first.
Tick ==
    /\ ticks < MaxTicks
    /\ Underway => waited < Timeout
    /\ ticks' = ticks + 1
    /\ now' = now + 1
    /\ waited' = IF Underway THEN waited + 1 ELSE waited
    /\ IF tick + 1 < Second THEN tick' = tick + 1 /\ UNCHANGED <<sec, date>>
       ELSE /\ tick' = 0
            /\ IF sec + 1 < SecondsPerDay THEN sec' = sec + 1 /\ UNCHANGED date
               ELSE sec' = 0 /\ date' = NextDate(date)
    /\ UNCHANGED <<offset, check, sentAt, header, steady>>

\* The operator, or a time daemon, sets the machine's clock.
Adjust(o) ==
    /\ o # offset
    /\ offset' = o
    /\ steady' = FALSE
    /\ UNCHANGED <<now, date, sec, tick, ticks, check, sentAt, header, waited>>

\* Arming in timestamp mode: the request leaves.
StartCheck ==
    /\ ~ Underway
    /\ check' = "asked"
    /\ sentAt' = now + offset
    /\ waited' = 0
    /\ steady' = TRUE
    /\ UNCHANGED <<now, date, sec, tick, ticks, offset, header>>

\* The server writes its answer, dated to the second.
Stamp ==
    /\ check = "asked"
    /\ check' = "stamped"
    /\ header' = [date |-> date, sec |-> sec]
    /\ UNCHANGED <<now, date, sec, tick, ticks, offset, sentAt, waited, steady>>

Verdict(drift) == IF Abs(drift) >= Refuse THEN "refused" ELSE "armed"

\* The answer is there.  A clock set back under the request, or before the
\* epoch, gives no measurement, and arming goes on without one.
Receive ==
    /\ check = "stamped"
    /\ LET rtt == now + offset - sentAt
       IN check' = IF rtt < 0 \/ sentAt < 0 THEN "unverified"
                   ELSE Verdict(MeasuredDrift(sentAt, rtt, header))
    /\ UNCHANGED <<now, date, sec, tick, ticks, offset, sentAt, header, waited,
                   steady>>

\* No URL is configured, the network fails, the time is up, or the answer has
\* no Date that can be read: arming goes on.
CheckFails ==
    /\ Underway
    /\ check' = "unverified"
    /\ UNCHANGED <<now, date, sec, tick, ticks, offset, sentAt, header, waited,
                   steady>>

ClockNext ==
    \/ Tick
    \/ \E o \in Offsets : Adjust(o)
    \/ StartCheck
    \/ Stamp
    \/ Receive
    \/ CheckFails

ClockSpec == ClockInit /\ [][ClockNext]_clockVars

------------------------------------------------------------------------------
\* On every day, across months, leap days, centuries and eras, the header
\* parses to the second it was written in (parse_http_date and
\* days_from_civil against the calendar).
DateParsed ==
    now = ParseHttpDate([date |-> date, sec |-> sec]) * Second + tick

\* While the machine's clock was not set under the request, the verdict is
\* about its real offset, up to half of the time the request took: arming is
\* refused only when the clock is off by the threshold less that half, and less
\* a second more when it is fast, for the header is cut to the second; and it
\* is let through after a measurement only when it is off by less than the
\* threshold and that half, and a second more when it is slow
\* (measure_clock_drift_ms and the gate of the Arm handler).
GateSound ==
    steady =>
        /\ check = "refused" =>
              \/ 2 * offset > 2 * Refuse - waited - 2 * Second
              \/ 2 * offset <= waited + 1 - 2 * Refuse
        /\ check = "armed" =>
              /\ 2 * offset < 2 * Refuse + waited
              /\ 2 * offset > - (2 * Refuse + waited + 2 * Second)
==============================================================================
