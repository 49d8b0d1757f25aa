------------------------ MODULE OperatorChecksProofs -------------------------
(***************************************************************************)
(* Theorems about the clock check and the age search, for any lengths of   *)
(* a second, a day, a timeout and a threshold, any dates from year 0 on,   *)
(* any offsets, and any chain.                                             *)
(***************************************************************************)
EXTENDS ClockCheck, AgeSearch, TLAPS

IsDate(x) ==
    x \in [y : Nat, m : 1 .. 12, d : 1 .. 31] /\ x.d <= DaysIn(x.y, x.m)

MarchDays(m) == (153 * ((m + 9) % 12) + 2) \div 5

------------------------------------------------------------------------------
\* The days before a month of the year that begins in March.
LEMMA MarchDaysTable ==
    ASSUME NEW m \in 1 .. 12
    PROVE  MarchDays(m) = IF m <= 2 THEN DaysBeforeMonth[m] + 306
                          ELSE DaysBeforeMonth[m] - 59
  <1>1. m = 1 \/ m = 2 \/ m = 3 \/ m = 4 \/ m = 5 \/ m = 6 \/ m = 7 \/ m = 8
        \/ m = 9 \/ m = 10 \/ m = 11 \/ m = 12
    BY SMT
  <1> QED BY SMT, <1>1 DEF MarchDays, DaysBeforeMonth

\* The days of the years before y, March to February, counted in eras.
EraDays(y) ==
    LET era == Quot(IF y >= 0 THEN y ELSE y - 399, 400)
        yoe == y - era * 400
    IN era * 146097 + (yoe * 365 + yoe \div 4 - yoe \div 100)

\* Counting in eras of 400 years comes to counting the leap years.
LEMMA ErasCount ==
    ASSUME NEW y \in Int, y >= -1
    PROVE  EraDays(y) = 365 * y + y \div 4 - y \div 100 + y \div 400
  <1> DEFINE e == Quot(IF y >= 0 THEN y ELSE y - 399, 400)
             r == y - e * 400
  <1>1. e = y \div 400
    BY SMT DEF Quot
  <1>2. EraDays(y) = e * 146097 + (r * 365 + r \div 4 - r \div 100)
    BY SMT DEF EraDays
  <1> HIDE DEF e
  <1>3. r \div 4 = y \div 4 - 100 * e
    BY SMT, <1>1
  <1>4. r \div 100 = y \div 100 - 4 * e
    BY SMT, <1>1
  <1>5. e * 146097 + (r * 365 + r \div 4 - r \div 100)
        = 365 * y + y \div 4 - y \div 100 + y \div 400
    BY SMT, <1>1, <1>3, <1>4
  <1> HIDE DEF r
  <1> QED BY SMT, <1>2, <1>5

LEMMA LeapYearCounts ==
    ASSUME NEW y \in Nat
    PROVE  LeapsBefore(y + 1) = LeapsBefore(y) + (IF Leap(y) THEN 1 ELSE 0)
  <1>1. y \div 4 = (y - 1) \div 4 + (IF y % 4 = 0 THEN 1 ELSE 0)
    BY SMT
  <1>2. y \div 100 = (y - 1) \div 100 + (IF y % 100 = 0 THEN 1 ELSE 0)
    BY SMT
  <1>3. y \div 400 = (y - 1) \div 400 + (IF y % 400 = 0 THEN 1 ELSE 0)
    BY SMT
  <1>4. (y % 100 = 0 => y % 4 = 0) /\ (y % 400 = 0 => y % 100 = 0)
    BY SMT
  <1>5. (y + 1) - 1 = y
    BY SMT
  <1> QED BY SMT, <1>1, <1>2, <1>3, <1>4, <1>5 DEF LeapsBefore, Leap

\* days_from_civil counts the days of the calendar: for every date from year
\* 0 on it is the number of the day (days_from_civil).
THEOREM DaysFromCivilCorrect ==
    ASSUME NEW x, IsDate(x)
    PROVE  DaysFromCivil(x) = DayNumber(x)
  <1> DEFINE y == IF x.m <= 2 THEN x.y - 1 ELSE x.y
             sum == EraDays(y)
  <1>1. x.y \in Nat /\ x.m \in 1 .. 12 /\ x.d \in Int
    BY DEF IsDate
  <1>2. y \in Int /\ y >= -1
    BY SMT, <1>1
  <1>3. sum = 365 * y + y \div 4 - y \div 100 + y \div 400
    <2> HIDE DEF y
    <2> QED BY <1>2, ErasCount
  <1>4. DaysFromCivil(x) = sum + MarchDays(x.m) + x.d - 1 - 719468
    <2> DEFINE era == Quot(IF y >= 0 THEN y ELSE y - 399, 400)
               yoe == y - era * 400
    <2>1. era \in Int /\ yoe \in Int /\ MarchDays(x.m) \in Int
      BY SMT, <1>1, <1>2 DEF Quot, MarchDays
    <2>2. DaysFromCivil(x)
          = era * 146097 + (yoe * 365 + yoe \div 4 - yoe \div 100
                            + (MarchDays(x.m) + x.d - 1)) - 719468
      BY SMT DEF DaysFromCivil, MarchDays
    <2>3. sum = era * 146097 + (yoe * 365 + yoe \div 4 - yoe \div 100)
      BY SMT DEF EraDays
    <2> HIDE DEF era, yoe, sum
    <2> QED BY SMT, <2>1, <2>2, <2>3, <1>1
  <1>5. y \div 4 - y \div 100 + y \div 400 = LeapsBefore(y + 1)
    BY SMT, <1>2 DEF LeapsBefore
  <1>6. LeapsBefore(1970) = 477
    BY SMT DEF LeapsBefore
  <1>7. DaysBeforeMonth[x.m] \in Int
    BY SMT, <1>1 DEF DaysBeforeMonth
  <1>8. LeapsBefore(x.y) \in Int
    BY SMT, <1>1 DEF LeapsBefore
  <1> HIDE DEF sum
  <1>9. CASE x.m <= 2
    <2>1. y = x.y - 1 /\ y + 1 = x.y
      BY SMT, <1>1, <1>9
    <2>2. MarchDays(x.m) = DaysBeforeMonth[x.m] + 306
      BY SMT, <1>1, <1>9, MarchDaysTable
    <2>3. ~ (x.m > 2 /\ Leap(x.y))
      BY SMT, <1>1, <1>9
    <2>4. sum = 365 * (x.y - 1) + LeapsBefore(x.y)
      BY SMT, <1>3, <1>5, <1>8, <2>1, <1>1
    <2> QED BY SMT, <1>1, <1>4, <1>6, <1>7, <1>8, <2>2, <2>3, <2>4 DEF DayNumber
  <1>10. CASE ~ (x.m <= 2)
    <2>1. y = x.y /\ x.m > 2
      BY SMT, <1>1, <1>10
    <2>2. MarchDays(x.m) = DaysBeforeMonth[x.m] - 59
      BY SMT, <1>1, <1>10, MarchDaysTable
    <2>3. sum = 365 * x.y + LeapsBefore(x.y) + (IF Leap(x.y) THEN 1 ELSE 0)
      BY SMT, <1>3, <1>5, <1>8, <2>1, <1>1, LeapYearCounts
    <2>4. (IF x.m > 2 /\ Leap(x.y) THEN 1 ELSE 0) = (IF Leap(x.y) THEN 1 ELSE 0)
      BY <2>1
    <2> QED BY SMT, <1>1, <1>4, <1>6, <1>7, <1>8, <2>2, <2>3, <2>4 DEF DayNumber
  <1> QED BY <1>9, <1>10

LEMMA NextDateTyped ==
    ASSUME NEW x, IsDate(x)
    PROVE  IsDate(NextDate(x))
  BY SMT DEF IsDate, NextDate, DaysIn, Leap

\* The day after has the next number.
LEMMA NextDateCounts ==
    ASSUME NEW x, IsDate(x)
    PROVE  DayNumber(NextDate(x)) = DayNumber(x) + 1 /\ DayNumber(x) \in Int
  <1>1. x.y \in Nat /\ x.m \in 1 .. 12 /\ x.d \in 1 .. 31 /\ x.d <= DaysIn(x.y, x.m)
        /\ x = [y |-> x.y, m |-> x.m, d |-> x.d]
    BY SMT DEF IsDate
  <1>2. LeapsBefore(x.y) \in Int /\ LeapsBefore(1970) \in Int
    BY SMT, <1>1 DEF LeapsBefore
  <1>3. DaysBeforeMonth[x.m] \in Int /\ DaysBeforeMonth[1] = 0 /\ DaysBeforeMonth[12] = 334
    BY SMT, <1>1 DEF DaysBeforeMonth
  <1>4. DayNumber(x) \in Int
    BY SMT, <1>1, <1>2, <1>3 DEF DayNumber
  <1>5. CASE x.d < DaysIn(x.y, x.m)
    <2>1. NextDate(x).y = x.y /\ NextDate(x).m = x.m /\ NextDate(x).d = x.d + 1
      BY SMT, <1>1, <1>5 DEF NextDate
    <2> QED BY SMT, <1>1, <1>2, <1>3, <1>4, <2>1 DEF DayNumber
  <1>6. CASE x.d >= DaysIn(x.y, x.m) /\ x.m < 12
    <2>1. NextDate(x).y = x.y /\ NextDate(x).m = x.m + 1 /\ NextDate(x).d = 1
      BY SMT, <1>1, <1>6 DEF NextDate, DaysIn
    <2>2. x.d = DaysIn(x.y, x.m)
      BY SMT, <1>1, <1>6 DEF DaysIn
    <2>3. DaysBeforeMonth[x.m + 1] + (IF x.m + 1 > 2 /\ Leap(x.y) THEN 1 ELSE 0)
          = DaysBeforeMonth[x.m] + (IF x.m > 2 /\ Leap(x.y) THEN 1 ELSE 0) + x.d
      <3>1. x.m = 1 \/ x.m = 2 \/ x.m = 3 \/ x.m = 4 \/ x.m = 5 \/ x.m = 6 \/ x.m = 7
            \/ x.m = 8 \/ x.m = 9 \/ x.m = 10 \/ x.m = 11
        BY SMT, <1>1, <1>6
      <3> QED BY SMT, <3>1, <2>2 DEF DaysIn, DaysBeforeMonth
    <2>4. DaysBeforeMonth[x.m + 1] \in Int
      BY SMT, <1>1, <1>6 DEF DaysBeforeMonth
    <2> QED BY SMT, <1>1, <1>2, <1>3, <1>4, <2>1, <2>3, <2>4 DEF DayNumber
  <1>7. CASE x.d >= DaysIn(x.y, x.m) /\ ~ (x.m < 12)
    <2>1. x.m = 12 /\ x.d = 31
      BY SMT, <1>1, <1>7 DEF DaysIn
    <2>2. NextDate(x).y = x.y + 1 /\ NextDate(x).m = 1 /\ NextDate(x).d = 1
      <3>1. DaysIn(x.y, x.m) = 31
        BY SMT, <2>1 DEF DaysIn
      <3> QED BY SMT, <1>1, <2>1, <3>1 DEF NextDate
    <2>3. LeapsBefore(x.y + 1) = LeapsBefore(x.y) + (IF Leap(x.y) THEN 1 ELSE 0)
      BY SMT, <1>1, LeapYearCounts
    <2> QED BY SMT, <1>1, <1>2, <1>3, <1>4, <2>1, <2>2, <2>3 DEF DayNumber
  <1>8. DaysIn(x.y, x.m) \in Int
    BY SMT DEF DaysIn
  <1> QED BY SMT, <1>1, <1>4, <1>5, <1>6, <1>7, <1>8
------------------------------------------------------------------------------
\* Every variable of the clock check has a value of its type (main.rs, the
\* clock check of the Arm handler).
THEOREM ClockTypeCorrect == ClockSpec => []ClockTypeOK
  <1>1. ClockInit => ClockTypeOK
    <2> SUFFICES ASSUME ClockInit PROVE ClockTypeOK
      OBVIOUS
    <2>1. IsDate(date)
      BY ClockAssumption DEF ClockInit, IsDate
    <2>2. sec \in 0 .. SecondsPerDay - 1 /\ tick \in 0 .. Second - 1
          /\ header.sec \in 0 .. SecondsPerDay - 1 /\ header.date = date
      BY SMT, ClockAssumption DEF ClockInit
    <2>3. now \in Int
      BY SMT, <2>1, <2>2, NextDateCounts, ClockAssumption DEF ClockInit
    <2>4. /\ ticks = 0 /\ offset \in Offsets /\ check = "idle" /\ sentAt = 0
          /\ waited = 0 /\ steady = FALSE
      BY DEF ClockInit
    <2>5. 0 \in 0 .. MaxTicks /\ 0 \in 0 .. Timeout /\ 0 \in Int
      BY SMT, ClockAssumption
    <2> QED BY <2>1, <2>2, <2>3, <2>4, <2>5 DEF ClockTypeOK, IsDate
  <1>2. ClockTypeOK /\ [ClockNext]_clockVars => ClockTypeOK'
    <2> SUFFICES ASSUME ClockTypeOK, [ClockNext]_clockVars PROVE ClockTypeOK'
      OBVIOUS
    <2> USE DEF ClockTypeOK
    <2>1. CASE Tick
      <3>1. IsDate(NextDate(date))
        BY NextDateTyped DEF IsDate
      <3>2. IsDate(date')
        BY <2>1, <3>1 DEF Tick, IsDate
      <3>3. sec' \in 0 .. SecondsPerDay - 1 /\ tick' \in 0 .. Second - 1
        BY SMT, <2>1, ClockAssumption DEF Tick
      <3>4. waited' \in 0 .. Timeout /\ ticks' \in 0 .. MaxTicks /\ now' \in Int
        BY SMT, <2>1, ClockAssumption DEF Tick
      <3> QED BY <2>1, <3>2, <3>3, <3>4 DEF Tick, IsDate
    <2>2. ASSUME NEW o \in Offsets, Adjust(o) PROVE ClockTypeOK'
      BY <2>2 DEF Adjust
    <2>3. CASE StartCheck
      <3>1. sentAt' \in Int /\ waited' \in 0 .. Timeout
        BY SMT, <2>3, ClockAssumption DEF StartCheck
      <3> QED BY <2>3, <3>1 DEF StartCheck
    <2>4. CASE Stamp
      <3>1. header'.date = date /\ header'.sec = sec
        BY <2>4 DEF Stamp
      <3> QED BY <2>4, <3>1 DEF Stamp
    <2>5. CASE Receive
      <3>1. check' \in {"armed", "unverified", "refused"}
        BY <2>5 DEF Receive, Verdict
      <3> QED BY <2>5, <3>1 DEF Receive
    <2>6. CASE CheckFails
      BY <2>6 DEF CheckFails
    <2>7. CASE UNCHANGED clockVars
      BY <2>7 DEF clockVars
    <2> QED BY <2>1, <2>2, <2>3, <2>4, <2>5, <2>6, <2>7 DEF ClockNext
  <1> QED BY <1>1, <1>2, PTL DEF ClockSpec

\* What a date and a second of its day parse to is a whole number.
LEMMA ParsedTyped ==
    ASSUME NEW x, IsDate(x), NEW s \in Int
    PROVE  /\ ParseHttpDate([date |-> x, sec |-> s]) \in Int
           /\ ParseHttpDate([date |-> x, sec |-> s]) = DayNumber(x) * SecondsPerDay + s
           /\ DayNumber(x) \in Int
  <1>1. DaysFromCivil(x) = DayNumber(x) /\ DayNumber(x) \in Int
    BY DaysFromCivilCorrect, NextDateCounts
  <1> QED BY SMT, <1>1, ClockAssumption DEF ParseHttpDate

\* The header of the calendar parses to the true second on every day there
\* is, however long the behaviour runs (parse_http_date, days_from_civil).
THEOREM DateParsedCorrect == ClockSpec => []DateParsed
  <1> DEFINE Clock(x, s, t) == (DayNumber(x) * SecondsPerDay + s) * Second + t
             Told == now = Clock(date, sec, tick)
  <1>1. ClockInit => Told
    <2> SUFFICES ASSUME ClockInit PROVE Told
      OBVIOUS
    <2>1. IsDate(date)
      BY ClockAssumption DEF ClockInit, IsDate
    <2>2. DayNumber(date) \in Int
      BY <2>1, NextDateCounts
    <2> QED BY SMT, <2>2, ClockAssumption DEF ClockInit
  <1>2. ClockTypeOK /\ Told /\ [ClockNext]_clockVars => Told'
    <2> SUFFICES ASSUME ClockTypeOK, Told, [ClockNext]_clockVars PROVE Told'
      OBVIOUS
    <2>1. CASE Tick
      <3>1. IsDate(date)
        BY DEF ClockTypeOK, IsDate
      <3>2. DayNumber(NextDate(date)) = DayNumber(date) + 1 /\ DayNumber(date) \in Int
        BY <3>1, NextDateCounts
      <3>3. now' = now + 1
        BY <2>1 DEF Tick
      <3>4. CASE tick + 1 < Second
        <4>1. tick' = tick + 1 /\ sec' = sec /\ date' = date
          BY <2>1, <3>4 DEF Tick
        <4> QED BY SMT, <3>2, <3>3, <4>1, ClockAssumption DEF ClockTypeOK
      <3>5. CASE ~ (tick + 1 < Second) /\ sec + 1 < SecondsPerDay
        <4>1. tick' = 0 /\ sec' = sec + 1 /\ date' = date
          BY <2>1, <3>5 DEF Tick
        <4>2. tick + 1 = Second
          BY SMT, <3>5, ClockAssumption DEF ClockTypeOK
        <4>3. Clock(date, sec + 1, 0) = (DayNumber(date) * SecondsPerDay + sec) * Second + Second
          BY SMT, <3>2, ClockAssumption DEF ClockTypeOK
        <4> QED BY SMT, <3>2, <3>3, <4>1, <4>2, <4>3, ClockAssumption DEF ClockTypeOK
      <3>6. CASE ~ (tick + 1 < Second) /\ ~ (sec + 1 < SecondsPerDay)
        <4>1. tick' = 0 /\ sec' = 0 /\ date' = NextDate(date)
          BY <2>1, <3>6 DEF Tick
        <4>2. tick + 1 = Second /\ sec + 1 = SecondsPerDay
          BY SMT, <3>6, ClockAssumption DEF ClockTypeOK
        <4>3. DayNumber(date') * SecondsPerDay = DayNumber(date) * SecondsPerDay + (sec + 1)
          BY SMT, <3>2, <4>1, <4>2, ClockAssumption DEF ClockTypeOK
        <4>4. Clock(date', 0, 0) = (DayNumber(date) * SecondsPerDay + sec) * Second + Second
          BY SMT, <3>2, <4>1, <4>3, ClockAssumption DEF ClockTypeOK
        <4> QED BY SMT, <3>2, <3>3, <4>1, <4>2, <4>4, ClockAssumption DEF ClockTypeOK
      <3> QED BY <3>4, <3>5, <3>6
    <2>2. CASE UNCHANGED <<now, date, sec, tick>>
      BY <2>2
    <2> QED BY <2>1, <2>2 DEF ClockNext, Adjust, StartCheck, Stamp, Receive,
               CheckFails, clockVars
  <1>3. ClockTypeOK /\ Told => DateParsed
    <2> SUFFICES ASSUME ClockTypeOK, Told PROVE DateParsed
      OBVIOUS
    <2>1. IsDate(date) /\ sec \in Int
      BY DEF ClockTypeOK, IsDate
    <2> QED BY <2>1, ParsedTyped DEF DateParsed
  <1> HIDE DEF Told
  <1> QED BY <1>1, <1>2, <1>3, ClockTypeCorrect, PTL DEF ClockSpec

------------------------------------------------------------------------------
\* What the request has seen: the clock at its departure, the header since.
Seen ==
    /\ Underway /\ steady => sentAt = now + offset - waited
    /\ check = "stamped" =>
          LET at == ParseHttpDate(header) * Second
          IN at <= now /\ at > now - waited - Second

LEMMA Halves ==
    ASSUME NEW n \in Int
    PROVE  /\ HalfRound(n) \in Int
           /\ 2 * HalfRound(n) <= n + 1
           /\ 2 * HalfRound(n) >= n - 1
  BY SMT DEF HalfRound

\* What a measurement is off by: half of the round trip either way, and less
\* than a second more upwards, for the header is cut to the second.
LEMMA DriftBounded ==
    ASSUME NEW sent \in Int, NEW rtt \in Int, NEW h, NEW true \in Int,
           ParseHttpDate(h) \in Int,
           ParseHttpDate(h) * Second <= true + rtt,
           ParseHttpDate(h) * Second > true - Second
    PROVE  /\ MeasuredDrift(sent, rtt, h) \in Int
           /\ 2 * MeasuredDrift(sent, rtt, h) >= 2 * (sent - true) - rtt - 1
           /\ 2 * MeasuredDrift(sent, rtt, h) < 2 * (sent - true) + rtt + 2 * Second
  <1> DEFINE n == 2 * sent + rtt - 2 * Second * ParseHttpDate(h)
             at == ParseHttpDate(h) * Second
  <1>1. at \in Int /\ n = 2 * sent + rtt - 2 * at
    BY SMT, ClockAssumption
  <1>2. at <= true + rtt /\ at > true - Second
    OBVIOUS
  <1>3. MeasuredDrift(sent, rtt, h) = HalfRound(n)
    BY DEF MeasuredDrift
  <1> HIDE DEF n, at
  <1>4. n \in Int /\ n >= 2 * (sent - true) - rtt /\ n <= 2 * (sent - true) + rtt + 2 * Second - 2
    BY SMT, <1>1, <1>2, ClockAssumption
  <1>5. /\ HalfRound(n) \in Int
        /\ 2 * HalfRound(n) <= n + 1
        /\ 2 * HalfRound(n) >= n - 1
    BY <1>4, Halves
  <1> QED BY SMT, <1>3, <1>4, <1>5, ClockAssumption

\* The verdict of the gate is about the real offset of the machine's clock,
\* up to what the request can hide (measure_clock_drift_ms, the Arm handler).
THEOREM GateCorrect == ClockSpec => []GateSound
  <1> DEFINE Inv == Seen /\ GateSound
  <1>1. ClockInit => Inv
    BY DEF ClockInit, Seen, GateSound, Underway
  <1>2. ClockTypeOK /\ DateParsed /\ Inv /\ [ClockNext]_clockVars => Inv'
    <2> SUFFICES ASSUME ClockTypeOK, DateParsed, Inv, [ClockNext]_clockVars
                 PROVE  Inv'
      OBVIOUS
    <2>0. IsDate(header.date) /\ header.sec \in Int
          /\ now \in Int /\ offset \in Int /\ sentAt \in Int /\ waited \in 0 .. Timeout
      BY ClockAssumption DEF ClockTypeOK, IsDate
    <2>1. CASE Tick
      <3>1. now' = now + 1 /\ waited' = (IF Underway THEN waited + 1 ELSE waited)
            /\ UNCHANGED <<offset, check, sentAt, header, steady>>
        BY <2>1 DEF Tick
      <3>2. GateSound'
        BY <3>1 DEF GateSound, Underway
      <3>3. (Underway /\ steady => sentAt = now + offset - waited)'
        <4>1. CASE Underway /\ steady
          <5>1. sentAt = now + offset - waited
            BY <4>1 DEF Seen
          <5> QED BY SMT, <2>0, <3>1, <4>1, <5>1
        <4>2. CASE ~ (Underway /\ steady)
          BY <4>2, <3>1 DEF Underway
        <4> QED BY <4>1, <4>2
      <3>4. CASE check = "stamped"
        <4>1. ParseHttpDate(header) * Second <= now
              /\ ParseHttpDate(header) * Second > now - waited - Second
          BY <3>4 DEF Seen
        <4>2. ParseHttpDate(header) * Second \in Int
          <5>1. ParseHttpDate(header) \in Int
            BY SMT, <2>0, DaysFromCivilCorrect, NextDateCounts, ClockAssumption
               DEF ParseHttpDate
          <5> QED BY SMT, <5>1, ClockAssumption
        <4>3. now' = now + 1 /\ waited' = waited + 1 /\ header' = header
          BY <3>1, <3>4 DEF Underway
        <4>4. ParseHttpDate(header') * Second <= now'
              /\ ParseHttpDate(header') * Second > now' - waited' - Second
          <5> DEFINE at == ParseHttpDate(header) * Second
          <5>1. at <= now + 1 /\ at > (now + 1) - (waited + 1) - Second
            <6> HIDE DEF at
            <6> QED BY SMT, <2>0, <4>1, <4>2, ClockAssumption DEF at
          <5> QED BY <4>3, <5>1
        <4> QED BY <3>2, <3>3, <4>4 DEF Seen
      <3>5. CASE check # "stamped"
        BY <3>1, <3>2, <3>3, <3>5 DEF Seen
      <3> QED BY <3>4, <3>5
    <2>2. ASSUME NEW o \in Offsets, Adjust(o) PROVE Inv'
      BY <2>2 DEF Adjust, Seen, GateSound, Underway
    <2>3. CASE StartCheck
      <3>1. check' = "asked" /\ steady' = TRUE
            /\ sentAt' = now' + offset' - waited'
        BY SMT, <2>0, <2>3 DEF StartCheck
      <3> QED BY <3>1 DEF Seen, GateSound, Underway
    <2>4. CASE Stamp
      <3>1. check = "asked" /\ check' = "stamped"
            /\ header' = [date |-> date, sec |-> sec]
            /\ UNCHANGED <<now, offset, sentAt, waited, steady>>
        BY <2>4 DEF Stamp
      <3>2. ParseHttpDate(header') * Second <= now
            /\ ParseHttpDate(header') * Second > now - waited - Second
        <4>1. IsDate(date) /\ sec \in Int /\ tick \in 0 .. Second - 1
          BY DEF ClockTypeOK, IsDate
        <4>2. ParseHttpDate(header') \in Int
          BY <3>1, <4>1, ParsedTyped
        <4>3. now = ParseHttpDate(header') * Second + tick
          BY <3>1 DEF DateParsed
        <4>4. ParseHttpDate(header') * Second \in Int
          BY SMT, <4>2, ClockAssumption
        <4> DEFINE at == ParseHttpDate(header') * Second
        <4> HIDE DEF at
        <4>5. at <= now /\ at > now - waited - Second
          BY SMT, <2>0, <4>1, <4>3, <4>4, ClockAssumption DEF at
        <4> QED BY <4>5 DEF at
      <3>3. Seen'
        BY <3>1, <3>2 DEF Seen, Underway
      <3>4. GateSound'
        BY <3>1 DEF GateSound
      <3> QED BY <3>3, <3>4
    <2>5. CASE Receive
      <3> DEFINE rtt == now + offset - sentAt
                 drift == MeasuredDrift(sentAt, rtt, header)
      <3>1. check = "stamped" /\ UNCHANGED <<steady, offset, waited>>
            /\ check' = IF rtt < 0 \/ sentAt < 0 THEN "unverified" ELSE Verdict(drift)
        BY <2>5 DEF Receive
      <3>2. check' \notin {"asked", "stamped"}
        BY <3>1 DEF Verdict
      <3>3. ASSUME steady, check' \in {"armed", "refused"} PROVE GateSound'
        <4>1. rtt = waited /\ sentAt = now + offset - waited
          BY SMT, <2>0, <3>1, <3>3 DEF Seen, Underway
        <4>2. ParseHttpDate(header) \in Int
          BY SMT, <2>0, DaysFromCivilCorrect, NextDateCounts, ClockAssumption
             DEF ParseHttpDate
        <4>3. ParseHttpDate(header) * Second <= now
              /\ ParseHttpDate(header) * Second > now - waited - Second
          BY <3>1 DEF Seen
        <4> DEFINE true == now - waited
        <4>4. true \in Int /\ true + waited = now /\ waited \in Int
              /\ sentAt - true = offset
          BY SMT, <2>0, <4>1
        <4>5. ParseHttpDate(header) * Second <= true + waited
              /\ ParseHttpDate(header) * Second > true - Second
          BY <4>3, <4>4
        <4> HIDE DEF true
        <4>6. /\ MeasuredDrift(sentAt, waited, header) \in Int
              /\ 2 * MeasuredDrift(sentAt, waited, header) >= 2 * (sentAt - true) - waited - 1
              /\ 2 * MeasuredDrift(sentAt, waited, header)
                 < 2 * (sentAt - true) + waited + 2 * Second
          BY <2>0, <4>2, <4>4, <4>5, DriftBounded
        <4>7. drift = MeasuredDrift(sentAt, waited, header)
          BY <4>1
        <4> HIDE DEF drift, rtt
        <4>8. /\ drift \in Int
              /\ 2 * drift >= 2 * offset - waited - 1
              /\ 2 * drift < 2 * offset + waited + 2 * Second
          BY <4>4, <4>6, <4>7
        <4>9. check' = IF Abs(drift) >= Refuse THEN "refused" ELSE "armed"
          BY <3>1, <3>3 DEF Verdict
        <4>10. CASE Abs(drift) >= Refuse
          <5>1. \/ 2 * offset > 2 * Refuse - waited - 2 * Second
                \/ 2 * offset <= waited + 1 - 2 * Refuse
            BY SMT, <2>0, <4>8, <4>10, ClockAssumption DEF Abs
          <5> QED BY <3>1, <4>9, <4>10, <5>1 DEF GateSound
        <4>11. CASE ~ (Abs(drift) >= Refuse)
          <5>1. /\ 2 * offset < 2 * Refuse + waited
                /\ 2 * offset > - (2 * Refuse + waited + 2 * Second)
            BY SMT, <2>0, <4>8, <4>11, ClockAssumption DEF Abs
          <5> QED BY <3>1, <4>9, <4>11, <5>1 DEF GateSound
        <4> QED BY <4>10, <4>11
      <3>4. ASSUME ~ (steady /\ check' \in {"armed", "refused"}) PROVE GateSound'
        <4>1. steady' = steady
          BY <3>1
        <4>2. CASE ~ steady
          BY <4>1, <4>2 DEF GateSound
        <4>3. CASE check' # "armed" /\ check' # "refused"
          BY <4>3 DEF GateSound
        <4> QED BY <3>4, <4>2, <4>3
      <3>5. Seen'
        BY <3>2 DEF Seen, Underway
      <3> QED BY <3>3, <3>4, <3>5
    <2>6. CASE CheckFails
      BY <2>6 DEF CheckFails, Seen, GateSound, Underway
    <2>7. CASE UNCHANGED clockVars
      BY <2>7 DEF clockVars, Seen, GateSound, Underway
    <2> QED BY <2>1, <2>2, <2>3, <2>4, <2>5, <2>6, <2>7 DEF ClockNext
  <1>3. Inv => GateSound
    OBVIOUS
  <1> HIDE DEF Inv
  <1> QED BY <1>1, <1>2, <1>3, ClockTypeCorrect, DateParsedCorrect, PTL DEF ClockSpec

------------------------------------------------------------------------------
\* A block with code is at the upper end of the search, and none before the
\* lower one.
Narrowed ==
    /\ search = "probing" => code[hi] /\ lo <= hi /\ (lo = 0 \/ ~ code[lo - 1])
    /\ search = "checking" => lo = 0 /\ hi = latest
    /\ AgeIsADeployment

\* Every probe leaves half of the search at most.
Halved == power * (hi - lo) <= latest /\ ProbesBounded

\* Twice the new width is the old one at most.
LEMMA ProbeHalves ==
    ASSUME AgeTypeOK, Probe
    PROVE  /\ hi - lo \in Nat \ {0} /\ hi' - lo' \in Int
           /\ 2 * (hi' - lo') <= hi - lo
  <1>1. /\ lo \in Int /\ hi \in Int /\ lo < hi
        /\ \/ lo' = lo /\ hi' = Middle
           \/ lo' = Middle + 1 /\ hi' = hi
    BY SMT, AgeAssumption DEF AgeTypeOK, Probe
  <1>2. /\ Middle \in Int
        /\ 2 * (Middle - lo) <= hi - lo
        /\ 2 * (hi - (Middle + 1)) <= hi - lo
    BY SMT, <1>1 DEF Middle
  <1> QED BY SMT, <1>1, <1>2

\* A probe doubles what the width is counted with, and the product does not grow.
LEMMA Products ==
    ASSUME NEW p \in Nat \ {0}, NEW n \in Nat, NEW w \in Nat \ {0}, NEW v \in Int,
           2 * v <= w, p * w <= n
    PROVE  (2 * p) * v <= n /\ 2 * p <= 2 * n
  <1>1. p * (2 * v) <= p * w
    BY SMT
  <1>2. (2 * p) * v = p * (2 * v)
    BY SMT
  <1>3. p <= p * w
    BY SMT
  <1> QED BY SMT, <1>1, <1>2, <1>3

\* Every variable of the age search has a value of its type, and the ends of
\* the search close in on a deployment (estimate_contract_age_secs).
LEMMA AgeInvariant == AgeSpec => [](AgeTypeOK /\ Narrowed)
  <1>1. AgeInit => AgeTypeOK /\ Narrowed
    BY SMT, AgeAssumption DEF AgeInit, AgeTypeOK, Narrowed, AgeIsADeployment
  <1>2. AgeTypeOK /\ Narrowed /\ [AgeNext]_ageVars => (AgeTypeOK /\ Narrowed)'
    <2> SUFFICES ASSUME AgeTypeOK, Narrowed, [AgeNext]_ageVars
                 PROVE  (AgeTypeOK /\ Narrowed)'
      OBVIOUS
    <2> USE AgeAssumption DEF AgeTypeOK, Narrowed, AgeIsADeployment
    <2>1. CASE Mine
      BY SMT, <2>1 DEF Mine
    <2>2. CASE Resolve
      BY <2>2 DEF Resolve
    <2>3. CASE ReadLatest
      BY SMT, <2>3 DEF ReadLatest
    <2>4. CASE CheckLatest
      BY SMT, <2>4 DEF CheckLatest
    <2>5. CASE Probe
      <3>1. Middle \in Int /\ lo <= Middle /\ Middle < hi
        BY SMT, <2>5 DEF Probe, Middle
      <3>2. CASE code[Middle]
        <4>1. hi' = Middle /\ UNCHANGED <<code, height, search, latest, lo>>
          BY <2>5, <3>2 DEF Probe
        <4> QED BY SMT, <2>5, <3>1, <3>2, <4>1 DEF Probe
      <3>3. CASE ~ code[Middle]
        <4>1. lo' = Middle + 1 /\ UNCHANGED <<code, height, search, latest, hi>>
          BY <2>5, <3>3 DEF Probe
        <4>2. lo' - 1 = Middle /\ lo' \in 0 .. latest /\ lo' <= hi
          BY SMT, <3>1, <4>1
        <4> QED BY <2>5, <3>3, <4>1, <4>2 DEF Probe
      <3> QED BY <3>2, <3>3
    <2>6. CASE ReadBlock
      <3>1. lo = hi
        BY SMT, <2>6 DEF ReadBlock
      <3> QED BY <2>6, <3>1 DEF ReadBlock
    <2>7. CASE RpcFails
      BY <2>7 DEF RpcFails
    <2>8. CASE UNCHANGED ageVars
      BY <2>8 DEF ageVars
    <2> QED BY <2>1, <2>2, <2>3, <2>4, <2>5, <2>6, <2>7, <2>8 DEF AgeNext
  <1> QED BY <1>1, <1>2, PTL DEF AgeSpec

\* The age that is shown counts from a block the contract was deployed in, on
\* a chain of any length (estimate_contract_age_secs).
THEOREM AgeCorrect == AgeSpec => []AgeIsADeployment
  <1>1. Narrowed => AgeIsADeployment
    BY DEF Narrowed
  <1> QED BY <1>1, AgeInvariant, PTL

\* A contract that was deployed once, and kept its code, gets the age of its
\* deployment: none of the blocks before has its code.
THEOREM OnlyDeploymentFound ==
    ASSUME AgeTypeOK, AgeIsADeployment, search = "answered",
           \A a, b \in 0 .. MaxHeight : a <= b /\ code[a] => code[b]
    PROVE  code[lo] /\ \A b \in 0 .. lo - 1 : ~ code[b]
  <1>1. code[lo] /\ (lo = 0 \/ ~ code[lo - 1])
    BY DEF AgeIsADeployment
  <1>2. ASSUME NEW b \in 0 .. lo - 1 PROVE ~ code[b]
    <2>1. lo \in Int /\ lo # 0 /\ lo - 1 \in 0 .. MaxHeight
          /\ b \in 0 .. MaxHeight /\ b <= lo - 1
      BY SMT, AgeAssumption DEF AgeTypeOK
    <2> QED BY <1>1, <2>1
  <1> QED BY <1>1, <1>2

\* The calls a search makes grow with the logarithm of the chain only, for a
\* chain of any length and any history of the contract (target.rs:186-188).
THEOREM ProbesBoundedCorrect == AgeSpec => []ProbesBounded
  <1>1. AgeInit => Halved
    BY SMT DEF AgeInit, Halved, ProbesBounded
  <1>2. AgeTypeOK /\ Halved /\ [AgeNext]_ageVars => Halved'
    <2> SUFFICES ASSUME AgeTypeOK, Halved, [AgeNext]_ageVars PROVE Halved'
      OBVIOUS
    <2>1. CASE Probe
      <3>1. /\ power \in Nat \ {0} /\ latest \in Nat
            /\ power * (hi - lo) <= latest
            /\ power' = 2 * power /\ latest' = latest
        BY SMT, <2>1, AgeAssumption DEF Halved, Probe, AgeTypeOK
      <3>2. (2 * power) * (hi' - lo') <= latest /\ 2 * power <= 2 * latest
        BY <2>1, <3>1, ProbeHalves, Products
      <3> QED BY <3>1, <3>2 DEF Halved, ProbesBounded
    <2>2. CASE ReadLatest
      BY SMT, <2>2, AgeAssumption DEF ReadLatest, Halved, ProbesBounded, AgeTypeOK
    <2>3. CASE UNCHANGED <<latest, lo, hi, power>>
      BY <2>3 DEF Halved, ProbesBounded
    <2> QED BY <2>1, <2>2, <2>3 DEF AgeNext, ageVars, Mine, Resolve, CheckLatest,
                                    ReadBlock, RpcFails
  <1>3. Halved => ProbesBounded
    BY DEF Halved
  <1> QED BY <1>1, <1>2, <1>3, AgeInvariant, PTL DEF AgeSpec
==============================================================================
