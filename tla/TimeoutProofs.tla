--------------------------- MODULE TimeoutProofs ----------------------------
(***************************************************************************)
(* Proofs about Timeout.tla and Clock.tla, for all periods, all times of   *)
(* the day and any number of updates of the clock during a call.           *)
(*                                                                         *)
(* The registers are read from the second to the day.  What is invariant   *)
(* from each read to the next is that the call would not be behind if it   *)
(* took what is still to be read from the clock as it stands: Ahead.  Of a *)
(* call without an update more is known: what has been read so far decodes *)
(* to the time at which it began, Quiet.                                   *)
(***************************************************************************)
EXTENDS Timeout, TLAPS

Readings == [day : 0 .. 255, hour : 0 .. 255, minute : 0 .. 255, second : 0 .. 255]

\* What the conversion makes of the registers read.
SecondOf == IF binary THEN cur.second ELSE Decimal(cur.second)
MinuteOf == IF binary THEN cur.minute ELSE Decimal(cur.minute)
HourOf   == Hour24(IF binary THEN cur.hour ELSE HourDecimal(cur.hour))
DayOf    == IF binary THEN cur.day ELSE Decimal(cur.day)

\* The hour as it is given back.
HourGiven(h) == IF ~h24 /\ h % 12 = 0 THEN 12 - h ELSE h

\* Which registers have been read.
SecondRead == pc \in {"minute", "hour", "day", "convert"}
MinuteRead == pc \in {"hour", "day", "convert"}
HourRead   == pc \in {"day", "convert"}
DayRead    == pc = "convert"

InRange ==
  /\ SecondRead => SecondOf \in 0 .. 59
  /\ MinuteRead => MinuteOf \in 0 .. 59
  /\ HourRead => HourOf \in 0 .. 23
  /\ DayRead => DayOf \in 1 .. Days

Quiet ==
  ticks = 0 =>
    /\ Reading \/ DayRead => now = began
    /\ SecondRead => SecondOf = began.second
    /\ MinuteRead => MinuteOf = began.minute
    /\ HourRead => HourOf = HourGiven(began.hour)
    /\ DayRead => DayOf = began.day

Moment(d, h, m, s) == ((d * 24 + h) * 60 + m) * 60 + s

Ahead ==
  LET b == Moment(began.day, began.hour, began.minute, began.second)
  IN  /\ pc = "second" =>
           b <= Moment(now.day, now.hour, now.minute, now.second)
      /\ pc = "minute" =>
           b <= Moment(now.day, now.hour, now.minute, SecondOf)
      /\ pc = "hour" =>
           b <= Moment(now.day, now.hour, MinuteOf, SecondOf)
      /\ h24 /\ pc = "day" =>
           b <= Moment(now.day, HourOf, MinuteOf, SecondOf)
      /\ h24 /\ pc = "convert" =>
           b <= Moment(DayOf, HourOf, MinuteOf, SecondOf)

\* Between calls there is no time; a caller gets one, of the clock as it is
\* if there was no update.
Given ==
  /\ cur \in Readings
  /\ pc # "done" => who \notin {"none", "check"}
  /\ pc = "done" /\ who \notin {"none", "check"} =>
       cur \in Times /\ (h24 /\ ticks = 0 => cur = now)

\* An update that is announced during the reads is one more.
Counted == Reading /\ uip => ticks < MaxTicks

\* A timeout that has been started has its timestamp.
Started ==
  /\ origin # Unset =>
       timestamp = SmallTs(time_normalize([origin EXCEPT !.second = @ + period]))
  /\ who \in {"start", "td"} => origin = Unset
  /\ who \in {"tick", "enter", "check", "wait"} => origin # Unset

\* The second character of time_zero()'s buffer.
DigitLeft == zbuf[2] = IF wide = Nul THEN Nul ELSE wide % 10

\* What TimeoutTypeOK says of the variables of Timeout.tla itself.
OwnTyped ==
  /\ who \in {"none", "start", "tick", "enter", "check", "wait", "td"}
  /\ period \in Periods \cup {0}
  /\ timestamp \div 10000 \in 0 .. 24
  /\ (timestamp \div 100) % 100 \in 0 .. (Minutes - 1)
  /\ timestamp % 100 \in 0 .. (Sixty - 1)
  /\ answer \in BOOLEAN
  /\ zbuf \in Character \X Character
  /\ shown = <<>> \/ shown \in (Character \X Character) \X (Character \X Character)
  /\ origin \in Times \cup {Unset}
  /\ wide \in (10 .. 59) \cup {Nul} /\ spare \in 0 .. MaxUpdates

CInv ==
  /\ TypeOK
  /\ OwnTyped
  /\ InRange
  /\ Quiet
  /\ Ahead
  /\ Given
  /\ Counted
  /\ Started
  /\ DigitLeft

-----------------------------------------------------------------------------
(* The clock and its registers. *)

LEMMA ClockFacts ==
  /\ Sixty = 60 /\ Minutes = 60
  /\ Days \in Nat /\ 1 <= Days /\ Days <= 28
  /\ MaxTicks \in Nat
BY ClockAssumption, TimeoutAssumption

\* A time, field by field.
LEMMA TimeFields ==
  ASSUME NEW t \in Times
  PROVE  /\ t.day \in Nat /\ 1 <= t.day /\ t.day <= Days
         /\ t.hour \in Nat /\ t.hour <= 23
         /\ t.minute \in Nat /\ t.minute <= 59
         /\ t.second \in Nat /\ t.second <= 59
         /\ t = [day |-> t.day, hour |-> t.hour, minute |-> t.minute,
                 second |-> t.second]
         /\ Seconds(t) = Moment(t.day, t.hour, t.minute, t.second)
         /\ t # Unset
<1>1. /\ t.day \in 1 .. Days /\ t.hour \in 0 .. 23
      /\ t.minute \in 0 .. 59 /\ t.second \in 0 .. 59
      /\ t = [day |-> t.day, hour |-> t.hour, minute |-> t.minute,
              second |-> t.second]
  BY ClockFacts DEF Times
<1>2. Seconds(t) = Moment(t.day, t.hour, t.minute, t.second)
  BY <1>1, ClockFacts DEF Seconds, Moment
<1>3. t # Unset
  BY <1>1, ClockFacts DEF Unset
<1> QED
  BY <1>1, <1>2, <1>3, ClockFacts

LEMMA TimeMade ==
  ASSUME NEW d \in 1 .. Days, NEW h \in 0 .. 23, NEW m \in 0 .. 59,
         NEW s \in 0 .. 59
  PROVE  [day |-> d, hour |-> h, minute |-> m, second |-> s] \in Times
BY ClockFacts DEF Times

\* A register reads back as what it was written from.
LEMMA Coded ==
  ASSUME NEW n \in 0 .. 59, binary \in BOOLEAN
  PROVE  /\ Encoded(n) \in 0 .. 95
         /\ (IF binary THEN Encoded(n) ELSE Decimal(Encoded(n))) = n
<1>1. CASE binary
  BY <1>1 DEF Encoded
<1>2. CASE ~binary
  <2>1. PICK a \in 0 .. 5, b \in 0 .. 9 : n = 10 * a + b
    <3>1. n \div 10 \in 0 .. 5
      OBVIOUS
    <3>2. n - 10 * (n \div 10) \in 0 .. 9
      OBVIOUS
    <3>3. n = 10 * (n \div 10) + (n - 10 * (n \div 10))
      OBVIOUS
    <3> QED
      BY <3>1, <3>2, <3>3
  <2>2. Encoded(n) = a * 16 + b
    BY <1>2, <2>1 DEF Encoded
  <2>3. Decimal(a * 16 + b) = n
    BY <2>1 DEF Decimal
  <2> QED
    BY <1>2, <2>1, <2>2, <2>3
<1> QED
  BY <1>1, <1>2

HourRegister(h) ==
  IF h24 THEN Encoded(h)
  ELSE Encoded(HourOf12(h)) + (IF h >= 12 THEN 128 ELSE 0)

LEMMA HourCoded ==
  ASSUME NEW h \in 0 .. 23, binary \in BOOLEAN, h24 \in BOOLEAN
  PROVE  LET r == HourRegister(h)
         IN  /\ r \in 0 .. 255
             /\ Hour24(IF binary THEN r ELSE HourDecimal(r)) = HourGiven(h)
<1>1. CASE h24
  <2>1. /\ Encoded(h) \in 0 .. 95
        /\ (IF binary THEN Encoded(h) ELSE Decimal(Encoded(h))) = h
    BY Coded
  <2>2. HourDecimal(Encoded(h)) = Decimal(Encoded(h))
    <3> DEFINE e == Encoded(h)
    <3>1. e \in 0 .. 95
      BY <2>1
    <3> HIDE DEF e
    <3>2. e % 128 = e /\ e \div 128 = 0
      BY <3>1
    <3>3. Decimal(e) \in Int
      BY <3>1 DEF Decimal
    <3> QED
      BY <3>2, <3>3 DEF HourDecimal, e
  <2> QED
    BY <1>1, <2>1, <2>2 DEF HourRegister, Hour24, HourGiven
<1>2. CASE ~h24
  <2> DEFINE g == HourOf12(h)
             e == Encoded(g)
             p == IF h >= 12 THEN 128 ELSE 0
  <2>1. g \in 1 .. 12 /\ (h >= 12 => HourGiven(h) = (g + 12) % 24)
        /\ (h < 12 => HourGiven(h) = g)
    BY <1>2 DEF HourOf12, HourGiven
  <2>2. e \in 0 .. 95 /\ (IF binary THEN e ELSE Decimal(e)) = g
    BY <2>1, Coded
  <2>3. binary => e = g
    BY <2>2
  <2> HIDE DEF g, e
  <2>4. (e + p) % 128 = e /\ (e + p) \div 128 = p \div 128 /\ e + p \in 0 .. 255
    BY <2>2
  <2>5. ~binary => HourDecimal(e + p) = g + p
    BY <2>2, <2>4 DEF HourDecimal
  <2>6. (IF binary THEN e + p ELSE HourDecimal(e + p)) = g + p
    BY <2>3, <2>5
  <2>7. Hour24(g + p) = HourGiven(h)
    <3>1. CASE h >= 12
      <4>1. p = 128 /\ (g + p) % 128 = g /\ g + p >= 128
        BY <2>1, <3>1
      <4> QED
        BY <1>2, <2>1, <3>1, <4>1 DEF Hour24
    <3>2. CASE h < 12
      <4>1. p = 0 /\ g + p = g /\ ~(g >= 128)
        BY <2>1, <3>2
      <4> QED
        BY <1>2, <2>1, <3>2, <4>1 DEF Hour24
    <3> QED
      BY <3>1, <3>2
  <2>8. HourRegister(h) = e + p
    BY <1>2 DEF HourRegister, g, e
  <2> QED
    BY <2>4, <2>6, <2>7, <2>8
<1> QED
  BY <1>1, <1>2

\* An update takes no unit of the time back.
LEMMA Onward ==
  ASSUME now \in Times, Later \in Times
  PROVE  /\ Later.day >= now.day
         /\ Later.day * 24 + Later.hour >= now.day * 24 + now.hour
         /\ (Later.day * 24 + Later.hour) * 60 + Later.minute
              >= (now.day * 24 + now.hour) * 60 + now.minute
         /\ Moment(Later.day, Later.hour, Later.minute, Later.second)
              >= Moment(now.day, now.hour, now.minute, now.second)
<1>1. /\ now.day \in Nat /\ now.hour \in Nat /\ now.hour <= 23
      /\ now.minute \in Nat /\ now.minute <= 59
      /\ now.second \in Nat /\ now.second <= 59
  BY TimeFields
<1> DEFINE carry == now.second = 59
           over  == carry /\ now.minute = 59
           night == over /\ now.hour = 23
<1>2. /\ Later.day = IF night THEN now.day + 1 ELSE now.day
      /\ Later.hour = IF over THEN (now.hour + 1) % 24 ELSE now.hour
      /\ Later.minute = IF carry THEN (now.minute + 1) % 60 ELSE now.minute
      /\ Later.second = (now.second + 1) % 60
  BY ClockFacts DEF Later
<1>3. /\ ~carry => Later.second = now.second + 1 /\ Later.minute = now.minute
                   /\ Later.hour = now.hour /\ Later.day = now.day
      /\ carry => Later.second = 0
      /\ carry /\ ~over => Later.minute = now.minute + 1
                           /\ Later.hour = now.hour /\ Later.day = now.day
      /\ over => Later.minute = 0
      /\ over /\ ~night => Later.hour = now.hour + 1 /\ Later.day = now.day
      /\ night => Later.hour = 0 /\ Later.day = now.day + 1
  BY <1>1, <1>2
<1> HIDE DEF carry, over, night
<1>4. CASE ~carry
  BY <1>1, <1>3, <1>4 DEF Moment
<1>5. CASE carry /\ ~over
  BY <1>1, <1>3, <1>5 DEF Moment, carry
<1>6. CASE over /\ ~night
  <2>1. carry
    BY <1>6 DEF over
  <2> QED
    BY <1>1, <1>3, <1>6, <2>1 DEF Moment, over, carry
<1>7. CASE night
  <2>1. carry /\ over
    BY <1>7 DEF night, over
  <2> QED
    BY <1>1, <1>3, <1>7, <2>1 DEF Moment, night, over, carry
<1> QED
  BY <1>4, <1>5, <1>6, <1>7 DEF over

-----------------------------------------------------------------------------
(* The call of cmos_rtc_gettime(). *)

\* Its callers' variables stay as they are meanwhile.
LEMMA OwnKept ==
  ASSUME CInv, UNCHANGED own, Spent
  PROVE  OwnTyped' /\ Started' /\ DigitLeft' /\ who' = who
<1>1. UNCHANGED <<who, period, timestamp, answer, zbuf, shown, origin, wide>>
  BY DEF own
<1>2. spare' \in 0 .. MaxUpdates
  <2>1. spare \in 0 .. MaxUpdates /\ MaxUpdates \in Nat
    BY TimeoutAssumption DEF CInv, OwnTyped
  <2>2. spare' = spare \/ (spare > 0 /\ spare' = spare - 1)
    BY DEF Spent
  <2> QED
    BY <2>1, <2>2
<1> QED
  BY <1>1, <1>2 DEF CInv, OwnTyped, Started, DigitLeft

LEMMA Announces ==
  ASSUME CInv, Announce, UNCHANGED own, Spent
  PROVE  CInv'
<1>1. /\ pc = "uip" \/ ticks < MaxTicks
      /\ uip' = TRUE
      /\ UNCHANGED <<now, binary, h24, pc, cur, began, ticks>>
  BY DEF Announce
<1>2. OwnTyped' /\ Started' /\ DigitLeft' /\ who' = who
  BY OwnKept
<1>3. TypeOK'
  BY <1>1 DEF CInv, TypeOK
<1>4. InRange' /\ Quiet' /\ Ahead' /\ Given'
  BY <1>1, <1>2
  DEF CInv, InRange, Quiet, Ahead, Given, SecondRead, MinuteRead, HourRead,
      DayRead, SecondOf, MinuteOf, HourOf, DayOf, Hour24, HourGiven, Reading
<1>5. Counted'
  BY <1>1 DEF Counted, Reading
<1> QED
  BY <1>2, <1>3, <1>4, <1>5 DEF CInv

\* An update between the reads: the call is ahead as before.
LEMMA Ticks ==
  ASSUME CInv, Tick, UNCHANGED own, Spent
  PROVE  CInv'
<1>1. /\ uip /\ (pc = "uip" \/ Reading)
      /\ now' = Later /\ Later \in Times /\ uip' = FALSE
      /\ ticks' = IF Reading THEN ticks + 1 ELSE ticks
      /\ UNCHANGED <<binary, h24, pc, cur, began>>
  BY DEF Tick
<1>2. OwnTyped' /\ Started' /\ DigitLeft' /\ who' = who
  BY OwnKept
<1>3. ticks' \in 0 .. MaxTicks /\ (Reading => ticks' # 0)
  <2>1. ticks \in 0 .. MaxTicks /\ MaxTicks \in Nat
    BY ClockFacts DEF CInv, TypeOK
  <2>2. Reading => ticks < MaxTicks
    BY <1>1 DEF CInv, Counted
  <2> QED
    BY <1>1, <2>1, <2>2
<1>4. TypeOK'
  BY <1>1, <1>3 DEF CInv, TypeOK
<1>5. InRange' /\ Given' /\ Counted'
  BY <1>1, <1>2
  DEF CInv, InRange, Given, Counted, SecondRead, MinuteRead, HourRead, DayRead,
      SecondOf, MinuteOf, HourOf, DayOf, Hour24, Reading
<1>6. Quiet'
  BY <1>1, <1>3
  DEF Quiet, Reading, SecondRead, MinuteRead, HourRead, DayRead
<1>7. Ahead'
  <2>1. now \in Times /\ began \in Times /\ pc # "convert"
    BY <1>1 DEF CInv, TypeOK, Reading
  <2>2. /\ SecondOf' = SecondOf /\ MinuteOf' = MinuteOf /\ HourOf' = HourOf
    BY <1>1 DEF SecondOf, MinuteOf, HourOf, Hour24
  <2>3. /\ SecondRead => SecondOf \in Int
        /\ MinuteRead => MinuteOf \in Int
        /\ HourRead => HourOf \in Int
    BY DEF CInv, InRange
  <2>4. /\ now'.day >= now.day
        /\ now'.day * 24 + now'.hour >= now.day * 24 + now.hour
        /\ (now'.day * 24 + now'.hour) * 60 + now'.minute
             >= (now.day * 24 + now.hour) * 60 + now.minute
        /\ Moment(now'.day, now'.hour, now'.minute, now'.second)
             >= Moment(now.day, now.hour, now.minute, now.second)
    BY <1>1, <2>1, Onward
  <2>5. /\ now.day \in Int /\ now.hour \in Int /\ now.minute \in Int
        /\ now.second \in Int
        /\ now'.day \in Int /\ now'.hour \in Int /\ now'.minute \in Int
        /\ now'.second \in Int
    BY <1>1, <2>1, TimeFields
  <2>6. Moment(began.day, began.hour, began.minute, began.second) \in Int
    BY <2>1, TimeFields DEF Moment
  <2>7. CASE pc = "second"
    BY <1>1, <2>4, <2>5, <2>6, <2>7 DEF CInv, Ahead, Moment
  <2>8. CASE pc = "minute"
    BY <1>1, <2>2, <2>3, <2>4, <2>5, <2>6, <2>8
    DEF CInv, Ahead, Moment, SecondRead
  <2>9. CASE pc = "hour"
    BY <1>1, <2>2, <2>3, <2>4, <2>5, <2>6, <2>9
    DEF CInv, Ahead, Moment, SecondRead, MinuteRead
  <2>10. CASE pc = "day"
    BY <1>1, <2>2, <2>3, <2>4, <2>5, <2>6, <2>10
    DEF CInv, Ahead, Moment, SecondRead, MinuteRead, HourRead
  <2>11. CASE pc = "uip"
    BY <1>1, <2>11 DEF Ahead
  <2> QED
    BY <1>1, <2>7, <2>8, <2>9, <2>10, <2>11 DEF Reading
<1> QED
  BY <1>2, <1>4, <1>5, <1>6, <1>7 DEF CInv

LEMMA Begins ==
  ASSUME CInv, AwaitUpdate, UNCHANGED own, Spent
  PROVE  CInv'
<1>1. /\ pc = "uip" /\ ~uip /\ pc' = "second" /\ began' = now /\ ticks' = 0
      /\ UNCHANGED <<now, uip, binary, h24, cur>>
  BY DEF AwaitUpdate, NotUpdating, Order
<1>2. OwnTyped' /\ Started' /\ DigitLeft' /\ who' = who
  BY OwnKept
<1>3. TypeOK'
  BY <1>1, ClockFacts DEF CInv, TypeOK
<1>4. InRange' /\ Quiet' /\ Given' /\ Counted'
  BY <1>1, <1>2
  DEF CInv, InRange, Quiet, Given, Counted, SecondRead, MinuteRead, HourRead,
      DayRead, Reading
<1>5. Ahead'
  <2>1. Moment(now.day, now.hour, now.minute, now.second) \in Int
    BY TimeFields DEF CInv, TypeOK, Moment
  <2> QED
    BY <1>1, <2>1 DEF Ahead
<1> QED
  BY <1>2, <1>3, <1>4, <1>5 DEF CInv

\* A register that is read: the field, and the others as they were.
LEMMA FieldRead ==
  ASSUME CInv, get_reg
  PROVE  /\ cur' \in Readings
         /\ SecondOf' = (IF pc = "second" THEN now.second ELSE SecondOf)
         /\ MinuteOf' = (IF pc = "minute" THEN now.minute ELSE MinuteOf)
         /\ HourOf' = (IF pc = "hour" THEN HourGiven(now.hour) ELSE HourOf)
         /\ DayOf' = (IF pc = "day" THEN now.day ELSE DayOf)
         /\ \/ pc = "second" /\ pc' = "minute"
            \/ pc = "minute" /\ pc' = "hour"
            \/ pc = "hour" /\ pc' = "day"
            \/ pc = "day" /\ pc' = "convert"
         /\ UNCHANGED <<now, uip, binary, h24, began, ticks>>
<1>1. /\ now.day \in 0 .. 59 /\ now.hour \in 0 .. 23 /\ now.hour \in 0 .. 59
      /\ now.minute \in 0 .. 59 /\ now.second \in 0 .. 59
      /\ binary \in BOOLEAN /\ h24 \in BOOLEAN /\ cur \in Readings
  BY TimeFields, ClockFacts DEF CInv, TypeOK, Given
<1>2. PICK i \in 1 .. 4 :
        /\ pc = Order[i] /\ pc' = Order[i + 1]
        /\ cur' = [cur EXCEPT ![pc] = Register[pc]]
        /\ UNCHANGED <<now, uip, binary, h24, began, ticks>>
  BY DEF get_reg
<1>3. /\ Register["second"] = Encoded(now.second)
      /\ Register["minute"] = Encoded(now.minute)
      /\ Register["hour"] = HourRegister(now.hour)
      /\ Register["day"] = Encoded(now.day)
  BY DEF Register, HourRegister
<1>8. /\ Order[1] = "second" /\ Order[2] = "minute" /\ Order[3] = "hour"
      /\ Order[4] = "day" /\ Order[5] = "convert"
  BY DEF Order
<1>4. CASE i = 1
  <2>0. pc = "second" /\ pc' = "minute"
    BY <1>2, <1>8, <1>4
  <2>1. cur' = [cur EXCEPT !.second = Encoded(now.second)]
    BY <1>2, <1>3, <2>0
  <2>2. /\ Encoded(now.second) \in 0 .. 95
        /\ (IF binary THEN Encoded(now.second) ELSE Decimal(Encoded(now.second)))
             = now.second
    BY <1>1, Coded
  <2>3. /\ cur' \in Readings /\ cur'.second = Encoded(now.second)
        /\ cur'.minute = cur.minute /\ cur'.hour = cur.hour /\ cur'.day = cur.day
    BY <1>1, <2>1, <2>2 DEF Readings
  <2> QED
    BY <1>2, <2>0, <2>1, <2>2, <2>3 DEF SecondOf, MinuteOf, HourOf, DayOf, Hour24
<1>5. CASE i = 2
  <2>0. pc = "minute" /\ pc' = "hour"
    BY <1>2, <1>8, <1>5
  <2>1. cur' = [cur EXCEPT !.minute = Encoded(now.minute)]
    BY <1>2, <1>3, <2>0
  <2>2. /\ Encoded(now.minute) \in 0 .. 95
        /\ (IF binary THEN Encoded(now.minute) ELSE Decimal(Encoded(now.minute)))
             = now.minute
    BY <1>1, Coded
  <2>3. /\ cur' \in Readings /\ cur'.minute = Encoded(now.minute)
        /\ cur'.second = cur.second /\ cur'.hour = cur.hour /\ cur'.day = cur.day
    BY <1>1, <2>1, <2>2 DEF Readings
  <2> QED
    BY <1>2, <2>0, <2>1, <2>2, <2>3 DEF SecondOf, MinuteOf, HourOf, DayOf, Hour24
<1>6. CASE i = 3
  <2> DEFINE r == HourRegister(now.hour)
  <2>0. pc = "hour" /\ pc' = "day"
    BY <1>2, <1>8, <1>6
  <2>1. cur' = [cur EXCEPT !.hour = r]
    BY <1>2, <1>3, <2>0
  <2>2. /\ r \in 0 .. 255
        /\ Hour24(IF binary THEN r ELSE HourDecimal(r)) = HourGiven(now.hour)
    BY <1>1, HourCoded
  <2> HIDE DEF r
  <2>3. /\ cur' \in Readings /\ cur'.hour = r
        /\ cur'.second = cur.second /\ cur'.minute = cur.minute
        /\ cur'.day = cur.day
    BY <1>1, <2>1, <2>2 DEF Readings
  <2>4. HourOf' = Hour24(IF binary THEN r ELSE HourDecimal(r))
    BY <1>2, <2>3 DEF HourOf, Hour24
  <2> QED
    BY <1>2, <2>0, <2>1, <2>2, <2>3, <2>4 DEF SecondOf, MinuteOf, DayOf
<1>7. CASE i = 4
  <2>0. pc = "day" /\ pc' = "convert"
    BY <1>2, <1>8, <1>7
  <2>1. cur' = [cur EXCEPT !.day = Encoded(now.day)]
    BY <1>2, <1>3, <2>0
  <2>2. /\ Encoded(now.day) \in 0 .. 95
        /\ (IF binary THEN Encoded(now.day) ELSE Decimal(Encoded(now.day)))
             = now.day
    BY <1>1, Coded
  <2>3. /\ cur' \in Readings /\ cur'.day = Encoded(now.day)
        /\ cur'.second = cur.second /\ cur'.minute = cur.minute
        /\ cur'.hour = cur.hour
    BY <1>1, <2>1, <2>2 DEF Readings
  <2> QED
    BY <1>2, <2>0, <2>1, <2>2, <2>3 DEF SecondOf, MinuteOf, HourOf, DayOf, Hour24
<1> QED
  BY <1>4, <1>5, <1>6, <1>7

LEMMA Reads ==
  ASSUME CInv, get_reg, UNCHANGED own, Spent
  PROVE  CInv'
<1>1. /\ cur' \in Readings
      /\ SecondOf' = (IF pc = "second" THEN now.second ELSE SecondOf)
      /\ MinuteOf' = (IF pc = "minute" THEN now.minute ELSE MinuteOf)
      /\ HourOf' = (IF pc = "hour" THEN HourGiven(now.hour) ELSE HourOf)
      /\ DayOf' = (IF pc = "day" THEN now.day ELSE DayOf)
      /\ \/ pc = "second" /\ pc' = "minute"
         \/ pc = "minute" /\ pc' = "hour"
         \/ pc = "hour" /\ pc' = "day"
         \/ pc = "day" /\ pc' = "convert"
      /\ UNCHANGED <<now, uip, binary, h24, began, ticks>>
  BY FieldRead
<1>2. OwnTyped' /\ Started' /\ DigitLeft' /\ who' = who
  BY OwnKept
<1>3. /\ now \in Times /\ began \in Times
      /\ now.day \in 1 .. Days /\ now.hour \in 0 .. 23
      /\ now.minute \in 0 .. 59 /\ now.second \in 0 .. 59
  BY TimeFields, ClockFacts DEF CInv, TypeOK
<1>4. TypeOK'
  <2>1. \A f \in DOMAIN cur' : cur'[f] \in 0 .. 255
    BY <1>1 DEF Readings
  <2>2. pc' \in {"minute", "hour", "day", "convert"}
    BY <1>1
  <2> QED
    BY <1>1, <2>1, <2>2 DEF CInv, TypeOK
<1>5. \A h \in 0 .. 23 : HourGiven(h) \in 0 .. 23 /\ (h24 => HourGiven(h) = h)
  BY DEF HourGiven
<1>6. InRange'
  BY <1>1, <1>3, <1>5
  DEF CInv, InRange, SecondRead, MinuteRead, HourRead, DayRead
<1>7. Quiet'
  <2> SUFFICES ASSUME ticks = 0 PROVE Quiet'
    BY <1>1 DEF Quiet
  <2>1. now = began
    BY <1>1 DEF CInv, Quiet, Reading
  <2>2. HourGiven(began.hour)' = HourGiven(began.hour)
    BY <1>1 DEF HourGiven
  <2> QED
    BY <1>1, <2>1, <2>2
    DEF CInv, Quiet, Reading, SecondRead, MinuteRead, HourRead, DayRead
<1>8. Ahead'
  BY <1>1, <1>3, <1>5 DEF CInv, Ahead, Moment
<1>9. Given' /\ Counted'
  BY <1>1, <1>2 DEF CInv, Given, Counted, Reading
<1> QED
  BY <1>2, <1>4, <1>6, <1>7, <1>8, <1>9 DEF CInv

\* The time that is given back, field by field.
LEMMA Converts ==
  ASSUME CInv, Convert
  PROVE  /\ pc = "convert" /\ pc' = "done"
         /\ cur' = [day |-> DayOf, hour |-> HourOf, minute |-> MinuteOf,
                    second |-> SecondOf]
         /\ cur' \in Times
         /\ UNCHANGED <<now, uip, binary, h24, began, ticks>>
<1>1. /\ pc = "convert" /\ pc' = "done"
      /\ UNCHANGED <<now, uip, binary, h24, began, ticks>>
  BY DEF Convert
<1>2. cur' = [day |-> DayOf, hour |-> HourOf, minute |-> MinuteOf,
              second |-> SecondOf]
  BY DEF Convert, DayOf, HourOf, MinuteOf, SecondOf
<1>3. /\ DayOf \in 1 .. Days /\ HourOf \in 0 .. 23
      /\ MinuteOf \in 0 .. 59 /\ SecondOf \in 0 .. 59
  BY <1>1 DEF CInv, InRange, SecondRead, MinuteRead, HourRead, DayRead
<1> QED
  BY <1>1, <1>2, <1>3, TimeMade

\* A call without an update gives back the time at which it began.
LEMMA QuietGives ==
  ASSUME CInv, Convert, ticks = 0
  PROVE  /\ now = began
         /\ cur' = [began EXCEPT !.hour = HourGiven(began.hour)]
<1>1. /\ now = began /\ SecondOf = began.second /\ MinuteOf = began.minute
      /\ HourOf = HourGiven(began.hour) /\ DayOf = began.day
  BY DEF CInv, Quiet, Convert, SecondRead, MinuteRead, HourRead, DayRead
<1>2. began = [day |-> began.day, hour |-> began.hour, minute |-> began.minute,
               second |-> began.second]
  BY TimeFields DEF CInv, TypeOK
<1>3. [began EXCEPT !.hour = HourGiven(began.hour)] =
        [day |-> began.day, hour |-> HourGiven(began.hour),
         minute |-> began.minute, second |-> began.second]
  BY <1>2
<1> QED
  BY <1>1, <1>3, Converts

LEMMA Gives ==
  ASSUME CInv, Convert, UNCHANGED own, Spent
  PROVE  CInv'
<1>1. /\ pc = "convert" /\ pc' = "done" /\ cur' \in Times
      /\ UNCHANGED <<now, uip, binary, h24, began, ticks>>
  BY Converts
<1>2. OwnTyped' /\ Started' /\ DigitLeft' /\ who' = who
  BY OwnKept
<1>3. cur' \in Readings
  <2>1. /\ cur'.day \in 0 .. 255 /\ cur'.hour \in 0 .. 255
        /\ cur'.minute \in 0 .. 255 /\ cur'.second \in 0 .. 255
        /\ cur' = [day |-> cur'.day, hour |-> cur'.hour, minute |-> cur'.minute,
                   second |-> cur'.second]
    BY <1>1, TimeFields, ClockFacts
  <2> QED
    BY <2>1 DEF Readings
<1>4. TypeOK'
  <2>1. \A f \in DOMAIN cur' : cur'[f] \in 0 .. 255
    BY <1>3 DEF Readings
  <2> QED
    BY <1>1, <2>1 DEF CInv, TypeOK
<1>5. Given'
  <2>1. ticks = 0 /\ h24 => cur' = now
    <3> SUFFICES ASSUME ticks = 0, h24 PROVE cur' = now
      OBVIOUS
    <3>1. now = began /\ cur' = [began EXCEPT !.hour = HourGiven(began.hour)]
      BY QuietGives
    <3>2. HourGiven(began.hour) = began.hour
      BY DEF HourGiven
    <3>3. began = [day |-> began.day, hour |-> began.hour,
                   minute |-> began.minute, second |-> began.second]
      BY TimeFields DEF CInv, TypeOK
    <3> QED
      BY <3>1, <3>2, <3>3
  <2> QED
    BY <1>1, <1>2, <1>3, <2>1 DEF Given
<1>6. InRange' /\ Quiet' /\ Ahead' /\ Counted'
  BY <1>1
  DEF InRange, Quiet, Ahead, Counted, SecondRead, MinuteRead, HourRead, DayRead,
      Reading
<1> QED
  BY <1>2, <1>4, <1>5, <1>6 DEF CInv

LEMMA GetsTime ==
  ASSUME CInv, GetTime, UNCHANGED own, Spent
  PROVE  CInv'
BY Announces, Ticks, Begins, Reads, Gives DEF GetTime

-----------------------------------------------------------------------------
(* The arithmetic of a deadline. *)

\* What stands for h hours, m minutes and s seconds, in seconds and as a
\* timestamp.
OfDay(h, m, s) == (h * 60 + m) * 60 + s
Stamp(h, m, s) == h * 10000 + m * 100 + s

\* A timestamp reads as its hours, minutes and seconds.
Readable(x) ==
  /\ x \div 10000 \in 0 .. 24
  /\ (x \div 100) % 100 \in 0 .. 59
  /\ x % 100 \in 0 .. 59

LEMMA StampRead ==
  ASSUME NEW h \in 0 .. 24, NEW m \in 0 .. 59, NEW s \in 0 .. 59
  PROVE  Readable(Stamp(h, m, s))
<1> DEFINE x == Stamp(h, m, s)
<1>1. x = h * 10000 + m * 100 + s
  BY DEF Stamp
<1> HIDE DEF x
<1>2. x \div 10000 = h
  BY <1>1
<1>3. x \div 100 = h * 100 + m
  BY <1>1
<1>4. (h * 100 + m) % 100 = m
  OBVIOUS
<1>5. x % 100 = s
  BY <1>1
<1> QED
  BY <1>2, <1>3, <1>4, <1>5 DEF x, Readable

\* Timestamps are in the order of the times of the day they stand for.
InOrder(h, m, s, i, n, r) ==
  /\ Stamp(h, m, s) >= Stamp(i, n, r) <=> OfDay(h, m, s) >= OfDay(i, n, r)
  /\ Stamp(h, m, s) = Stamp(i, n, r) <=> OfDay(h, m, s) = OfDay(i, n, r)

LEMMA StampOrder ==
  ASSUME NEW h \in 0 .. 24, NEW m \in 0 .. 59, NEW s \in 0 .. 59,
         NEW i \in 0 .. 24, NEW n \in 0 .. 59, NEW r \in 0 .. 59
  PROVE  InOrder(h, m, s, i, n, r)
<1>1. CASE h > i
  BY <1>1 DEF InOrder, Stamp, OfDay
<1>2. CASE h < i
  BY <1>2 DEF InOrder, Stamp, OfDay
<1>3. CASE h = i /\ m > n
  BY <1>3 DEF InOrder, Stamp, OfDay
<1>4. CASE h = i /\ m < n
  BY <1>4 DEF InOrder, Stamp, OfDay
<1>5. CASE h = i /\ m = n
  BY <1>5 DEF InOrder, Stamp, OfDay
<1> QED
  BY <1>1, <1>2, <1>3, <1>4, <1>5

\* What the carries of ADD_NEXT add to a time of the day that p seconds were
\* added to.
LateOf(t, p) ==
  LET second  == t.second + p
      minutes == IF second < 60 THEN 0 ELSE second \div 59
      minute  == t.minute + minutes
      hours   == IF minute < 60 THEN 0 ELSE minute \div 59
  IN  minutes + hours * 60

LEMMA SecondsAdd ==
  ASSUME NEW a \in 0 .. 59, NEW b \in 0 .. 196
  PROVE  a + b \in 0 .. 255
OBVIOUS

\* ADD_NEXT of seconds to minutes, or of minutes to hours.
LEMMA CarriedOver ==
  ASSUME NEW a \in Nat, NEW b \in Int
  PROVE  AddNext(a, b, 59) = << IF a < 60 THEN a ELSE a % 59,
                                b + (IF a < 60 THEN 0 ELSE a \div 59) >>
BY DEF AddNext

\* time_normalize() gives hours, minutes and seconds that a timestamp can hold,
\* as late as LateOf says; the day it leaves alone.
LEMMA Normalized ==
  ASSUME NEW t \in Times, NEW p \in 0 .. 196
  PROVE  \E h \in 0 .. 24, m \in 0 .. 59, s \in 0 .. 59 :
           /\ SmallTs(time_normalize([t EXCEPT !.second = @ + p])) = Stamp(h, m, s)
           /\ OfDay(h, m, s) = OfDay(t.hour, t.minute, t.second) + p + LateOf(t, p)
           /\ LateOf(t, p) \in Nat
<1> DEFINE S  == t.second + p
           q  == IF S < 60 THEN 0 ELSE S \div 59
           s  == IF S < 60 THEN S ELSE S % 59
           M  == t.minute + q
           c  == IF M < 60 THEN 0 ELSE M \div 59
           m  == IF M < 60 THEN M ELSE M % 59
           h  == t.hour + c
           u  == [t EXCEPT !.second = @ + p]
<1>1. /\ t.hour \in 0 .. 23 /\ t.minute \in 0 .. 59 /\ t.second \in 0 .. 59
      /\ t.day \in Int
  BY TimeFields
<1>2. u.second = S /\ u.minute = t.minute /\ u.hour = t.hour /\ u.day = t.day
  BY TimeFields
<1>3. S \in 0 .. 255
  BY <1>1, SecondsAdd
<1>4. q \in 0 .. 4 /\ s \in 0 .. 59 /\ S = 59 * q + s
  <2> HIDE DEF S
  <2> QED
    BY <1>3
<1>5. M \in 0 .. 63
  BY <1>1, <1>4
<1>6. c \in 0 .. 1 /\ m \in 0 .. 59 /\ M = 59 * c + m
  <2> HIDE DEF M
  <2> QED
    BY <1>5
<1>7. h \in 0 .. 24
  BY <1>1, <1>6
<1>8. AddNext(u.second, u.minute, Sixty - 1) = <<s, M>>
  <2>1. Sixty - 1 = 59
    BY ClockFacts
  <2>2. S \in Nat /\ t.minute \in Int
    BY <1>1, <1>3
  <2>3. AddNext(S, t.minute, 59) = <<s, M>>
    BY <2>2, CarriedOver
  <2> QED
    BY <1>2, <2>1, <2>3
<1>9. AddNext(M, u.hour, Minutes - 1) = <<m, h>>
  <2>1. Minutes - 1 = 59
    BY ClockFacts
  <2>2. M \in Nat /\ t.hour \in Int
    BY <1>1, <1>5
  <2>3. AddNext(M, t.hour, 59) = <<m, h>>
    BY <2>2, CarriedOver
  <2> QED
    BY <1>2, <2>1, <2>3
<1>10. AddNext(h, u.day, 24) = <<h, u.day>>
  BY <1>7 DEF AddNext
<1>11. LateOf(t, p) = q + c * 60
  BY DEF LateOf
<1> HIDE DEF S, q, s, M, c, m, h, u
<1>12. time_normalize(u) =
         [day |-> u.day, hour |-> h, minute |-> m, second |-> s]
  BY <1>8, <1>9, <1>10 DEF time_normalize
<1>13. SmallTs(time_normalize(u)) = Stamp(h, m, s)
  BY <1>12 DEF SmallTs, Stamp
<1>14. M = t.minute + q /\ h = t.hour + c /\ S = t.second + p
  BY DEF M, h, S
<1>15. OfDay(h, m, s) = OfDay(t.hour, t.minute, t.second) + p + LateOf(t, p)
  <2>1. PICK i \in Int, n \in Int, r \in Int :
          i = t.hour /\ n = t.minute /\ r = t.second
    <3>1. t.hour \in Int /\ t.minute \in Int /\ t.second \in Int
      BY <1>1
    <3> QED
      BY <3>1, Zenon
  <2>2. PICK x \in Int, y \in Int, z \in Int, a \in Int, b \in Int :
          x = h /\ y = m /\ z = s /\ a = q /\ b = c
    BY <1>4, <1>6, <1>7
  <2>3. r + p = 59 * a + z /\ n + a = 59 * b + y /\ x = i + b
    BY <1>4, <1>6, <1>14, <2>1, <2>2
  <2>4. OfDay(x, y, z) = OfDay(i, n, r) + p + (a + b * 60)
    BY <2>3 DEF OfDay
  <2> QED
    BY <1>11, <2>1, <2>2, <2>4
<1>16. LateOf(t, p) \in Nat
  BY <1>4, <1>6, <1>11
<1> QED
  BY <1>4, <1>6, <1>7, <1>13, <1>15, <1>16 DEF u

-----------------------------------------------------------------------------
(* The callers. *)

LEMMA PeriodFits ==
  ASSUME CInv
  PROVE  period \in 0 .. 196
BY TimeoutAssumption DEF CInv, OwnTyped

\* A caller calls cmos_rtc_gettime(): nothing is read yet.
LEMMA Calls ==
  ASSUME CInv, NEW f \in {"start", "tick", "enter", "wait", "td"}, Call(f),
         OwnTyped', Started', DigitLeft'
  PROVE  CInv'
<1>1. /\ pc = "done" /\ pc' = "uip" /\ who' = f
      /\ UNCHANGED <<now, uip, binary, h24, cur, began, ticks>>
  BY DEF Call
<1>2. TypeOK'
  BY <1>1 DEF CInv, TypeOK
<1>3. Given'
  BY <1>1 DEF CInv, Given
<1>4. InRange' /\ Quiet' /\ Ahead' /\ Counted'
  BY <1>1
  DEF InRange, Quiet, Ahead, Counted, SecondRead, MinuteRead, HourRead, DayRead,
      Reading
<1> QED
  BY <1>2, <1>3, <1>4 DEF CInv

\* A caller has got the time, and cmos_rtc_gettime() is at rest.
LEMMA Rests ==
  ASSUME CInv, NEW f \in {"start", "tick", "enter", "wait", "td"}, Got(f),
         who' \in {"none", "check"}, OwnTyped', Started', DigitLeft'
  PROVE  CInv'
<1>1. /\ pc = "done" /\ pc' = "done"
      /\ cur' = Unset /\ began' = now /\ ticks' = 0
      /\ UNCHANGED <<now, uip, binary, h24>>
  BY DEF Got
<1>2. TypeOK'
  <2>1. \A x \in DOMAIN Unset : Unset[x] \in 0 .. 255
    BY DEF Unset
  <2> QED
    BY <1>1, <2>1, ClockFacts DEF CInv, TypeOK
<1>3. Given'
  <2>1. Unset \in Readings
    BY DEF Unset, Readings
  <2> QED
    BY <1>1, <2>1 DEF Given
<1>4. InRange' /\ Quiet' /\ Ahead' /\ Counted'
  BY <1>1
  DEF InRange, Quiet, Ahead, Counted, SecondRead, MinuteRead, HourRead, DayRead,
      Reading
<1> QED
  BY <1>2, <1>3, <1>4 DEF CInv

\* SetDeadline: the timestamp reads as hours, minutes and seconds.
LEMMA Deadlines ==
  ASSUME CInv, SetDeadline, UNCHANGED spare
  PROVE  CInv'
<1>1. /\ Got("start") /\ who = "start" /\ who' = "none" /\ origin' = cur
      /\ timestamp' = SmallTs(time_normalize([cur EXCEPT !.second = @ + period]))
      /\ UNCHANGED <<period, answer, zbuf, shown, wide, spare>>
  BY DEF SetDeadline, Got
<1>2. cur \in Times
  BY <1>1 DEF CInv, Given, Got
<1>3. OwnTyped'
  <2>1. PICK h \in 0 .. 24, m \in 0 .. 59, s \in 0 .. 59 :
          timestamp' = Stamp(h, m, s)
    <3>1. period \in 0 .. 196
      BY PeriodFits
    <3>2. \E h \in 0 .. 24, m \in 0 .. 59, s \in 0 .. 59 :
            SmallTs(time_normalize([cur EXCEPT !.second = @ + period]))
              = Stamp(h, m, s)
      <4>1. \E h \in 0 .. 24, m \in 0 .. 59, s \in 0 .. 59 :
              /\ SmallTs(time_normalize([cur EXCEPT !.second = @ + period]))
                   = Stamp(h, m, s)
              /\ OfDay(h, m, s)
                   = OfDay(cur.hour, cur.minute, cur.second) + period + LateOf(cur, period)
              /\ LateOf(cur, period) \in Nat
        BY <1>2, <3>1, Normalized, Zenon
      <4> QED
        BY <4>1, Zenon
    <3> QED
      BY <1>1, <3>2, Zenon
  <2>2. /\ timestamp' \div 10000 \in 0 .. 24
        /\ (timestamp' \div 100) % 100 \in 0 .. (Minutes - 1)
        /\ timestamp' % 100 \in 0 .. (Sixty - 1)
    <3>1. Readable(timestamp')
      BY <2>1, StampRead, Zenon
    <3>2. 0 .. (Minutes - 1) = 0 .. 59 /\ 0 .. (Sixty - 1) = 0 .. 59
      BY ClockFacts
    <3> QED
      BY <3>1, <3>2 DEF Readable
  <2> QED
    BY <1>1, <1>2, <2>2 DEF CInv, OwnTyped
<1>4. Started'
  BY <1>1 DEF Started
<1>5. DigitLeft'
  BY <1>1 DEF CInv, DigitLeft
<1> QED
  BY <1>1, <1>3, <1>4, <1>5, Rests

Pair == Character \X Character
Wide == (10 .. 59) \cup {Nul}

Leftover(w) == IF w = Nul THEN Nul ELSE w % 10

\* time_zero() shows what Digits says, and leaves the last digit of the last
\* number above nine.
LEMMA TimeZero ==
  ASSUME NEW buf \in Pair, NEW w \in Wide,
         NEW n \in 0 .. 59, buf[2] = Leftover(w)
  PROVE  /\ time_zero(buf, n) = Digits(n, w)
         /\ time_zero(buf, n) \in Pair
         /\ time_zero(buf, n)[2] = Leftover(Wider(n, w))
         /\ Wider(n, w) \in Wide
<1>1. CASE n < 10
  <2>1. time_zero(buf, n) = <<0, buf[2]>> /\ Wider(n, w) = w
    BY <1>1 DEF time_zero, Wider
  <2>2. Digits(n, w) = <<0, Leftover(w)>>
    BY <1>1 DEF Digits, Leftover
  <2>3. 0 \in Character /\ buf[2] \in Character
    BY DEF Character, Pair
  <2> QED
    BY <2>1, <2>2, <2>3 DEF Pair
<1>2. CASE ~(n < 10)
  <2>1. time_zero(buf, n) = <<n \div 10, n % 10>> /\ Wider(n, w) = n
    BY <1>2 DEF time_zero, dec_to_str, Wider
  <2>2. Digits(n, w) = <<n \div 10, n % 10>>
    BY <1>2 DEF Digits, Wide
  <2>3. n \div 10 \in 0 .. 9 /\ n % 10 \in 0 .. 9 /\ n \in 10 .. 59 /\ n # Nul
    BY <1>2 DEF Nul, Wide
  <2> QED
    BY <2>1, <2>2, <2>3 DEF Character, Pair, Leftover, Wide
<1> QED
  BY <1>1, <1>2

\* What td shows.
LEMMA Shown ==
  ASSUME CInv, time_str
  PROVE  /\ shown' = <<Digits(cur.hour, wide),
                       Digits(cur.minute, Wider(cur.hour, wide))>>
         /\ shown' \in Pair \X Pair
         /\ zbuf' \in Pair
         /\ wide' \in Wide
         /\ DigitLeft'
<1> DEFINE hour   == time_zero(zbuf, cur.hour)
           minute == time_zero(hour, cur.minute)
           first  == Wider(cur.hour, wide)
<1>1. /\ shown' = <<hour, minute>> /\ zbuf' = minute
      /\ wide' = Wider(cur.minute, first)
  BY DEF time_str
<1>2. cur \in Times
  BY DEF CInv, Given, time_str, Got
<1>3. cur.hour \in 0 .. 59 /\ cur.minute \in 0 .. 59
  BY <1>2, TimeFields
<1>4. /\ zbuf \in Pair /\ wide \in Wide
      /\ zbuf[2] = Leftover(wide)
  BY DEF CInv, OwnTyped, DigitLeft, Leftover, Pair, Wide
<1>5. /\ hour = Digits(cur.hour, wide) /\ hour \in Pair
      /\ hour[2] = Leftover(first) /\ first \in Wide
  BY <1>3, <1>4, TimeZero, Zenon
<1> HIDE DEF hour, first
<1>6. /\ minute = Digits(cur.minute, first) /\ minute \in Pair
      /\ minute[2] = Leftover(Wider(cur.minute, first))
      /\ Wider(cur.minute, first) \in Wide
  BY <1>3, <1>5, TimeZero, Zenon
<1> HIDE DEF minute
<1>7. DigitLeft'
  BY <1>1, <1>6 DEF DigitLeft, Leftover
<1> QED
  BY <1>1, <1>5, <1>6, <1>7 DEF first

LEMMA Callers ==
  ASSUME CInv, Caller, UNCHANGED spare
  PROVE  CInv'
<1>1. ASSUME NEW p \in Periods, timeout_start(p)
      PROVE  CInv'
  <2>1. /\ Call("start") /\ origin = Unset /\ who' = "start" /\ period' = p
        /\ UNCHANGED <<timestamp, answer, zbuf, shown, origin, wide, spare>>
    BY <1>1 DEF timeout_start, Call
  <2>2. OwnTyped' /\ Started' /\ DigitLeft'
    BY <2>1 DEF CInv, OwnTyped, Started, DigitLeft
  <2> QED
    BY <2>1, <2>2, Calls
<1>2. CASE timeout_tick
  <2>1. /\ Call("tick") /\ origin # Unset /\ who' = "tick"
        /\ UNCHANGED <<period, timestamp, answer, zbuf, shown, origin, wide, spare>>
    BY <1>2 DEF timeout_tick, Call
  <2>2. OwnTyped' /\ Started' /\ DigitLeft'
    BY <2>1 DEF CInv, OwnTyped, Started, DigitLeft
  <2> QED
    BY <2>1, <2>2, Calls
<1>3. CASE timeout_wait
  <2>1. /\ Call("enter") /\ origin # Unset /\ who' = "enter"
        /\ UNCHANGED <<period, timestamp, answer, zbuf, shown, origin, wide, spare>>
    BY <1>3 DEF timeout_wait, Call
  <2>2. OwnTyped' /\ Started' /\ DigitLeft'
    BY <2>1 DEF CInv, OwnTyped, Started, DigitLeft
  <2> QED
    BY <2>1, <2>2, Calls
<1>4. CASE td
  <2>1. /\ Call("td") /\ origin = Unset /\ who' = "td"
        /\ UNCHANGED <<period, timestamp, answer, zbuf, shown, origin, wide, spare>>
    BY <1>4 DEF td, Call
  <2>2. OwnTyped' /\ Started' /\ DigitLeft'
    BY <2>1 DEF CInv, OwnTyped, Started, DigitLeft
  <2> QED
    BY <2>1, <2>2, Calls
<1>5. CASE SetDeadline
  BY <1>5, Deadlines
<1>6. CASE TickAnswer
  <2>1. /\ Got("tick") /\ who = "tick" /\ who' = "none" /\ answer' \in BOOLEAN
        /\ UNCHANGED <<period, timestamp, zbuf, shown, origin, wide, spare>>
    BY <1>6 DEF TickAnswer, Got
  <2>2. OwnTyped' /\ Started' /\ DigitLeft'
    BY <2>1 DEF CInv, OwnTyped, Started, DigitLeft
  <2> QED
    BY <2>1, <2>2, Rests
<1>7. CASE Entered
  <2>1. /\ Got("enter") /\ who = "enter" /\ who' = "check"
        /\ UNCHANGED <<period, timestamp, answer, zbuf, shown, origin, wide, spare>>
    BY <1>7 DEF Entered, Got
  <2>2. OwnTyped' /\ Started' /\ DigitLeft'
    BY <2>1 DEF CInv, OwnTyped, Started, DigitLeft
  <2> QED
    BY <2>1, <2>2, Rests
<1>8. CASE Check
  <2>1. /\ who = "check"
        /\ UNCHANGED <<period, timestamp, answer, zbuf, shown, origin, wide, spare>>
    BY <1>8 DEF Check
  <2>2. CASE Call("wait")
    <3>1. who' = "wait"
      BY <2>2 DEF Call
    <3>2. OwnTyped' /\ Started' /\ DigitLeft'
      BY <2>1, <3>1 DEF CInv, OwnTyped, Started, DigitLeft
    <3> QED
      BY <2>2, <3>2, Calls
  <2>3. CASE who' = "none" /\ UNCHANGED vars
    <3>1. OwnTyped' /\ Started' /\ DigitLeft'
      BY <2>1, <2>3 DEF CInv, OwnTyped, Started, DigitLeft
    <3>2. UNCHANGED <<now, uip, binary, h24, pc, cur, began, ticks>>
      BY <2>3 DEF vars
    <3>3. pc = "done"
      BY <2>1 DEF CInv, Given
    <3>4. TypeOK' /\ Given' /\ InRange' /\ Quiet' /\ Ahead' /\ Counted'
      BY <2>3, <3>2, <3>3
      DEF CInv, TypeOK, Given, InRange, Quiet, Ahead, Counted, SecondRead,
          MinuteRead, HourRead, DayRead, Reading
    <3> QED
      BY <3>1, <3>4 DEF CInv
  <2> QED
    BY <1>8, <2>2, <2>3 DEF Check
<1>9. CASE WaitAnswer
  <2>1. /\ Got("wait") /\ who = "wait" /\ who' = "check" /\ answer' \in BOOLEAN
        /\ UNCHANGED <<period, timestamp, zbuf, shown, origin, wide, spare>>
    BY <1>9 DEF WaitAnswer, Got
  <2>2. OwnTyped' /\ Started' /\ DigitLeft'
    BY <2>1 DEF CInv, OwnTyped, Started, DigitLeft
  <2> QED
    BY <2>1, <2>2, Rests
<1>10. CASE time_str
  <2>1. /\ Got("td") /\ who = "td" /\ who' = "none"
        /\ UNCHANGED <<period, timestamp, answer, origin, spare>>
    BY <1>10 DEF time_str, Got
  <2>2. /\ shown' \in Pair \X Pair /\ zbuf' \in Pair
        /\ wide' \in Wide
        /\ DigitLeft'
    BY <1>10, Shown
  <2>3. OwnTyped' /\ Started'
    BY <2>1, <2>2 DEF CInv, OwnTyped, Started, Pair, Wide
  <2> QED
    BY <2>1, <2>2, <2>3, Rests
<1> QED
  BY <1>1, <1>2, <1>3, <1>4, <1>5, <1>6, <1>7, <1>8, <1>9, <1>10 DEF Caller

LEMMA Passes ==
  ASSUME CInv, NEW n \in Instants, Pass(n), UNCHANGED spare
  PROVE  CInv'
<1>1. /\ pc = "done" /\ who \in {"none", "check"}
      /\ now' \in Times /\ began' = now' /\ uip' = FALSE
      /\ UNCHANGED <<binary, h24, pc, cur, ticks>>
      /\ UNCHANGED <<who, period, timestamp, answer, zbuf, shown, origin, wide>>
  BY DEF Pass, own
<1>2. OwnTyped' /\ Started' /\ DigitLeft'
  BY <1>1 DEF CInv, OwnTyped, Started, DigitLeft
<1>3. TypeOK'
  BY <1>1 DEF CInv, TypeOK
<1>4. Given' /\ InRange' /\ Quiet' /\ Ahead' /\ Counted'
  BY <1>1
  DEF CInv, Given, InRange, Quiet, Ahead, Counted, SecondRead, MinuteRead,
      HourRead, DayRead, Reading
<1> QED
  BY <1>2, <1>3, <1>4 DEF CInv

LEMMA Starting ==
  TimeoutInit => CInv
<1> SUFFICES ASSUME TimeoutInit PROVE CInv
  OBVIOUS
<1>1. /\ now \in Times /\ uip = FALSE /\ binary \in BOOLEAN /\ h24 \in BOOLEAN
      /\ cur = Unset /\ began = now /\ ticks = 0
      /\ pc = "done" /\ who = "none"
      /\ period = 0 /\ timestamp = 0 /\ answer = FALSE
      /\ zbuf = <<Nul, Nul>> /\ shown = <<>>
      /\ origin = Unset /\ wide = Nul /\ spare = MaxUpdates
  BY TimeoutAssumption DEF TimeoutInit, ClockInit
<1>2. TypeOK
  <2>1. \A f \in DOMAIN Unset : Unset[f] \in 0 .. 255
    BY DEF Unset
  <2>2. 0 \in 0 .. MaxTicks
    BY ClockFacts
  <2>3. cur \in Times \cup {Unset} /\ \A f \in DOMAIN cur : cur[f] \in 0 .. 255
    BY <1>1, <2>1
  <2>4. {uip, binary, h24} \subseteq BOOLEAN
    BY <1>1, Zenon
  <2> QED
    BY <1>1, <2>2, <2>3, <2>4 DEF TypeOK
<1>3. OwnTyped
  <2>1. <<Nul, Nul>> \in Character \X Character
    BY DEF Character
  <2>2. spare \in 0 .. MaxUpdates
    BY <1>1, TimeoutAssumption
  <2>3. /\ timestamp \div 10000 \in 0 .. 24
        /\ (timestamp \div 100) % 100 \in 0 .. (Minutes - 1)
        /\ timestamp % 100 \in 0 .. (Sixty - 1)
    BY <1>1, ClockFacts
  <2>4. who \in {"none", "start", "tick", "enter", "check", "wait", "td"}
    BY <1>1, Zenon
  <2>5. answer \in BOOLEAN
    BY <1>1, Zenon
  <2>6. period \in Periods \cup {0} /\ wide \in (10 .. 59) \cup {Nul}
    BY <1>1
  <2>7. origin \in Times \cup {Unset} /\ shown = <<>>
    BY <1>1, Zenon
  <2>8. zbuf \in Character \X Character
    BY <1>1, <2>1, Zenon
  <2> QED
    BY <2>2, <2>3, <2>4, <2>5, <2>6, <2>7, <2>8 DEF OwnTyped
<1>4. InRange /\ Quiet /\ Ahead /\ Counted
  BY <1>1
  DEF InRange, Quiet, Ahead, Counted, SecondRead, MinuteRead, HourRead, DayRead,
      Reading
<1>5. Given
  BY <1>1 DEF Given, Unset, Readings
<1>6. Started /\ DigitLeft
  BY <1>1 DEF Started, DigitLeft
<1> QED
  BY <1>2, <1>3, <1>4, <1>5, <1>6 DEF CInv

LEMMA Stutters ==
  ASSUME CInv, UNCHANGED allVars
  PROVE  CInv'
BY DEF CInv, TypeOK, OwnTyped, InRange, Quiet, Ahead, Given, Counted, Started,
       DigitLeft, allVars, vars, own, SecondRead, MinuteRead, HourRead, DayRead,
       Reading, SecondOf, MinuteOf, HourOf, DayOf, Hour24, HourGiven

\* The conjuncts of CInv hold from one call to the next, during a call, and as
\* the clock goes on.
THEOREM TimeoutInvariance == TimeoutSpec => []CInv
<1>1. TimeoutInit => CInv
  BY Starting
<1>2. CInv /\ [TimeoutNext]_allVars => CInv'
  <2> SUFFICES ASSUME CInv, [TimeoutNext]_allVars PROVE CInv'
    OBVIOUS
  <2>1. CASE GetTime /\ UNCHANGED own /\ Spent
    BY <2>1, GetsTime
  <2>2. CASE Caller /\ UNCHANGED spare
    BY <2>2, Callers
  <2>3. ASSUME NEW n \in Instants, Pass(n) /\ UNCHANGED spare
        PROVE  CInv'
    BY <2>3, Passes
  <2>4. CASE UNCHANGED allVars
    BY <2>4, Stutters
  <2> QED
    BY <2>1, <2>2, <2>3, <2>4 DEF TimeoutNext
<1> QED
  BY <1>1, <1>2, PTL DEF TimeoutSpec

\* Types of the variables: cmos_rtc_gettime() returns a time of the day whatever
\* was updated between its reads, and the timestamp of timeout_start() reads as
\* hours, minutes and seconds, for every period up to 196 seconds.
THEOREM TimeoutTypes == TimeoutSpec => []TimeoutTypeOK
<1>1. CInv => TimeoutTypeOK
  BY DEF CInv, OwnTyped, TimeoutTypeOK
<1> QED
  BY <1>1, TimeoutInvariance, PTL

-----------------------------------------------------------------------------
(* What the steps give. *)

\* Only the conversion returns from cmos_rtc_gettime().
LEMMA ConvertReturns ==
  ASSUME CInv, [TimeoutNext]_allVars, Returned
  PROVE  Convert
<1>1. pc = "convert" /\ pc' = "done"
  BY DEF Returned
<1>2. ~UNCHANGED allVars
  BY <1>1 DEF allVars, vars
<1>3. ~Caller
  <2>1. \A f : ~Call(f) /\ ~Got(f)
    BY <1>1 DEF Call, Got
  <2> QED
    BY <1>1, <2>1
    DEF Caller, timeout_start, timeout_tick, timeout_wait, td, SetDeadline,
        TickAnswer, Entered, Check, WaitAnswer, time_str
<1>4. \A n \in Instants : ~Pass(n)
  BY <1>1 DEF Pass
<1>5. GetTime
  BY <1>2, <1>3, <1>4 DEF TimeoutNext
<1>6. ~Announce /\ ~Tick /\ ~AwaitUpdate
  BY <1>1 DEF Announce, Tick, AwaitUpdate, Reading
<1>7. ~get_reg
  BY <1>1, FieldRead
<1> QED
  BY <1>5, <1>6, <1>7 DEF GetTime

\* cmos_rtc_gettime(), called by any of the functions: a call during whose reads
\* the clock is not updated returns the time they saw, in every format of the
\* registers, except that in the twelve-hour format noon and midnight change
\* places.
THEOREM QuietIsExact == TimeoutSpec => QuietExact
<1> DEFINE Exact ==
      Returned /\ ticks = 0 =>
        cur' = [began EXCEPT !.hour =
                  IF ~h24 /\ began.hour % 12 = 0 THEN 12 - began.hour ELSE began.hour]
<1>1. CInv /\ [TimeoutNext]_allVars => [Exact]_vars
  <2> SUFFICES ASSUME CInv, [TimeoutNext]_allVars, Returned, ticks = 0
               PROVE  cur' = [began EXCEPT !.hour =
                          IF ~h24 /\ began.hour % 12 = 0 THEN 12 - began.hour
                          ELSE began.hour]
    OBVIOUS
  <2>1. cur' = [began EXCEPT !.hour = HourGiven(began.hour)]
    BY ConvertReturns, QuietGives
  <2> QED
    BY <2>1 DEF HourGiven
<1> QED
  BY <1>1, TimeoutInvariance, PTL DEF TimeoutSpec, QuietExact

\* cmos_rtc_gettime(): however many updates fall between the reads, the time that
\* is returned in the 24-hour format is not before the one at which the call
\* began.
THEOREM IsNeverBehind == TimeoutSpec => NeverBehind
<1> DEFINE Behind == Returned /\ h24 => Seconds(began) <= Seconds(cur')
<1>1. CInv /\ [TimeoutNext]_allVars => [Behind]_vars
  <2> SUFFICES ASSUME CInv, [TimeoutNext]_allVars, Returned, h24
               PROVE  Seconds(began) <= Seconds(cur')
    OBVIOUS
  <2>1. /\ pc = "convert" /\ cur' \in Times
        /\ cur' = [day |-> DayOf, hour |-> HourOf, minute |-> MinuteOf,
                   second |-> SecondOf]
    BY ConvertReturns, Converts
  <2>2. Moment(began.day, began.hour, began.minute, began.second)
          <= Moment(DayOf, HourOf, MinuteOf, SecondOf)
    BY <2>1 DEF CInv, Ahead
  <2>3. Seconds(cur') = Moment(DayOf, HourOf, MinuteOf, SecondOf)
    <3>1. Seconds(cur') = Moment(cur'.day, cur'.hour, cur'.minute, cur'.second)
      BY <2>1, TimeFields
    <3>2. /\ cur'.day = DayOf /\ cur'.hour = HourOf /\ cur'.minute = MinuteOf
          /\ cur'.second = SecondOf
      BY <2>1
    <3> QED
      BY <3>1, <3>2
  <2>4. Seconds(began)
          = Moment(began.day, began.hour, began.minute, began.second)
    BY TimeFields DEF CInv, TypeOK
  <2> QED
    BY <2>2, <2>3, <2>4
<1> QED
  BY <1>1, TimeoutInvariance, PTL DEF TimeoutSpec, NeverBehind

\* td: for an hour or a minute below ten it shows 0 and the last digit of the
\* last number above nine that it showed, whenever that was.
THEOREM LastDigitIsLeft == TimeoutSpec => LastDigitStays
<1> DEFINE Stays ==
      time_str => shown' = <<Digits(cur.hour, wide),
                             Digits(cur.minute, Wider(cur.hour, wide))>>
<1>1. CInv /\ [TimeoutNext]_allVars => [Stays]_allVars
  BY Shown
<1> QED
  BY <1>1, TimeoutInvariance, PTL DEF TimeoutSpec, LastDigitStays

\* The day and the time of the day of x seconds after midnight of day d.
ADay == 86400

LEMMA DayOfMoment ==
  ASSUME NEW d \in Nat, NEW x \in Nat, x < 2 * ADay
  PROVE  /\ TimeAt(d * ADay + x).day = d <=> x < ADay
         /\ x < ADay => SecondOfDay(TimeAt(d * ADay + x)) = x
<1> DEFINE y == d * ADay + x
           t == TimeAt(y)
<1>1. y \in Nat
  BY SMT DEF ADay
<1>2. t.day = y \div ADay /\ t.hour = (y \div 3600) % 24
      /\ t.minute = (y \div 60) % 60 /\ t.second = y % 60
  BY ClockFacts, SMT DEF TimeAt, ADay
<1>3. SecondOfDay(t) = OfDay(t.hour, t.minute, t.second)
  BY <1>1, <1>2, ClockFacts DEF SecondOfDay, Seconds, OfDay, TimeAt
<1>4. y \div ADay = d <=> x < ADay
  BY SMT DEF ADay
<1>5. ASSUME x < ADay
      PROVE  OfDay((y \div 3600) % 24, (y \div 60) % 60, y % 60) = x
  <2> DEFINE h == x \div 3600
             a == x \div 60
             m == a % 60
             s == x % 60
  <2>1. h \in 0 .. 23 /\ a = 60 * h + m /\ m \in 0 .. 59
        /\ x = 60 * a + s /\ s \in 0 .. 59
    BY <1>5, SMT DEF ADay
  <2> HIDE DEF h, a, m, s
  <2>2. y = ADay * d + 3600 * h + 60 * m + s
    BY <2>1, SMT DEF ADay
  <2> HIDE DEF y
  <2>3. y \div 3600 = 24 * d + h
    BY <2>1, <2>2, SMT DEF ADay
  <2>4. y \div 60 = 1440 * d + 60 * h + m
    BY <2>1, <2>2, SMT DEF ADay
  <2>5. y % 60 = s
    BY <2>1, <2>2, SMT DEF ADay
  <2>6. (24 * d + h) % 24 = h
    BY <2>1
  <2>7. (1440 * d + 60 * h + m) % 60 = m
    BY <2>1
  <2>8. OfDay(h, m, s) = x
    BY <2>1 DEF OfDay
  <2>9. (y \div 3600) % 24 = h /\ (y \div 60) % 60 = m
    BY <2>3, <2>4, <2>6, <2>7
  <2> QED
    BY <2>5, <2>8, <2>9
<1> QED
  BY <1>2, <1>3, <1>4, <1>5

\* A deadline that is kept as a time of the day is a second of the same day, as
\* late as the carries make it, or one that no time of the day reaches.
LEMMA Compared ==
  ASSUME CInv, origin # Unset
  PROVE  /\ SmallTs(now) >= timestamp <=> SameDay /\ Overdue >= Late
         /\ SmallTs(now) = timestamp <=> SameDay /\ Overdue = Late
<1>1. origin \in Times /\ now \in Times /\ period \in 0 .. 196
  BY PeriodFits DEF CInv, OwnTyped, TypeOK
<1>2. PICK d \in Nat, oh \in 0 .. 24, om \in 0 .. 59, os \in 0 .. 59,
           nh \in 0 .. 24, nm \in 0 .. 59, ns \in 0 .. 59, p \in 0 .. 196 :
        /\ d = origin.day /\ oh = origin.hour /\ oh <= 23
        /\ om = origin.minute /\ os = origin.second
        /\ nh = now.hour /\ nh <= 23 /\ nm = now.minute /\ ns = now.second
        /\ p = period
  <2>1. /\ origin.day \in Nat /\ origin.hour \in 0 .. 24 /\ origin.hour <= 23
        /\ origin.minute \in 0 .. 59 /\ origin.second \in 0 .. 59
        /\ now.hour \in 0 .. 24 /\ now.hour <= 23
        /\ now.minute \in 0 .. 59 /\ now.second \in 0 .. 59
    BY <1>1, TimeFields
  <2> QED
    BY <1>1, <2>1, Zenon
<1> DEFINE x == OfDay(oh, om, os) + p
           y == OfDay(nh, nm, ns)
<1>3. Late = LateOf(origin, period)
  BY ClockFacts DEF Late, LateOf
<1>4. PICK h \in 0 .. 24, m \in 0 .. 59, s \in 0 .. 59 :
        /\ timestamp = Stamp(h, m, s)
        /\ OfDay(h, m, s) = x + Late
        /\ Late \in Nat
  <2>1. \E h \in 0 .. 24, m \in 0 .. 59, s \in 0 .. 59 :
          /\ SmallTs(time_normalize([origin EXCEPT !.second = @ + period]))
               = Stamp(h, m, s)
          /\ OfDay(h, m, s) = x + LateOf(origin, period)
          /\ LateOf(origin, period) \in Nat
    <3>1. x = OfDay(origin.hour, origin.minute, origin.second) + period
      BY <1>2
    <3>2. \E h \in 0 .. 24, m \in 0 .. 59, s \in 0 .. 59 :
            /\ SmallTs(time_normalize([origin EXCEPT !.second = @ + period]))
                 = Stamp(h, m, s)
            /\ OfDay(h, m, s)
                 = OfDay(origin.hour, origin.minute, origin.second) + period
                     + LateOf(origin, period)
            /\ LateOf(origin, period) \in Nat
      BY <1>1, Normalized, Zenon
    <3> HIDE DEF x
    <3> QED
      BY <3>1, <3>2, Zenon
  <2>2. timestamp = SmallTs(time_normalize([origin EXCEPT !.second = @ + period]))
    BY DEF CInv, Started
  <2> QED
    BY <1>3, <2>1, <2>2, Zenon
<1>5. /\ SmallTs(now) >= timestamp <=> y >= x + Late
      /\ SmallTs(now) = timestamp <=> y = x + Late
  <2>1. SmallTs(now) = Stamp(nh, nm, ns)
    BY <1>2 DEF SmallTs, Stamp
  <2>2. /\ Stamp(nh, nm, ns) >= Stamp(h, m, s) <=> y >= OfDay(h, m, s)
        /\ Stamp(nh, nm, ns) = Stamp(h, m, s) <=> y = OfDay(h, m, s)
    <3>1. InOrder(nh, nm, ns, h, m, s)
      BY StampOrder, Zenon
    <3> QED
      BY <3>1 DEF InOrder
  <2> QED
    BY <1>4, <2>1, <2>2
<1>6. x \in Nat /\ x < 2 * ADay /\ y \in Nat /\ y < ADay
  <2>1. oh <= 23 /\ nh <= 23
    BY <1>2
  <2> QED
    BY <2>1, SMT DEF OfDay, ADay
<1>7. Deadline = d * ADay + x
  <2>1. Seconds(origin)
          = Moment(origin.day, origin.hour, origin.minute, origin.second)
    BY <1>1, TimeFields
  <2> QED
    BY <1>2, <2>1, SMT DEF Deadline, Moment, OfDay, ADay
<1>8. SecondOfDay(now) = y
  <2>1. now = [day |-> now.day, hour |-> now.hour, minute |-> now.minute,
               second |-> now.second]
    BY <1>1, TimeFields
  <2>2. [now EXCEPT !.day = 0] =
          [day |-> 0, hour |-> now.hour, minute |-> now.minute,
           second |-> now.second]
    BY <2>1
  <2> QED
    BY <1>2, <2>2, ClockFacts DEF SecondOfDay, Seconds, OfDay
<1> HIDE DEF x, y
<1>9. /\ SameDay <=> x < ADay
      /\ SameDay => Overdue = y - x
  <2>1. /\ TimeAt(d * ADay + x).day = d <=> x < ADay
        /\ x < ADay => SecondOfDay(TimeAt(d * ADay + x)) = x
    BY <1>6, DayOfMoment
  <2> QED
    BY <1>2, <1>7, <1>8, <2>1 DEF SameDay, Overdue
<1>10. CASE x < ADay
  <2>1. SameDay /\ Overdue = y - x
    BY <1>9, <1>10
  <2> QED
    BY <1>4, <1>5, <1>6, <2>1
<1>11. CASE ~(x < ADay)
  <2>1. ~SameDay /\ y < x + Late
    BY <1>4, <1>6, <1>9, <1>11, SMT DEF ADay
  <2> QED
    BY <1>4, <1>5, <1>6, <2>1
<1> QED
  BY <1>10, <1>11

\* timeout.c: with the clock read in the 24-hour format and not updated during
\* the reading, timeout_tick() answers yes from the deadline on until midnight,
\* as late as Late says, and timeout_wait() calls failure() when it looks in
\* that very second; neither of them ever does if the deadline is after
\* midnight.
THEOREM Expires == TimeoutSpec => ExpiresExactly
<1> DEFINE Exactly ==
      h24 /\ ticks = 0 =>
        /\ TickAnswer => answer' = (SameDay /\ Overdue >= Late)
        /\ WaitAnswer => answer' = (SameDay /\ Overdue = Late)
<1>1. CInv /\ [TimeoutNext]_allVars => [Exactly]_allVars
  <2> SUFFICES ASSUME CInv, h24, ticks = 0
               PROVE  /\ TickAnswer => answer' = (SameDay /\ Overdue >= Late)
                      /\ WaitAnswer => answer' = (SameDay /\ Overdue = Late)
    OBVIOUS
  <2>1. ASSUME TickAnswer
        PROVE  answer' = (SameDay /\ Overdue >= Late)
    <3>1. who = "tick" /\ pc = "done" /\ answer' = (SmallTs(cur) >= timestamp)
      BY <2>1 DEF TickAnswer, Got
    <3>2. cur = now /\ origin # Unset
      BY <3>1 DEF CInv, Given, Started
    <3>3. SmallTs(now) >= timestamp <=> SameDay /\ Overdue >= Late
      BY <3>2, Compared
    <3>4. (SmallTs(now) >= timestamp) = (SameDay /\ Overdue >= Late)
      BY <3>3, SMT
    <3> QED
      BY <3>1, <3>2, <3>4
  <2>2. ASSUME WaitAnswer
        PROVE  answer' = (SameDay /\ Overdue = Late)
    <3>1. who = "wait" /\ pc = "done" /\ answer' = (SmallTs(cur) = timestamp)
      BY <2>2 DEF WaitAnswer, Got
    <3>2. cur = now /\ origin # Unset
      BY <3>1 DEF CInv, Given, Started
    <3>3. SmallTs(now) = timestamp <=> SameDay /\ Overdue = Late
      BY <3>2, Compared
    <3> QED
      BY <3>1, <3>2, <3>3, Zenon
  <2> QED
    BY <2>1, <2>2
<1> QED
  BY <1>1, TimeoutInvariance, PTL DEF TimeoutSpec, ExpiresExactly
=============================================================================
